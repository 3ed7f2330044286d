------------------------------ MODULE CaveWorld ------------------------------
(***************************************************************************)
(* The World of the CAVE server (CAVE-server/World): which connection       *)
(* numbers were given out, which of them are bound to an endpoint, and the  *)
(* elements each connection owns in the virtual world.                      *)
(*                                                                          *)
(* A profile remembers its block of elements by two iterators into the      *)
(* std::map of all elements.  The code moves them past begin() and end()    *)
(* and reads end()->first, which C++ leaves undefined; the operators of the *)
(* section on iterators say what libstdc++'s red-black tree does then.      *)
(***************************************************************************)
EXTENDS Integers, FiniteSets, FiniteSetsExt, Functions

CONSTANTS
    Connections,   \* connection numbers
    Ids,           \* id numbers a client gives its elements
    Addresses,     \* udp endpoints
    Messages,      \* what an element can be set to: records with a field "type"
    End,           \* elements.end()
    Freed,         \* an iterator whose node was erased
    Hang           \* the result of a loop that never ends

ASSUME WorldAssumption == Connections \subseteq Nat /\ Ids \subseteq Nat

Keys == Connections \X Ids

ASSUME IteratorAssumption ==
    {End, Freed, Hang} \cap Keys = {} /\ End # Freed /\ Freed # Hang /\ Hang # End

VARIABLES
    registered,    \* World::registeredConnectionNumbers: numbers with no endpoint
    endpoints,     \* World::endpoints: connection number -> profile
    elements,      \* World::elements: <<connection, id>> -> message
    status         \* "running", "hung" in a loop, or "undefined" behaviour

worldVars == <<registered, endpoints, elements, status>>

Iterators == Keys \cup {End, Freed}

(* struct endpointProfile; its connectionNumber is the key it is stored at  *)
Profiles == [endpoint : Addresses, count : Int, first : Iterators, last : Iterators]

WorldInit ==
    /\ registered = {}
    /\ endpoints = <<>>
    /\ elements = <<>>
    /\ status = "running"

-----------------------------------------------------------------------------
(* Iterators of std::map.  K is the set of keys in the map; leftChild says  *)
(* whether the node of the greatest key has a left child, the one thing     *)
(* about the shape of the tree that shows when an iterator leaves it.       *)

Less(a, b) == a[1] < b[1] \/ (a[1] = b[1] /\ a[2] < b[2])

Greatest(S) == CHOOSE k \in S : \A j \in S \ {k} : Less(j, k)
Least(S) == CHOOSE k \in S : \A j \in S \ {k} : Less(k, j)

Before(k, K) == {j \in K : Less(j, k)}
After(k, K) == {j \in K : Less(k, j)}

(* One or three nodes come in one shape only.                               *)
Shapes(K) == IF Cardinality(K) \in {0, 1, 3} THEN {FALSE} ELSE BOOLEAN

(* The shape just after key was inserted: of two or four nodes the greatest *)
(* has a left child if that is the new one; of more, both shapes occur.     *)
InsertShapes(K, key) ==
    IF Cardinality(K) \in {2, 4} THEN {After(key, K) = {Greatest(K)}} ELSE Shapes(K)

(* operator++: from end() it lands on the greatest node, or on its child    *)
Next_(it, K, leftChild) ==
    IF it = End
      THEN IF leftChild THEN Greatest(Before(Greatest(K), K)) ELSE Greatest(K)
      ELSE IF After(it, K) = {} THEN End ELSE Least(After(it, K))

(* operator--: from begin() it stays there when begin() is the root, which  *)
(* takes a tree of one node or of two with the greater one on the right     *)
Prev(it, K, leftChild) ==
    IF it = End
      THEN Greatest(K)
      ELSE IF Before(it, K) # {} THEN Greatest(Before(it, K))
      ELSE IF Cardinality(K) <= 2 /\ ~leftChild THEN it ELSE End

(* it->first.first: at end() it reads the node count of the map             *)
ConnectionAt(it, K) == IF it = End THEN Cardinality(K) ELSE it[1]

(* Where a path of iterators first leaves the elements of c, if it does     *)
Stop(curr, c, K) ==
    LET stops == {n \in DOMAIN curr : ConnectionAt(curr[n], K) # c}
    IN  IF stops = {} THEN Hang ELSE curr[Min(stops)]

(* The iterators that a loop visits that steps from it on and on            *)
Path(step, it, K) ==
    LET curr[n \in 0 .. Cardinality(K) + 1] == IF n = 0 THEN it ELSE step[curr[n - 1]]
    IN  curr

Steps(Move(_, _, _), K, leftChild) == [i \in K \cup {End} |-> Move(i, K, leftChild)]

(* Mutant: the walk goes back over smaller connection numbers too.          *)
WalkBackOver(it, c, K, leftChild) ==
    LET curr == Path(Steps(Prev, K, leftChild), it, K)
        stops == {n \in DOMAIN curr : ConnectionAt(curr[n], K) > c}
    IN  IF stops = {} THEN Hang ELSE curr[Min(stops)]

(* while (curr->first.first == c) curr--, and where it stops                *)
WalkBack(it, c, K, leftChild) == Stop(Path(Steps(Prev, K, leftChild), it, K), c, K)

(* while (curr->first.first == c) curr++, and where it stops                *)
WalkAhead(it, c, K, leftChild) == Stop(Path(Steps(Next_, K, leftChild), it, K), c, K)

-----------------------------------------------------------------------------
(* Queries                                                                  *)

Owned(c) == {k \in DOMAIN elements : k[1] = c}

(* verifyConnection: the endpoint it is given plays no part                 *)
VerifyConnection(c, address) == c \in DOMAIN endpoints

(* generateWorldPacket: every vehicle, whoever owns it                      *)
GenerateWorldPacket == {k \in DOMAIN elements : elements[k].type = "vehicle"}

-----------------------------------------------------------------------------
(* Operations                                                               *)

(* std::map insertion of x -> v, or v in place of what is there for x      *)
With(f, x, v) == [y \in DOMAIN f \cup {x} |-> IF y = x THEN v ELSE f[y]]

RegisterConnectionNumber(c) ==
    /\ registered' = IF c \in DOMAIN endpoints THEN registered ELSE registered \cup {c}
    /\ UNCHANGED <<endpoints, elements, status>>

CanRegisterEndpoint(c) == c \in registered /\ c \notin DOMAIN endpoints

RegisterEndpoint(address, c) ==
    IF CanRegisterEndpoint(c)
      THEN /\ registered' = registered \ {c}
           /\ endpoints' = With(endpoints, c, [endpoint |-> address, count |-> 0,
                                               first |-> End, last |-> End])
           /\ UNCHANGED <<elements, status>>
      ELSE UNCHANGED worldVars

(* Mutant: an update that counts the element again.                         *)
OverwriteAndCount(m, key) ==
    /\ elements' = [elements EXCEPT ![key] = m]
    /\ endpoints' = [endpoints EXCEPT ![key[1]].count = @ + 1]
    /\ UNCHANGED <<registered, status>>

(* updateElement of a key that is there: same type only                     *)
Overwrite(m, key) ==
    /\ elements' = IF elements[key].type = m.type THEN [elements EXCEPT ![key] = m]
                                                  ELSE elements
    /\ UNCHANGED <<registered, endpoints, status>>

(* the profiles when c counts that many elements more, and has new iterators *)
Counted(c, more, first, last) ==
    [endpoints EXCEPT ![c] = [endpoint |-> @.endpoint, count |-> @.count + more,
                              first |-> first, last |-> last]]

(* updateElement of a new key: the profile's iterators walk away from the   *)
(* block they point at, and the element is in the map whatever they meet.   *)
Insert(m, c, key) ==
    /\ elements' = With(elements, key, m)
    /\ UNCHANGED registered
    /\ LET K == DOMAIN elements \cup {key}
           profile == endpoints[c]
       IN  IF Freed \in {profile.first, profile.last}
             THEN /\ status' = "undefined"
                  /\ endpoints' = Counted(c, 1, profile.first, profile.last)
             ELSE \E leftChild \in InsertShapes(K, key) :
                    LET back == WalkBack(profile.first, c, K, leftChild)
                        ahead == WalkAhead(profile.last, c, K, leftChild)
                    IN  IF Hang \in {back, ahead}
                          THEN /\ status' = "hung"
                               /\ endpoints' = Counted(c, 1, profile.first, profile.last)
                          ELSE /\ endpoints' = Counted(c, 1, Next_(back, K, leftChild),
                                                             Prev(ahead, K, leftChild))
                               /\ UNCHANGED status

UpdateElement(m, c, id) ==
    IF <<c, id>> \in DOMAIN elements THEN Overwrite(m, <<c, id>>)
                                     ELSE Insert(m, c, <<c, id>>)

(* erase(node) for the keys in gone: iterators to them are left dangling    *)
Erase(gone, profiles) ==
    LET Kept(it) == IF it \in gone THEN Freed ELSE it
    IN  /\ elements' = [k \in DOMAIN elements \ gone |-> elements[k]]
        /\ endpoints' = [c \in DOMAIN profiles |->
               [profiles[c] EXCEPT !.first = Kept(@), !.last = Kept(@)]]

(* removeElement.  When the element is the profile's last, mess moves back  *)
(* with the iterator, and what is erased is the element before it.          *)
RemoveElement(id, c) ==
    LET key == <<c, id>>
        K == DOMAIN elements
        profile == endpoints[c]
    IN  IF key \notin K THEN UNCHANGED worldVars
        ELSE \E leftChild \in Shapes(K) :
            LET atLast == key = profile.last
                mess == IF atLast THEN Prev(key, K, leftChild) ELSE key
                last == IF atLast THEN mess ELSE profile.last
                first == IF mess = profile.first /\ mess # End
                           THEN Next_(mess, K, leftChild) ELSE profile.first
            IN  IF mess = End
                  THEN status' = "undefined" /\ UNCHANGED <<registered, endpoints, elements>>
                  ELSE Erase({mess}, Counted(c, -1, first, last)) /\ UNCHANGED <<registered, status>>

(* removeConnection: erases from first up to one past last                  *)
RemoveConnection(c) ==
    LET K == DOMAIN elements
        profile == endpoints[c]
        others == [d \in DOMAIN endpoints \ {c} |-> endpoints[d]]
        Undefined == status' = "undefined" /\ UNCHANGED <<endpoints, elements>>
    IN  /\ UNCHANGED registered
        /\ IF Freed \in {profile.first, profile.last} THEN Undefined
           ELSE IF K = {} THEN status' = "hung" /\ UNCHANGED <<endpoints, elements>>
           ELSE \E leftChild \in Shapes(K) :
               LET finish == Next_(profile.last, K, leftChild)
                   range == {k \in K : /\ k = profile.first \/ Less(profile.first, k)
                                       /\ finish = End \/ Less(k, finish)}
               IN  IF profile.first = finish THEN Erase({}, others) /\ UNCHANGED status
                   ELSE IF profile.first = End THEN Undefined
                   ELSE IF finish # End /\ Less(finish, profile.first) THEN Undefined
                   ELSE Erase(range, others) /\ UNCHANGED status

-----------------------------------------------------------------------------
Registration ==
    \/ \E c \in Connections : RegisterConnectionNumber(c)
    \/ \E c \in Connections, a \in Addresses : RegisterEndpoint(a, c)

Update ==
    \E c \in DOMAIN endpoints, id \in Ids, m \in Messages : UpdateElement(m, c, id)

-----------------------------------------------------------------------------
WorldTypeOK ==
    /\ registered \subseteq Connections
    /\ DOMAIN endpoints \subseteq Connections
    /\ \A c \in DOMAIN endpoints : endpoints[c] \in Profiles
    /\ DOMAIN elements \subseteq Keys
    /\ \A k \in DOMAIN elements : elements[k] \in Messages
    /\ status \in {"running", "hung", "undefined"}

(* A number is waiting for its endpoint or bound to one, never both, so     *)
(* that a second handshake for it is refused.                               *)
WaitingOrBound == registered \cap DOMAIN endpoints = {}

(* Every element has an owner that is connected, and each profile counts    *)
(* exactly the elements it owns: count and the map are kept in step by      *)
(* separate statements, and profileElementCount reports the first of them.  *)
CountsMatchElements ==
    /\ \A k \in DOMAIN elements : k[1] \in DOMAIN endpoints
    /\ \A c \in DOMAIN endpoints : endpoints[c].count = Cardinality(Owned(c))

(* An update does not return in two cases only.  At end() it read the       *)
(* number of elements, which was the number of a connection; or it is a     *)
(* connection's second element in a world with no other, and --begin() is   *)
(* begin() because that is the root.                                        *)
HangsAtTheCountOrTheRoot ==
    status = "hung" =>
        \/ Cardinality(DOMAIN elements) \in DOMAIN endpoints
        \/ /\ Cardinality(DOMAIN elements) = 2
           /\ \E c \in DOMAIN endpoints : Owned(c) = DOMAIN elements

(* The profiles together count as many elements as there are: removeElement *)
(* counts one down and takes one out, the wrong one perhaps.                *)
TotalsAgree ==
    SumFunction([c \in DOMAIN endpoints |-> endpoints[c].count])
        = Cardinality(DOMAIN elements)
=============================================================================
