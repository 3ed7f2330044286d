---------------------------- MODULE LidarFollower ----------------------------
(***************************************************************************)
(* The autonomous vehicle of ChronoClient/AutoVehicleClient.cpp: the lidar  *)
(* (ChRaySensor and its ChRayShapes), the driver that follows a body        *)
(* (ChBodyFollowerDriver), and the loop that reads the one and advances the *)
(* other.  Where the vehicles come from is ChronoClient.                    *)
(*                                                                          *)
(* Distances are measured along a ray from where it starts, in units of the *)
(* model; a scene says how far the next obstacle is at each bearing.  It    *)
(* moves as it likes and matters when it is scanned.  Time is in simulation *)
(* steps.  The controllers of Chrono put out what they like; pedals are in  *)
(* fifths, as the threshold of 0.2 is one of them.                          *)
(***************************************************************************)
EXTENDS Integers, FiniteSetsExt

CONSTANTS
    HorzSamples, VertSamples,   \* arguments of Initialize
    MinRange, MaxRange,         \* where a ray starts and ends
    Period,                     \* 1.0 / updateRate
    StepSizes,                  \* what SuggestSimulationStep returns
    Distances,                  \* how far away the target may be
    Outputs,                    \* what the speed controller may put out, in fifths
    Bodies,                     \* the chassis of the vehicles made so far
    NoBody                      \* the body the driver is made with

ASSUME LidarAssumption ==
    /\ HorzSamples \in Nat /\ VertSamples \in Nat
    /\ MinRange \in Nat /\ MaxRange \in Nat /\ MinRange < MaxRange
    /\ Period \in Nat \ {0} /\ StepSizes \subseteq Nat \ {0}
    /\ \E longest \in StepSizes : \A step \in StepSizes : step <= longest
    /\ Outputs \subseteq Int /\ NoBody \notin Bodies

Full == 5                       \* a pedal pressed all the way
Threshold == 1                  \* m_throttle_threshold = 0.2

FullRange == MaxRange - MinRange

(* Initialize makes at least one ray in each direction.                     *)
Samples(n) == IF n < 1 THEN 1 ELSE n
Rays == (0 .. Samples(HorzSamples) - 1) \X (0 .. Samples(VertSamples) - 1)

Ahead == <<0, -1>>              \* the bearing of the chassis' x axis
Bearings == Rays \cup {Ahead}

VARIABLES
    stage,         \* where the loop is
    rays,          \* ray -> [length: contactLen, reach and bearing: relativeEndPos]
    age,           \* time since timeLastUpdated
    driver,        \* m_throttle, m_braking, m_current_distance, the look-ahead distance
    followed,      \* the body that the driver and its steering controller follow
    inputs,        \* the pedals the vehicle was last synchronized with
    scene,         \* the scene at the last scan: bearing -> distance of the next obstacle
    outputs        \* history: the speed controller's last two outputs

lidarVars == <<rays, age, scene>>
driverVars == <<driver, followed, outputs>>
followerVars == <<stage, lidarVars, driverVars, inputs>>

NewRay == [length |-> -1, reach |-> 0, bearing |-> Ahead]

SetPoints(ray, bearing) == [ray EXCEPT !.reach = FullRange, !.bearing = bearing]

AddRay(bearing) == SetPoints(NewRay, bearing)

Scenes == [Bearings -> 0 .. FullRange + 1]
NoScan == [b \in Bearings |-> -1]

LidarInit ==
    /\ stage = "inputs"
    /\ rays = [r \in Rays |-> AddRay(r)]
    /\ age = 0
    /\ driver = [throttle |-> 0, braking |-> 0, currentDistance |-> 3, lookAhead |-> 0]
    /\ followed = NoBody
    /\ inputs = [throttle |-> 0, braking |-> 0]
    /\ scene = NoScan
    /\ outputs = <<0, 0>>

Stage(from, to) == stage = from /\ stage' = to

-----------------------------------------------------------------------------
(* A ray                                                                    *)

(* Mutant: the end of the ray stays where it was.                           *)
SetLengthOnly(ray, length) == [ray EXCEPT !.length = length]

(* SetLength moves the end along the ray.  Normalize of a null vector, of a *)
(* ray without length, is the x axis.                                       *)
SetLength(ray, length) ==
    [length |-> length, reach |-> length,
     bearing |-> IF ray.reach = 0 THEN Ahead ELSE ray.bearing]

(* RayHit of the collision system, between the ray's two ends               *)
Hit(ray) == scene'[ray.bearing] <= ray.reach

UpdateRay(ray) == IF Hit(ray) THEN SetLength(ray, scene'[ray.bearing]) ELSE ray

-----------------------------------------------------------------------------
(* The sensor                                                               *)

(* Mutant: the rays are cast as far as they got the last time.              *)
ScanAsFarAsBefore == [r \in Rays |-> UpdateRay(rays[r])]

(* A scan: every ray has its full length again, and is cast.                *)
Scan == [r \in Rays |-> UpdateRay(SetLength(rays[r], FullRange))]

Update ==
    IF age >= Period
      THEN /\ scene' \in Scenes
           /\ rays' = Scan
           /\ age' = 0
      ELSE UNCHANGED lidarVars

GetMinRange(rs) == MinRange + Min({rs[r].length : r \in Rays})

-----------------------------------------------------------------------------
(* The driver                                                               *)

Clamp(out) == Max({-Full, Min({out, Full})})

(* Mutant: the brakes are for a throttle below the threshold only.          *)
PedalsBelowThreshold(out) ==
    IF out > 0 THEN [throttle |-> out, braking |-> 0]
    ELSE IF driver.throttle >= Threshold THEN [throttle |-> Full + out, braking |-> 0]
    ELSE [throttle |-> 0, braking |-> -out]

(* Too slow; too fast, with the throttle open; too fast                     *)
Pedals(out) ==
    IF out > 0 THEN [throttle |-> out, braking |-> 0]
    ELSE IF driver.throttle > Threshold THEN [throttle |-> Full + out, braking |-> 0]
    ELSE [throttle |-> 0, braking |-> -out]

-----------------------------------------------------------------------------
(* The loop                                                                 *)

(* The inputs are collected, and the vehicle synchronized with them.        *)
Synchronize ==
    /\ Stage("inputs", "others")
    /\ inputs' = [throttle |-> driver.throttle, braking |-> driver.braking]
    /\ UNCHANGED <<lidarVars, driverVars>>

(* The other vehicles are made and moved; one of them may be the target.    *)
SetTarget ==
    /\ Stage("others", "sense")
    /\ followed' \in Bodies \cup {followed}
    /\ UNCHANGED <<lidarVars, driver, outputs, inputs>>

(* lidar->Update(); driver.SetCurrentDistance(lidar->GetMinRange())         *)
Sense ==
    /\ Stage("sense", "advance")
    /\ Update
    /\ driver' = [driver EXCEPT !.currentDistance = GetMinRange(rays')]
    /\ UNCHANGED <<followed, outputs, inputs>>

(* driver.Advance.  The distance it hands to the controllers is one of its  *)
(* own, to the target, and hides the member that the lidar's went into; the *)
(* steering controller has used the one before.                             *)
AdvanceDriver ==
    /\ Stage("advance", "inputs")
    /\ \E out \in Outputs, distance \in Distances, step \in StepSizes :
          LET pedals == Pedals(Clamp(out))
          IN  /\ driver' = [driver EXCEPT !.throttle = pedals.throttle,
                                          !.braking = pedals.braking,
                                          !.lookAhead = distance]
              /\ outputs' = <<outputs[2], Clamp(out)>>
              /\ age' = age + step
    /\ UNCHANGED <<rays, scene, followed, inputs>>

LidarNext == Synchronize \/ SetTarget \/ Sense \/ AdvanceDriver

LidarSpec == LidarInit /\ [][LidarNext]_followerVars

-----------------------------------------------------------------------------
LidarTypeOK ==
    /\ stage \in {"inputs", "others", "sense", "advance"}
    /\ rays \in [Rays -> [length : -1 .. FullRange, reach : 0 .. FullRange, bearing : Bearings]]
    /\ age \in 0 .. Period + Max(StepSizes) - 1
    /\ driver \in [throttle : 0 .. Full, braking : 0 .. Full,
                   currentDistance : Min({MinRange - 1, 3}) .. Max({MaxRange, 3}),
                   lookAhead : Distances \cup {0}]
    /\ followed \in Bodies \cup {NoBody}
    /\ inputs \in [throttle : 0 .. Full, braking : 0 .. Full]
    /\ scene \in Scenes \cup {NoScan}
    /\ outputs \in (-Full .. Full) \X (-Full .. Full)

(* The variables keep their types, and when the driver advances, every ray  *)
(* reads the obstacle that was there less than a period ago, or the full    *)
(* range: however near the obstacle was before that, which has shortened    *)
(* the ray.                                                                 *)
ReadsTheLastScan ==
    /\ LidarTypeOK
    /\ stage = "advance" => age < Period
    /\ scene # NoScan =>
          \A r \in Rays : rays[r].length = Min({scene[rays[r].bearing], FullRange})

(* A ray looks where Initialize pointed it until it has touched an obstacle.*)
(* From the scan after that it looks ahead, for good.                       *)
TurnsAheadAfterATouch ==
    [][\A r \in Rays :
          /\ rays[r].bearing # rays'[r].bearing => rays[r].length = 0 /\ rays'[r].bearing = Ahead
          /\ rays[r].length = 0 /\ rays'[r] # rays[r] => rays'[r].bearing = Ahead]_followerVars

(* When the controller has asked twice in a row to slow down by four fifths *)
(* or more, the vehicle brakes as the second asked, and its throttle is     *)
(* shut: once, an open throttle is but set to the rest.                     *)
BrakesTheSecondTime ==
    stage = "others" /\ outputs[1] <= Threshold - Full /\ outputs[2] <= Threshold - Full
        => inputs = [throttle |-> 0, braking |-> -outputs[2]]
=============================================================================
