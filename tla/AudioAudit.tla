----------------------------- MODULE AudioAudit -----------------------------
(***************************************************************************)
(* One check of the audio lab's audit (audio-lab/src/audit/executor.ts): render  *)
(* the legs its assertion compares, measure them, look at their health, and       *)
(* say PASS, FAIL, or whether the register of known issues was right.               *)
(*                                                                         *)
(* A clip is known by the metric the assertion is about, its peak and its          *)
(* health flags; a metric may be missing (null) or, of samples that are not       *)
(* finite, not a number: and what is not a number is never below anything.        *)
(***************************************************************************)
EXTENDS Integers, Sequences

CONSTANTS
  Level,       \* the values of a metric, integers
  Null, NaN,
  MinDelta, MinLevel, MaxLevel, MinPeak, MinSpread, KnobTime, Tolerance,  \* what is asserted
  EnumValues   \* how many values an enum check renders

ASSUME AuditAssumption ==
  /\ Level \subseteq Int /\ Null \notin Level /\ NaN \notin Level /\ Null # NaN
  /\ {MinLevel, MaxLevel, MinPeak, MinPeak - 1} \subseteq Level
  /\ {MinDelta, MinSpread} \subseteq Nat \ {0}
  /\ KnobTime \in Int /\ Tolerance \in Nat
  /\ EnumValues \in Nat \ {0}

VARIABLES
  check,   \* the check being run: [kind, direction, distinct, allowed, known]
  legs,    \* its clips so far
  broken,  \* something threw
  verdict, \* its status, "running" at first
  saved    \* legs kept for inspection

auditVars == <<check, legs, broken, verdict, saved>>

Flags == {"NON_FINITE", "DC_OFFSET"}
Clip == {c \in [metric : Level \cup {Null, NaN}, peak : {MinPeak - 1, MinPeak, Null}, flags : SUBSET Flags] :
           c.metric = NaN => "NON_FINITE" \in c.flags}

Moves == {"directional", "route"}
Check ==
  {c \in [kind : Moves \cup {"absolute", "enum", "pitchSettle", "health"}, direction : {"up", "down", "change"},
          distinct : BOOLEAN, allowed : {{}, {"DC_OFFSET"}, Flags}, known : BOOLEAN] :
     (c.kind \notin Moves => c.direction = "up") /\ (c.distinct => c.kind = "enum")}

LegCount(c) == CASE c.kind \in Moves -> 2 [] c.kind = "enum" -> EnumValues [] OTHER -> 1

InitAudit ==
  /\ check \in Check
  /\ legs = <<>> /\ broken = FALSE /\ verdict = "running" /\ saved = {}

----------------------------------------------------------------------------

RenderLeg(clip) ==
  /\ verdict = "running" /\ ~broken /\ Len(legs) < LegCount(check)
  /\ legs' = Append(legs, clip)
  /\ UNCHANGED <<check, broken, verdict, saved>>

\* An unknown parameter, too many routes, a baseline without its two notes: the rest is not looked at.
Throw ==
  /\ verdict = "running" /\ ~broken /\ Len(legs) <= LegCount(check)
  /\ broken' = TRUE
  /\ UNCHANGED <<check, legs, verdict, saved>>

Below(x, y) == {x, y} \subseteq Level /\ x < y
Metrics == {legs[i].metric : i \in DOMAIN legs}
Distance(x, y) == IF x < y THEN y - x ELSE x - y

\* evalDelta: what is not a number fails every direction.
Moved(from, to) ==
  /\ {from, to} \subseteq Level
  /\ CASE check.direction = "up" -> to - from >= MinDelta
       [] check.direction = "down" -> from - to >= MinDelta
       [] OTHER -> Distance(from, to) >= MinDelta

OutOfRange(m) == m = Null \/ Below(m, MinLevel) \/ Below(MaxLevel, m)

\* The spread of metrics one of which is not a number is not one either.
TooAlike ==
  \/ Null \in Metrics
  \/ NaN \notin Metrics /\ \A x, y \in Metrics : Distance(x, y) < MinSpread
EnumFails ==
  \/ \E i \in DOMAIN legs : legs[i].peak = Null \/ Below(legs[i].peak, MinPeak)
  \/ check.distinct /\ TooAlike

\* pitchSettleTime finds a time or none.
Unsettled(time) == time \in {Null, NaN} \/ Distance(time, KnobTime) > Tolerance

AssertionFails ==
  CASE check.kind \in Moves -> ~Moved(legs[1].metric, legs[2].metric)
    [] check.kind = "absolute" -> OutOfRange(legs[1].metric)
    [] check.kind = "enum" -> EnumFails
    [] check.kind = "pitchSettle" -> Unsettled(legs[1].metric)
    [] OTHER -> FALSE

AllowedAsAsked == check.allowed
Allowed == check.allowed \ {"NON_FINITE"}

HealthFails == \E i \in DOMAIN legs : ~(legs[i].flags \subseteq Allowed)

HasProblems == broken \/ AssertionFails \/ HealthFails

Status ==
  CASE ~HasProblems -> IF check.known THEN "STALE_KNOWN" ELSE "PASS"
    [] OTHER -> IF check.known THEN "KNOWN" ELSE "FAIL"

\* A failure keeps the last leg there is.
Classify ==
  /\ verdict = "running" /\ (broken \/ Len(legs) = LegCount(check))
  /\ verdict' = Status
  /\ saved' = IF Status = "FAIL" /\ legs # <<>> THEN {legs[Len(legs)]} ELSE {}
  /\ UNCHANGED <<check, legs, broken>>

NextAudit == (\E clip \in Clip : RenderLeg(clip)) \/ Throw \/ Classify

AuditSpec == InitAudit /\ [][NextAudit]_auditVars

----------------------------------------------------------------------------

\* What a pass is taken to say: every leg was rendered, of finite samples, with no other flag than
\* those this check may raise; what was compared was measured, and compares as asserted.
Measured == Metrics \subseteq Level
Earned ==
  /\ ~broken /\ Len(legs) = LegCount(check)
  /\ \A i \in DOMAIN legs : "NON_FINITE" \notin legs[i].flags /\ legs[i].flags \subseteq check.allowed
  /\ check.kind \in Moves \cup {"absolute", "pitchSettle"} \/ check.distinct => Measured
  /\ CASE check.kind \in Moves ->
            LET change == legs[2].metric - legs[1].metric
            IN CASE check.direction = "up" -> change >= MinDelta
                 [] check.direction = "down" -> -change >= MinDelta
                 [] OTHER -> change >= MinDelta \/ -change >= MinDelta
       [] check.kind = "absolute" -> legs[1].metric \in MinLevel..MaxLevel
       [] check.kind = "pitchSettle" -> legs[1].metric \in (KnobTime - Tolerance)..(KnobTime + Tolerance)
       [] check.kind = "enum" ->
            /\ \A i \in DOMAIN legs : legs[i].peak \in Level /\ legs[i].peak >= MinPeak
            /\ check.distinct => \E i, j \in DOMAIN legs : legs[i].metric - legs[j].metric >= MinSpread
       [] OTHER -> TRUE

\* A check passes when, and only when, it earned it; a known issue keeps the suite green only
\* while it lasts, and a failure comes with a render to listen to.  (executor.ts:120-146,
\* "NON_FINITE never allowed", types.ts:47.)
PassesEarned ==
  verdict # "running" =>
    /\ verdict \in {"PASS", "STALE_KNOWN"} <=> Earned
    /\ verdict \in {"KNOWN", "STALE_KNOWN"} <=> check.known
    /\ (verdict = "FAIL" /\ legs # <<>>) => saved # {}
=============================================================================
