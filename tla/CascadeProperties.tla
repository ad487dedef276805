------------------------- MODULE CascadeProperties -------------------------
(***************************************************************************)
(* What a session promises about its cascades, over the states of module   *)
(* Cascade.                                                                *)
(***************************************************************************)
EXTENDS Cascade

Stored(k) == IF facts[k] = Absent THEN NoCell ELSE Json(facts[k])

(***************************************************************************)
(* At every moment, discarding the cascade would leave a cache that tells  *)
(* the guest what the store would: every cached cell is the stored fact,   *)
(* in the JSON form the guest parses.  Between runs nothing is left to     *)
(* discard, so slung_get answers from the cache and from the store agree,  *)
(* also after a trap, a full queue, too deep a cascade, a failed           *)
(* allocation or a failed checkpoint in the middle of a run.  The cache    *)
(* lags behind the store only for a fact whose ingestion could not cache   *)
(* it (events.zig:632-635), and only until the key is written again, by a  *)
(* payload or by a checkpointed cascade.                                   *)
(* (context.zig discardCascade, generic.zig slung_set and slung_get)       *)
(***************************************************************************)
CacheCoherent ==
    \A k \in Keys :
        IF k \in missed THEN Undone[k] \in {Json(t) : t \in 1..(facts[k] - 1)}
                        ELSE Undone[k] \in {NoCell, Stored(k)}

(***************************************************************************)
(* A finished run leaves nothing that the next one would take for its own: *)
(* no signal in the dirty queue, no output to checkpoint, no claim that    *)
(* would keep a rule from ever running again on that entity.               *)
(* (loop.zig runCycleWithSource, runTimed; context.zig discardCascade)     *)
(***************************************************************************)
RunsLeaveNothing ==
    pc \in {"idle", "stopped"} =>
        queue = <<>> /\ outputs = <<>> /\ undo = <<>> /\ claims = {}

(***************************************************************************)
(* No lost wake-up: when a cascade is about to be checkpointed and its     *)
(* trigger acknowledged, every rule that watches the trigger or a fact the *)
(* cascade wrote has started, on that entity, after the last such write.   *)
(* (loop.zig runTimed 199-216)                                             *)
(***************************************************************************)
NoLostWakeup ==
    pc = "flush" =>
      /\ \A i \in DOMAIN outputs : \A r \in ToSet(Watchers[outputs[i].key]) :
             ran[<<r, EntityOf[outputs[i].key]>>] >= outputs[i].ts
      /\ \A i \in DOMAIN pending : pending[i].id = trigger =>
             \A r \in ToSet(Watchers[pending[i].key]) :
                 ran[<<r, EntityOf[pending[i].key]>>] > 0

(* Fairness.  The session's coroutine keeps running, and a rule that is    *)
(* executing ends: it is guest code with a bounded number of calls.  The   *)
(* error exit is stated by what it does to pc, which no other step does.   *)
CheckStops == pc = "check" /\ RunFailed /\ pc' = "stopped"
FairSpec == Spec /\ WF_vars(Begin \/ RunStep) /\ WF_pc(CheckStops)

(***************************************************************************)
(* Accepted work is not forgotten: every pending entry is acknowledged, or *)
(* the session ends with an error.  In particular a cascade whose rules    *)
(* wake each other for ever is cut off.  (loop.zig max_depth, events.zig   *)
(* step and runForever)                                                    *)
(***************************************************************************)
WorkDrains ==
    \A id \in 1..MaxIngest :
        (\E i \in DOMAIN pending : pending[i].id = id)
          ~> \/ ~\E i \in DOMAIN pending : pending[i].id = id
             \/ pc = "stopped"
=============================================================================
