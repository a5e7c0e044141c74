------------------------------- MODULE Heartbeat -------------------------------
(***************************************************************************)
(* The heartbeat task (heartbeat/mod.rs) and what it publishes: the report *)
(* behind GET /health and the status of the gRPC health service            *)
(* (health/mod.rs).  The engine and Qdrant go down and come back while a   *)
(* round is under way.  The eviction of sessions is in RequestPath.        *)
(***************************************************************************)

CONSTANT MemoryConnects  \* outcomes init_memory may have at start

ASSUME MemoryAssumption == MemoryConnects \subseteq BOOLEAN /\ MemoryConnects # {}

VARIABLES
  engine,    \* whether the cognition engine answers
  qdrant,    \* whether Qdrant answers
  memory,    \* whether there is a memory store
  round,        \* the await of the round
  ce_status, \* locals of run
  qdrant_status,
  health,    \* HealthState
  reporter   \* the status of the gRPC service that the heartbeat sets

world == <<engine, qdrant>>
locals == <<ce_status, qdrant_status>>
healthVars == <<world, memory, round, locals, health, reporter>>

Statuses == {"ok", "degraded", "down"}
Checked == {"ok", "down"}

HealthTypeOK ==
  /\ engine \in BOOLEAN /\ qdrant \in BOOLEAN /\ memory \in BOOLEAN
  /\ round \in {"sleep", "check_ce", "check_qdrant", "cleanup", "report"}
  /\ ce_status \in Checked /\ qdrant_status \in Checked
  /\ health \in [status : Statuses, cognition_engine : Checked, qdrant : Checked]
  /\ reporter \in {"unknown", "serving", "not_serving"}

\* main: the engine answered when its client connected; HealthState::new says
\* that all is well, and the reporter knows no such service yet.
HealthInit ==
  /\ engine = TRUE /\ qdrant \in BOOLEAN
  /\ memory \in MemoryConnects
  /\ round = "sleep"
  /\ ce_status = "ok" /\ qdrant_status = "ok"
  /\ health = [status |-> "ok", cognition_engine |-> "ok", qdrant |-> "ok"]
  /\ reporter = "unknown"

\* What a check of a service that is up, or is not, finds.
Check(up) == IF up THEN "ok" ELSE "down"

Aggregate(ce, q) ==
  IF ce = "down" THEN "down" ELSE IF q = "down" THEN "degraded" ELSE "ok"

-----------------------------------------------------------------------------
(* A round.                                                                *)

WakesUp ==
  /\ round = "sleep"
  /\ round' = "check_ce"
  /\ UNCHANGED <<world, memory, locals, health, reporter>>

ChecksEngine ==
  /\ round = "check_ce"
  /\ ce_status' = Check(engine)
  /\ round' = "check_qdrant"
  /\ UNCHANGED <<world, memory, qdrant_status, health, reporter>>

\* Without a memory store Qdrant counts as down.
ChecksQdrant ==
  /\ round = "check_qdrant"
  /\ qdrant_status' = Check(memory /\ qdrant)
  /\ round' = "cleanup"
  /\ UNCHANGED <<world, memory, ce_status, health, reporter>>

\* Fault: one report is kept when only a subsystem has changed.
UpdatesStatusOnly ==
  /\ round = "cleanup"
  /\ health' = [health EXCEPT !.status = Aggregate(ce_status, qdrant_status)]
  /\ round' = "report"
  /\ UNCHANGED <<world, memory, locals, reporter>>

\* Sessions have been cleaned up; the report is replaced.
Updates ==
  /\ round = "cleanup"
  /\ health' = [status |-> Aggregate(ce_status, qdrant_status),
                cognition_engine |-> ce_status, qdrant |-> qdrant_status]
  /\ round' = "report"
  /\ UNCHANGED <<world, memory, locals, reporter>>

\* Fault: the reporter is not told again that the orchestrator serves.
PublishesOutages ==
  /\ round = "report"
  /\ reporter' =
       IF Aggregate(ce_status, qdrant_status) = "down" THEN "not_serving"
       ELSE IF reporter = "unknown" THEN "serving" ELSE reporter
  /\ round' = "sleep"
  /\ UNCHANGED <<world, memory, locals, health>>

Publishes ==
  /\ round = "report"
  /\ reporter' =
       IF Aggregate(ce_status, qdrant_status) = "down" THEN "not_serving" ELSE "serving"
  /\ round' = "sleep"
  /\ UNCHANGED <<world, memory, locals, health>>

Run == WakesUp \/ ChecksEngine \/ ChecksQdrant \/ Updates \/ Publishes

Changes ==
  /\ \/ engine' = ~engine /\ UNCHANGED qdrant
     \/ qdrant' = ~qdrant /\ UNCHANGED engine
  /\ UNCHANGED <<memory, round, locals, health, reporter>>

HealthNext == Run \/ Changes

\* The interval passes, and both checks have timeouts: a round, of which there is
\* always a next step, goes on.
HealthFairness == []<><<Run>>_healthVars

HealthSpec == HealthInit /\ [][HealthNext]_healthVars /\ HealthFairness

-----------------------------------------------------------------------------
(* Properties.                                                             *)

\* GET /health: 503 or 200.
Unavailable == health.status = "down"

\* The report agrees with its own parts, and GET /health with the gRPC service,
\* except between the update of the one and of the other (heartbeat/mod.rs:90).
\* (With the types of all variables.)
ReportsAgree ==
  /\ HealthTypeOK
  /\ health.status = Aggregate(health.cognition_engine, health.qdrant)
  /\ round # "report" => (Unavailable <=> reporter = "not_serving")

\* What the world is, and what is told of it when it is that.
WorldIs(ce, q) == engine = ce /\ (memory /\ qdrant) = q
Told(ce, q) ==
  /\ Unavailable <=> ~ce
  /\ health.status = "ok" <=> ce /\ q
  /\ reporter = IF ce THEN "serving" ELSE "not_serving"

\* A state of the world that lasts is reported in the end, by both, and stays
\* reported: an outage, a degradation and a recovery, whatever went before.
WorldIsReported == \A ce, q \in BOOLEAN : <>[]WorldIs(ce, q) => <>[]Told(ce, q)
=============================================================================
