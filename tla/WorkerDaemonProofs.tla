------------------------- MODULE WorkerDaemonProofs -------------------------
(***************************************************************************)
(* What a Worker daemon may rely on, for any number of Jobs, Workers,      *)
(* attempts and delayed requests.                                          *)
(*                                                                         *)
(* The argument is about what is still under way.  A call is in flight     *)
(* only in the phases that wait for it (Shape); a request the daemon gave  *)
(* up on names a lease the daemon has left or still holds, never one it    *)
(* is about to be given (Fresh); and a lease that a heartbeat renewed at   *)
(* hbStart cannot be swept before the deadline counted from hbStart        *)
(* (Safe).                                                                 *)
(***************************************************************************)
EXTENDS WorkerDaemon, ControlPlaneProofs

\* The prover of a step that names no other.
USE ZenonT(40)

-----------------------------------------------------------------------------
(* The daemon of WorkerDaemon: its locals, and what a step of its own tasks    *)
(* carries over.  No such step touches the Control Plane.                      *)

Phases == {"idle", "claiming", "executing", "finalizing", "reconciling", "stopping", "forcing",
           "reporting", "fatal", "stopped"}
Kinds == {"none", "run-cancelled", "lease-lost", "daemon-shutdown", "heartbeat-unavailable"}
Errors == {"none", "run-cancelled", "lease-lost", "deadline", "shutdown", "quiescence"} \cup Faults
Cleanups == {"none", "drained", "incomplete"}

(* The leases this daemon was given. *)
Mine == {g \in grants : g.worker = Daemon}

CycleRecord == [phase : Phases, grant : Grant \cup {NoGrant}, deadline : Nat, renewed : BOOLEAN,
                action : Actions \cup {"none"}, hb : {"none", "sent", "asleep"}, hbStart : Nat,
                tries : Nat, kind : Kinds, error : Errors, exec : BOOLEAN, cleanup : Cleanups]

CallRecord == [st : {"none", "request", "reply"}, verdict : Verdicts, window : Nat,
               grant : Grant \cup {NoGrant}]

RequestRecord == [op : Channels, grant : Grant \cup {NoGrant}, action : Actions \cup {"none"},
                  cleanup : Cleanups]

ReportRecord == [token : Nat, cleanup : Cleanups]

DaemonTypeOK ==
  /\ d \in CycleRecord
  /\ wire \in [Channels -> CallRecord]
  /\ late \subseteq RequestRecord
  /\ observed \in [JobIds -> ReportRecord]

(* The phases that wait for a call. *)
WaitsFor(c) == CASE c = "claim" -> {"claiming"}
                 [] c = "heartbeat" -> {"executing", "finalizing"}
                 [] c = "finalize" -> {"finalizing", "reconciling"}
                 [] c = "report" -> {"reporting"}

HasLease == {"executing", "finalizing", "reconciling", "stopping", "forcing", "reporting"}

(* Which locals a phase has. *)
Locals ==
  /\ d.phase \in {"idle", "claiming"} => d.grant = NoGrant /\ ~d.exec
  /\ d.phase \in HasLease => d.grant \in Mine
  /\ d.phase \in {"executing", "stopping", "forcing"} => d.exec
  /\ d.phase \in {"finalizing", "reconciling"} => ~d.exec /\ d.action \in Actions
  /\ d.phase \in {"executing", "finalizing", "reconciling"} => d.kind = "none"
  /\ d.phase = "reporting" /\ d.exec => d.error = "quiescence" /\ d.cleanup = "incomplete"
  /\ d.exec => d.grant \in Mine

(* Which calls it may have in flight. *)
Shape ==
  /\ Locals
  /\ \A c \in Channels : wire[c].st # "none" => d.phase \in WaitsFor(c)
  /\ \A c \in Channels : wire[c].st = "request" => wire[c].verdict = "none"

(* Which calls are in flight, by channel. *)
LEMMA Waits ==
  /\ WaitsFor("claim") = {"claiming"} /\ WaitsFor("heartbeat") = {"executing", "finalizing"}
  /\ WaitsFor("finalize") = {"finalizing", "reconciling"} /\ WaitsFor("report") = {"reporting"}
BY DEF WaitsFor

(* A step of the daemon's own tasks. *)

Request(c) == [op |-> c, grant |-> d.grant, action |-> d.action, cleanup |-> d.cleanup]

(* Every request that is given up was under way. *)
Forgets ==
  /\ late' \subseteq RequestRecord
  /\ \A m \in late' : m \in late \/ \E c \in Channels : wire[c].st = "request" /\ m = Request(c)

(* A deadline is kept, or comes with the answer to a heartbeat. *)
KeepsDeadline ==
  d'.renewed =>
    \/ d.renewed /\ d'.deadline = d.deadline
    \/ /\ wire["heartbeat"].st = "reply" /\ wire["heartbeat"].verdict = "ok"
       /\ d'.deadline = d.hbStart + Least(wire["heartbeat"].window, DaemonLease)

Counts ==
  \/ handled' = handled
  \/ /\ wire["finalize"].st = "reply" /\ wire["finalize"].verdict = "ok"
     /\ handled' = [grant |-> d.grant, action |-> d.action]

(* No step but StartClaim gives the daemon a lease, and no step starts an     *)
(* execution again.                                                           *)
Carries ==
  /\ DaemonTypeOK' /\ Shape' /\ Forgets /\ Counts
  /\ \A c \in Channels : wire'[c].st = "reply" => wire'[c] = wire[c]
  /\ d'.exec => d.exec /\ d'.grant = d.grant
  /\ d'.phase = "executing" => d.phase = "executing" /\ d'.grant = d.grant /\ KeepsDeadline
  /\ wire'["heartbeat"].st = "request" =>
       d'.hbStart = now \/ (d'.hbStart = d.hbStart /\ wire["heartbeat"].st = "request")
  /\ d'.phase = "executing" /\ wire'["heartbeat"].st = "reply" => d'.hbStart = d.hbStart
  /\ wire'["finalize"].st = "reply" => d'.grant = d.grant /\ d'.action = d.action

(* The locals between two cycles. *)
LEMMA RestingRecord ==
  /\ Resting \in CycleRecord
  /\ Resting.phase = "idle" /\ Resting.grant = NoGrant /\ ~Resting.exec /\ Resting.cleanup = "none"
  /\ Resting.kind = "none" /\ Resting.action = "none"
BY DEF Resting, CycleRecord, Phases, Kinds, Errors, Cleanups

(* A channel with no call, and one with a call just sent. *)
LEMMA SilentRecord ==
  /\ Silent \in CallRecord /\ Asked \in CallRecord
  /\ Silent.st = "none" /\ Asked.st = "request" /\ Asked.verdict = "none"
<1>1. Silent \in CallRecord /\ Silent.st = "none" /\ Silent.verdict = "none"
  BY DEF Silent, CallRecord, Verdicts
<1> QED BY <1>1 DEF Asked, CallRecord

Rested(c, phase) ==
  /\ d' \in CycleRecord /\ d'.phase = phase /\ d'.exec = c.exec
  /\ c.exec => d'.grant = c.grant
  /\ ~c.exec => d'.grant = NoGrant

(* What a step that gives up the calls of C, or sends one, does to the wire. *)
GivenUp(C) ==
  /\ wire' \in [Channels -> CallRecord] /\ Forgets
  /\ \A x \in C : wire'[x].st = "none"
  /\ \A x \in Channels \ C : wire'[x] = wire[x]

Sent(c) ==
  /\ wire' \in [Channels -> CallRecord]
  /\ wire'[c].st = "request" /\ wire'[c].verdict = "none"
  /\ \A x \in Channels \ {c} : wire'[x] = wire[x]

(* Every step of the daemon's own tasks starts a claim or carries its cycle *)
(* on.                                                                      *)
LEMMA DaemonStepCarries ==
  ASSUME TypeOK, DaemonTypeOK, Shape, DaemonStep
  PROVE  Carries \/ StartClaim
<1>ForgetDoes.
  ASSUME DaemonTypeOK, NEW C, C \subseteq Channels, Forget(C)
  PROVE  Forgets
  <2> USE <1>ForgetDoes
  <2>1. ASSUME NEW c \in Channels PROVE Request(c) \in RequestRecord
    BY <2>1 DEF DaemonTypeOK, Request, CycleRecord, RequestRecord
  <2>2. ASSUME NEW m \in late'
        PROVE  m \in late \/ \E c \in Channels : wire[c].st = "request" /\ m = Request(c)
    BY <2>2 DEF Forget, Request
  <2> QED BY <2>1, <2>2 DEF Forgets, DaemonTypeOK

<1>StandingForgets.
  ASSUME DaemonTypeOK, late' = late
  PROVE  Forgets
  BY <1>StandingForgets DEF Forgets, DaemonTypeOK

<1>RestRecord.
  ASSUME NEW c \in CycleRecord, NEW phase \in Phases, d' = Rest(c, phase)
  PROVE  Rested(c, phase)
  <2> USE <1>RestRecord
  <2>1. /\ c.exec \in BOOLEAN /\ (IF c.exec THEN c.grant ELSE NoGrant) \in Grant \cup {NoGrant}
    BY DEF CycleRecord
  <2>2. /\ d' \in CycleRecord /\ d'.phase = phase /\ d'.exec = c.exec
        /\ d'.grant = IF c.exec THEN c.grant ELSE NoGrant
    BY <2>1, RestingRecord DEF CycleRecord, Rest
  <2> QED BY <2>2 DEF Rested

(* The end of a cycle: an executor that was not drained is reported as such. *)
<1>EndsWithCarries.
  ASSUME DaemonTypeOK, UNCHANGED vars, observed' = observed, Counts,
         NEW c \in CycleRecord, NEW error \in Errors, EndsWith(c, error),
         d.grant \in Mine, c.grant = d.grant,
         c.exec => d.exec /\ c.cleanup = "incomplete" /\ error = "quiescence"
  PROVE  Carries
  <2> USE <1>EndsWithCarries
  <2> DEFINE report == [Resting EXCEPT !.phase = "reporting", !.error = error, !.kind = c.kind,
                              !.grant = c.grant, !.exec = c.exec,
                              !.cleanup = IF c.cleanup = "none" THEN "drained" ELSE c.cleanup]
  <2>0. /\ c.exec \in BOOLEAN /\ c.kind \in Kinds /\ c.grant \in Grant \cup {NoGrant}
        /\ (IF c.cleanup = "none" THEN "drained" ELSE c.cleanup) \in Cleanups
    BY DEF CycleRecord, Cleanups
  <2>1. /\ report \in CycleRecord /\ report.phase = "reporting" /\ report.grant = c.grant
        /\ report.exec = c.exec /\ report.error = error
        /\ c.cleanup = "incomplete" => report.cleanup = "incomplete"
    <3> DEFINE cleanup == IF c.cleanup = "none" THEN "drained" ELSE c.cleanup
    <3>1. cleanup \in Cleanups /\ (c.cleanup = "incomplete" => cleanup = "incomplete") BY <2>0
    <3> HIDE DEF cleanup
    <3>2. report = [Resting EXCEPT !.phase = "reporting", !.error = error, !.kind = c.kind,
                                   !.grant = c.grant, !.exec = c.exec, !.cleanup = cleanup]
      BY DEF cleanup
    <3> HIDE DEF report
    <3> QED BY <2>0, <3>1, <3>2, RestingRecord DEF CycleRecord, Phases
  <2>2. After(error) \in {"fatal", "stopped", "idle"} /\ After(error) \in Phases
        /\ (error = "quiescence" => After(error) = "fatal")
    BY DEF After, Phases
  <2>3. d' = Rest(c, After(error)) => Rested(c, After(error)) BY <2>2, <1>RestRecord
  <2> HIDE DEF report
  <2>4. d' = report \/ d' = Rest(c, After(error)) BY DEF EndsWith, report
  <2>5. /\ d' \in CycleRecord /\ d'.exec = c.exec
        /\ d'.phase = "reporting" \/ d'.phase \in {"fatal", "stopped", "idle"}
        /\ d'.phase = "reporting" => d'.grant \in Mine /\ (d'.exec => d'.error = "quiescence" /\ d'.cleanup = "incomplete")
        /\ d'.exec => d'.grant = d.grant /\ d'.phase # "idle"
        /\ ~d'.exec /\ d'.phase # "reporting" => d'.grant = NoGrant
    <3>1. CASE d' = report BY <2>1, <3>1
    <3>2. CASE d' = Rest(c, After(error)) BY <2>2, <2>3, <3>2 DEF Rested
    <3> QED BY <2>4, <3>1, <3>2
  <2>6. /\ wire' \in [Channels -> CallRecord]
        /\ \A x \in Channels : /\ wire'[x].st # "reply"
                               /\ wire'[x].st = "request" => x = "report" /\ d'.phase = "reporting"
                                                             /\ wire'[x].verdict = "none"
    <3>1. CASE c.kind = "run-cancelled"
      <4>1. d'.phase = "reporting" BY <2>1, <3>1 DEF EndsWith, report
      <4>2. wire' = [x \in Channels |-> IF x = "report" THEN Asked ELSE Silent] BY <3>1 DEF EndsWith
      <4> QED BY <4>1, <4>2, SilentRecord
    <3>2. CASE c.kind # "run-cancelled"
      <4>1. wire' = [x \in Channels |-> Silent] BY <3>2 DEF EndsWith
      <4> QED BY <4>1, SilentRecord
    <3> QED BY <3>1, <3>2
  <2>7. Forgets BY <1>ForgetDoes DEF EndsWith
  <2>8. DaemonTypeOK' BY <2>5, <2>6, <2>7 DEF DaemonTypeOK, Forgets
  <2>9. Mine' = Mine BY DEF Mine, vars
  <2>10. \A x \in Channels : wire'[x].st \in {"none", "request", "reply"} BY <2>6 DEF CallRecord
  <2>11. Shape' BY <2>5, <2>6, <2>9, <2>10, Waits DEF Shape, Locals, HasLease
  <2>12. {"heartbeat", "finalize"} \subseteq Channels BY DEF Channels
  <2> QED BY <2>5, <2>6, <2>7, <2>8, <2>11, <2>12 DEF Carries

(* A drain that fails ends the cycle as an executor that would not stop does. *)
<1>EndCycleCarries.
  ASSUME DaemonTypeOK, UNCHANGED vars, observed' = observed, Counts,
         NEW c \in CycleRecord, NEW error \in Errors, EndCycle(c, error),
         d.grant \in Mine, c.grant = d.grant,
         c.exec => d.exec /\ c.cleanup = "incomplete" /\ error = "quiescence"
  PROVE  Carries
  <2> USE <1>EndCycleCarries
  <2>1. PICK e \in {error, "quiescence"} : EndsWith(c, e) BY DEF EndCycle, DrainFailures
  <2>2. e \in Errors BY DEF Errors
  <2> QED BY <2>1, <2>2, <1>EndsWithCarries

<1>AbandonDoes.
  ASSUME DaemonTypeOK, NEW C, C \subseteq Channels, Abandon(C)
  PROVE  GivenUp(C)
  <2> USE <1>AbandonDoes
  <2>1. wire' = [x \in Channels |-> IF x \in C THEN Silent ELSE wire[x]] /\ Forget(C)
    BY DEF Abandon
  <2>2. wire \in [Channels -> CallRecord] BY DEF DaemonTypeOK
  <2>3. wire' \in [Channels -> CallRecord] BY <2>1, <2>2, SilentRecord
  <2> QED BY <2>1, <2>3, SilentRecord, <1>ForgetDoes DEF GivenUp

<1>SendDoes.
  ASSUME DaemonTypeOK, NEW c \in Channels, Send(c)
  PROVE  Sent(c)
  BY <1>SendDoes, SilentRecord DEF Send, DaemonTypeOK, Sent

(* A step that leaves calls alone, gives them up or sends one. *)
<1>CarriesOn.
  ASSUME DaemonTypeOK, Shape, UNCHANGED vars, observed' = observed, handled' = handled,
         Forgets, d' \in CycleRecord, wire' \in [Channels -> CallRecord], Locals',
         \A c \in Channels :
           \/ wire'[c].st = "none"
           \/ /\ d'.phase \in WaitsFor(c)
              /\ wire'[c] = wire[c] \/ (wire'[c].st = "request" /\ wire'[c].verdict = "none"),
         d'.exec => d.exec /\ d'.grant = d.grant,
         d'.phase = "executing" => d.phase = "executing" /\ d'.grant = d.grant /\ KeepsDeadline,
         \/ wire'["heartbeat"].st = "none"
         \/ wire'["heartbeat"] = wire["heartbeat"] /\ d'.hbStart = d.hbStart
         \/ wire'["heartbeat"].st = "request" /\ d'.hbStart = now,
         wire'["finalize"].st = "reply" => d'.grant = d.grant /\ d'.action = d.action
  PROVE  Carries
  <2> USE <1>CarriesOn
  <2>1. DaemonTypeOK' BY DEF DaemonTypeOK, Forgets
  <2>2. ASSUME NEW c \in Channels, wire'[c].st = "request" PROVE wire'[c].verdict = "none"
    BY <2>2 DEF Shape
  <2>3. Shape' BY <2>2 DEF Shape
  <2>4. {"heartbeat", "finalize"} \subseteq Channels BY DEF Channels
  <2>5. Counts BY DEF Counts
  <2>6. \A c \in Channels : wire'[c].st = "reply" => wire'[c] = wire[c] OBVIOUS
  <2> QED BY <2>1, <2>3, <2>4, <2>5, <2>6 DEF Carries

(* The fields a step does not write. *)
<1>AskClaimCarries.
  ASSUME DaemonTypeOK, Shape, AskClaim
  PROVE  Carries
  <2> USE <1>AskClaimCarries
  <2>1. /\ d.phase = "idle" /\ d' = [d EXCEPT !.phase = "claiming"] /\ Send("claim")
        /\ UNCHANGED vars /\ observed' = observed /\ handled' = handled /\ late' = late
    BY DEF AskClaim
  <2>2. d \in CycleRecord BY DEF DaemonTypeOK
  <2>3. /\ d' \in CycleRecord /\ d'.phase = "claiming" /\ d'.grant = d.grant /\ d'.exec = d.exec
    BY <2>1, <2>2 DEF CycleRecord, Phases
  <2>4. /\ "claim" \in Channels /\ d.grant = NoGrant /\ ~d.exec
        /\ \A c \in Channels : wire[c].st = "none"
    BY <2>1, Waits DEF Shape, Locals, Channels
  <2>5. /\ wire' \in [Channels -> CallRecord]
        /\ wire'["claim"].st = "request" /\ wire'["claim"].verdict = "none"
        /\ \A x \in Channels \ {"claim"} : wire'[x].st = "none"
    <3>1. Sent("claim") BY <2>1, <2>4, <1>SendDoes
    <3> QED BY <2>4, <3>1 DEF Sent
  <2>6. Locals' BY <2>3, <2>4 DEF Locals, HasLease
  <2>7. wire'["heartbeat"].st = "none" /\ wire'["finalize"].st = "none" /\ "claiming" \in WaitsFor("claim")
    BY <2>5, Waits DEF Channels
  <2> QED BY <2>1, <2>3, <2>4, <2>5, <2>6, <2>7, <1>StandingForgets, <1>CarriesOn

<1>ClaimFailsCarries.
  ASSUME DaemonTypeOK, Shape, NEW fault \in Faults, ClaimFails(fault)
  PROVE  Carries
  <2> USE <1>ClaimFailsCarries
  <2>1. /\ d.phase = "claiming" /\ d' = Rest(d, After(fault)) /\ Abandon({"claim"})
        /\ UNCHANGED vars /\ observed' = observed /\ handled' = handled
    BY DEF ClaimFails
  <2>2. d \in CycleRecord /\ After(fault) \in {"fatal", "idle"} /\ After(fault) \in Phases
    BY DEF DaemonTypeOK, Faults, After, Phases
  <2>3. ~d.exec /\ \A c \in Channels \ {"claim"} : wire[c].st = "none"
    BY <2>1, Waits DEF Shape, Locals, Channels
  <2>4. d' \in CycleRecord /\ d'.phase \in {"fatal", "idle"} /\ ~d'.exec /\ d'.grant = NoGrant
    <3>1. Rested(d, After(fault)) BY <2>1, <2>2, <1>RestRecord
    <3> QED BY <2>2, <2>3, <3>1 DEF Rested
  <2>5. wire' \in [Channels -> CallRecord] /\ Forgets /\ \A c \in Channels : wire'[c].st = "none"
    <3>1. GivenUp({"claim"}) BY <2>1, <1>AbandonDoes DEF Channels
    <3> QED BY <2>3, <3>1 DEF GivenUp
  <2>6. Locals' BY <2>4 DEF Locals, HasLease
  <2>7. wire'["heartbeat"].st = "none" /\ wire'["finalize"].st = "none" BY <2>5 DEF Channels
  <2> QED BY <2>1, <2>4, <2>5, <2>6, <2>7, <1>CarriesOn

<1>KindOfError. \A error : KindOf(error) \in Kinds
  BY DEF KindOf, Kinds

<1>HeartbeatEndsCarries.
  ASSUME DaemonTypeOK, Shape, UNCHANGED vars, observed' = observed, handled' = handled,
         NEW error \in Errors, HeartbeatEnds(error)
  PROVE  Carries
  <2> USE <1>HeartbeatEndsCarries
  <2>0. d \in CycleRecord /\ Mine' = Mine BY DEF DaemonTypeOK, Mine, vars
  <2>1. ASSUME d.phase = "executing", Abandon({"heartbeat"}),
               NEW phase \in {"forcing", "stopping"},
               d' = [Resting EXCEPT !.kind = KindOf(error), !.error = error, !.exec = TRUE,
                                    !.grant = d.grant, !.phase = phase]
        PROVE  Carries
    <3>1. d.exec /\ d.grant \in Mine /\ d.grant \in Grant \cup {NoGrant}
      BY <2>0, <2>1 DEF Shape, Locals, HasLease, CycleRecord
    <3>2. \A c \in Channels \ {"heartbeat"} : wire[c].st = "none"
      BY <2>1, Waits DEF Shape, Channels
    <3>3. GivenUp({"heartbeat"}) BY <2>1, <1>AbandonDoes DEF Channels
    <3>4. wire' \in [Channels -> CallRecord] /\ Forgets /\ \A c \in Channels : wire'[c].st = "none"
      BY <3>2, <3>3 DEF GivenUp
    <3>5. phase \in Phases BY DEF Phases
    <3>6. /\ d' \in CycleRecord /\ d'.phase = phase /\ d'.grant = d.grant /\ d'.exec
      BY <2>1, <3>1, <3>5, <1>KindOfError, RestingRecord DEF CycleRecord
    <3>7. Locals' BY <2>0, <3>1, <3>6 DEF Locals, HasLease
    <3>8. wire'["heartbeat"].st = "none" /\ wire'["finalize"].st = "none" BY <3>4 DEF Channels
    <3>9. d'.phase # "executing" BY <3>6
    <3> QED BY <3>1, <3>4, <3>6, <3>7, <3>8, <3>9, <1>CarriesOn
  <2>2. ASSUME d.phase = "finalizing", EndCycle([d EXCEPT !.kind = "lease-lost"], error) PROVE Carries
    <3> DEFINE c == [d EXCEPT !.kind = "lease-lost"]
    <3>1. d.grant \in Mine /\ ~d.exec BY <2>2 DEF Shape, Locals, HasLease
    <3>2. c \in CycleRecord /\ c.grant = d.grant /\ c.exec = d.exec BY <2>0 DEF CycleRecord, Kinds
    <3>3. EndCycle(c, error) /\ Counts BY <2>2 DEF Counts
    <3> HIDE DEF c
    <3> QED BY <3>1, <3>2, <3>3, <1>EndCycleCarries
  <2>3. ASSUME d.phase = "finalizing", Abandon({"heartbeat"}),
               d' = [d EXCEPT !.phase = "reconciling", !.hb = "none", !.hbStart = 0, !.error = error]
        PROVE  Carries
    <3>1. d.grant \in Mine /\ ~d.exec /\ d.action \in Actions /\ d.kind = "none"
      BY <2>3 DEF Shape, Locals, HasLease
    <3>2. /\ d' \in CycleRecord /\ d'.phase = "reconciling" /\ d'.grant = d.grant /\ d'.exec = d.exec
          /\ d'.action = d.action /\ d'.kind = d.kind
      BY <2>0, <2>3 DEF CycleRecord, Phases
    <3>3. GivenUp({"heartbeat"}) BY <2>3, <1>AbandonDoes DEF Channels
    <3>4. wire["claim"].st = "none" /\ wire["report"].st = "none"
      BY <2>3, Waits DEF Shape, Channels
    <3>5. /\ wire' \in [Channels -> CallRecord] /\ Forgets /\ wire'["finalize"] = wire["finalize"]
          /\ \A c \in Channels \ {"finalize"} : wire'[c].st = "none"
      BY <3>3, <3>4 DEF GivenUp, Channels
    <3>6. Locals' BY <2>0, <3>1, <3>2 DEF Locals, HasLease
    <3>7. wire'["heartbeat"].st = "none" /\ "reconciling" \in WaitsFor("finalize")
      BY <3>5, Waits DEF Channels
    <3>8. ~d'.exec /\ d'.phase # "executing" BY <3>1, <3>2
    <3> QED BY <3>2, <3>5, <3>6, <3>7, <3>8, <1>CarriesOn
  <2>4. CASE d.phase = "executing"
    <3>1. PICK phase \in {"forcing", "stopping"} :
            d' = [Resting EXCEPT !.kind = KindOf(error), !.error = error, !.exec = TRUE,
                                 !.grant = d.grant, !.phase = phase]
      BY <2>4 DEF HeartbeatEnds
    <3>2. Abandon({"heartbeat"}) BY <2>4 DEF HeartbeatEnds
    <3> QED BY <2>1, <2>4, <3>1, <3>2
  <2> QED BY <2>2, <2>3, <2>4 DEF HeartbeatEnds

<1>NextHeartbeatCarries.
  ASSUME DaemonTypeOK, Shape, TypeOK, NextHeartbeat
  PROVE  Carries
  <2> USE <1>NextHeartbeatCarries
  <2>0. d \in CycleRecord /\ Mine' = Mine /\ now \in Nat
    BY DEF NextHeartbeat, DaemonTypeOK, Mine, vars, TypeOK
  <2>1. /\ d.phase \in {"executing", "finalizing"}
        /\ UNCHANGED vars /\ observed' = observed /\ handled' = handled
    BY DEF NextHeartbeat
  <2>2. CASE HeartbeatEnds("deadline")
    BY <2>1, <2>2, <1>HeartbeatEndsCarries DEF Errors
  <2>3. ASSUME d' = [d EXCEPT !.hb = "sent", !.hbStart = now], Send("heartbeat"), late' = late
        PROVE  Carries
    <3>1. /\ d' \in CycleRecord /\ d'.phase = d.phase /\ d'.grant = d.grant /\ d'.exec = d.exec
          /\ d'.action = d.action /\ d'.kind = d.kind /\ d'.hbStart = now
          /\ d'.renewed = d.renewed /\ d'.deadline = d.deadline /\ d'.error = d.error
          /\ d'.cleanup = d.cleanup
      BY <2>0, <2>3 DEF CycleRecord
    <3>2. Sent("heartbeat") BY <2>3, <1>SendDoes DEF Channels
    <3>3. Locals' BY <2>0, <3>1 DEF Shape, Locals
    <3>4. KeepsDeadline /\ Forgets BY <2>3, <3>1, <1>StandingForgets DEF KeepsDeadline
    <3>5. /\ wire' \in [Channels -> CallRecord] /\ wire'["heartbeat"].st = "request"
          /\ wire'["heartbeat"].verdict = "none" /\ wire'["finalize"] = wire["finalize"]
          /\ \A x \in Channels \ {"heartbeat"} : wire'[x] = wire[x]
      BY <3>2 DEF Sent, Channels
    <3>6. ASSUME NEW c \in Channels
          PROVE  \/ wire'[c].st = "none"
                 \/ /\ d'.phase \in WaitsFor(c)
                    /\ wire'[c] = wire[c] \/ (wire'[c].st = "request" /\ wire'[c].verdict = "none")
      <4>1. CASE c = "heartbeat" BY <2>1, <3>1, <3>5, <4>1, Waits
      <4>2. CASE c # "heartbeat" BY <3>1, <3>5, <4>2 DEF Shape
      <4> QED BY <4>1, <4>2
    <3> QED BY <2>1, <3>1, <3>3, <3>4, <3>5, <3>6, <1>CarriesOn
  <2> QED BY <2>2, <2>3 DEF NextHeartbeat

<1>HeartbeatAnsweredCarries.
  ASSUME DaemonTypeOK, Shape, HeartbeatAnswered
  PROVE  Carries
  <2> USE <1>HeartbeatAnsweredCarries
  <2> DEFINE m == wire["heartbeat"]
             deadline == RenewedDeadline(d.hbStart, m.window)
  <2>0. d \in CycleRecord /\ Mine' = Mine /\ m \in CallRecord /\ DaemonLease \in Nat
    BY WorkerDaemonAssumption, ControlPlaneAssumption
       DEF HeartbeatAnswered, DaemonTypeOK, Mine, vars, Channels
  <2>1. /\ d.phase \in {"executing", "finalizing"} /\ m.st = "reply"
        /\ UNCHANGED vars /\ observed' = observed /\ handled' = handled
    BY DEF HeartbeatAnswered
  <2>2. ASSUME NEW error \in Errors, HeartbeatEnds(error) PROVE Carries
    BY <2>1, <2>2, <1>HeartbeatEndsCarries
  <2>3. m.verdict \in Errors \cup {"ok"} /\ "deadline" \in Errors
    BY <2>0 DEF CallRecord, Verdicts, Errors
  <2>4. deadline \in Nat /\ deadline = d.hbStart + Least(m.window, DaemonLease)
    <3>1. d.hbStart \in Nat /\ m.window \in Nat BY <2>0 DEF CycleRecord, CallRecord
    <3> QED BY <2>0, <3>1, SMT DEF RenewedDeadline, Least
  <2>5. ASSUME m.verdict = "ok", Abandon({"heartbeat"}), NEW n \in Nat, n = deadline,
               d' = [d EXCEPT !.deadline = n, !.renewed = TRUE, !.hb = "asleep", !.hbStart = 0]
        PROVE  Carries
    <3>1. /\ d' \in CycleRecord /\ d'.phase = d.phase /\ d'.grant = d.grant /\ d'.exec = d.exec
          /\ d'.action = d.action /\ d'.kind = d.kind /\ d'.error = d.error /\ d'.cleanup = d.cleanup
          /\ d'.deadline = n
      BY <2>0, <2>5 DEF CycleRecord
    <3>2. GivenUp({"heartbeat"}) BY <2>5, <1>AbandonDoes DEF Channels
    <3>3. Locals' BY <2>0, <3>1 DEF Shape, Locals
    <3>4. KeepsDeadline BY <2>1, <2>4, <2>5, <3>1 DEF KeepsDeadline
    <3>5. /\ wire' \in [Channels -> CallRecord] /\ wire'["heartbeat"].st = "none" /\ Forgets
          /\ \A x \in Channels \ {"heartbeat"} : wire'[x] = wire[x]
      BY <3>2 DEF GivenUp, Channels
    <3>6. ASSUME NEW c \in Channels
          PROVE  \/ wire'[c].st = "none"
                 \/ /\ d'.phase \in WaitsFor(c)
                    /\ wire'[c] = wire[c] \/ (wire'[c].st = "request" /\ wire'[c].verdict = "none")
      BY <3>1, <3>5 DEF Shape
    <3> QED BY <2>1, <3>1, <3>3, <3>4, <3>5, <3>6, <1>CarriesOn
  <2>6. \/ \E error \in Errors : HeartbeatEnds(error)
        \/ /\ m.verdict = "ok" /\ Abandon({"heartbeat"})
           /\ d' = [d EXCEPT !.deadline = deadline, !.renewed = TRUE, !.hb = "asleep", !.hbStart = 0]
    BY <2>3 DEF HeartbeatAnswered
  <2> HIDE DEF m, deadline
  <2> QED BY <2>2, <2>4, <2>5, <2>6

<1>HeartbeatStopsCarries.
  ASSUME DaemonTypeOK, Shape, HeartbeatTimesOut \/ \E fault \in Faults : HeartbeatFaults(fault)
  PROVE  Carries
  <2> USE <1>HeartbeatStopsCarries
  <2>1. UNCHANGED vars /\ observed' = observed /\ handled' = handled
    BY DEF HeartbeatTimesOut, HeartbeatFaults
  <2>2. \E error \in Errors : HeartbeatEnds(error)
    BY DEF HeartbeatTimesOut, HeartbeatFaults, Errors
  <2> QED BY <2>1, <2>2, <1>HeartbeatEndsCarries

<1>ExecutorReturnsCarries.
  ASSUME DaemonTypeOK, Shape, NEW action \in Actions, ExecutorReturns(action)
  PROVE  Carries
  <2> USE <1>ExecutorReturnsCarries
  <2>0. d \in CycleRecord /\ Mine' = Mine BY DEF ExecutorReturns, DaemonTypeOK, Mine, vars
  <2>1. /\ d.phase = "executing" /\ UNCHANGED vars /\ observed' = observed /\ handled' = handled
    BY DEF ExecutorReturns
  <2>2. d.grant \in Mine /\ d.kind = "none" BY <2>1 DEF Shape, Locals, HasLease
  <2> DEFINE returned == [d EXCEPT !.exec = FALSE]
  <2>3. /\ returned \in CycleRecord /\ ~returned.exec /\ returned.grant = d.grant
        /\ returned.kind = d.kind /\ returned.hbStart = d.hbStart
    BY <2>0 DEF CycleRecord
  <2> HIDE DEF returned
  <2>4. CASE EndCycle([returned EXCEPT !.kind = FirstKind(d, "lease-lost")], "deadline")
    <3> DEFINE c == [returned EXCEPT !.kind = FirstKind(d, "lease-lost")]
    <3>1. FirstKind(d, "lease-lost") \in Kinds BY <2>0 DEF FirstKind, CycleRecord, Kinds
    <3>2. c \in CycleRecord /\ c.grant = d.grant /\ ~c.exec BY <2>3, <3>1 DEF CycleRecord
    <3>3. EndCycle(c, "deadline") /\ Counts /\ "deadline" \in Errors
      BY <2>1, <2>4 DEF Counts, Errors
    <3> HIDE DEF c
    <3> QED BY <2>1, <2>2, <3>2, <3>3, <1>EndCycleCarries
  <2>5. ASSUME d' = [returned EXCEPT !.phase = "finalizing", !.action = action, !.tries = 1],
               Send("finalize"), late' = late
        PROVE  Carries
    <3>1. /\ d' \in CycleRecord /\ d'.phase = "finalizing" /\ d'.grant = d.grant /\ ~d'.exec
          /\ d'.action = action /\ d'.kind = "none" /\ d'.hbStart = d.hbStart
      <4>1. 1 \in Nat OBVIOUS
      <4> QED BY <2>2, <2>3, <2>5, <4>1 DEF CycleRecord, Phases
    <3>2. Sent("finalize") BY <2>5, <1>SendDoes DEF Channels
    <3>3. Locals' BY <2>0, <2>2, <3>1 DEF Locals, HasLease
    <3>4. Forgets BY <2>5, <1>StandingForgets
    <3>5. wire["claim"].st = "none" /\ wire["report"].st = "none" BY <2>1, Waits DEF Shape, Channels
    <3>6. /\ wire' \in [Channels -> CallRecord] /\ wire'["heartbeat"] = wire["heartbeat"]
          /\ wire'["finalize"].st = "request" /\ wire'["finalize"].verdict = "none"
          /\ wire'["claim"].st = "none" /\ wire'["report"].st = "none"
      BY <3>2, <3>5 DEF Sent, Channels
    <3>7. ASSUME NEW c \in Channels
          PROVE  \/ wire'[c].st = "none"
                 \/ /\ d'.phase \in WaitsFor(c)
                    /\ wire'[c] = wire[c] \/ (wire'[c].st = "request" /\ wire'[c].verdict = "none")
      BY <3>1, <3>6, Waits DEF Channels
    <3>8. wire'["finalize"].st # "reply" /\ d'.phase # "executing" BY <3>1, <3>6
    <3> QED BY <2>1, <3>1, <3>3, <3>4, <3>6, <3>7, <3>8, <1>CarriesOn
  <2> QED BY <2>4, <2>5 DEF ExecutorReturns, returned

<1>FinishedCarries.
  ASSUME DaemonTypeOK, Shape, d.phase \in {"finalizing", "reconciling"}, UNCHANGED vars,
         observed' = observed, Counts, NEW kind \in Kinds, NEW error \in Errors,
         EndCycle([d EXCEPT !.kind = kind], error) \/ EndCycle(d, error)
  PROVE  Carries
  <2> USE <1>FinishedCarries
  <2> DEFINE c == [d EXCEPT !.kind = kind]
  <2>1. d \in CycleRecord /\ d.grant \in Mine /\ ~d.exec
    BY DEF DaemonTypeOK, Shape, Locals, HasLease
  <2>2. c \in CycleRecord /\ c.grant = d.grant /\ ~c.exec BY <2>1 DEF CycleRecord
  <2>3. EndCycle(c, error) \/ EndCycle(d, error) OBVIOUS
  <2> HIDE DEF c
  <2>4. CASE EndCycle(c, error) BY <2>1, <2>2, <2>4, <1>EndCycleCarries
  <2>5. CASE EndCycle(d, error) BY <2>1, <2>5, <1>EndCycleCarries
  <2> QED BY <2>3, <2>4, <2>5

<1>FinalizationAnsweredCarries.
  ASSUME DaemonTypeOK, Shape, FinalizationAnswered
  PROVE  Carries
  <2> USE <1>FinalizationAnsweredCarries
  <2> DEFINE m == wire["finalize"]
             error == IF m.verdict = "ok" THEN "deadline" ELSE m.verdict
  <2>1. /\ d.phase \in {"finalizing", "reconciling"} /\ m.st = "reply"
        /\ UNCHANGED vars /\ observed' = observed
    BY DEF FinalizationAnswered
  <2>2. m.verdict \in Verdicts /\ error \in Errors /\ "none" \in Errors /\ "none" \in Kinds
    BY DEF DaemonTypeOK, Channels, CallRecord, Verdicts, Errors, Kinds
  <2>3. \/ EndCycle(d, "none") /\ Counts
        \/ EndCycle([d EXCEPT !.kind = KindOf(error)], error) /\ Counts
    BY <2>1 DEF FinalizationAnswered, FinalizationCounts, Counts
  <2> HIDE DEF m, error
  <2>4. CASE EndCycle(d, "none") /\ Counts BY <2>1, <2>2, <2>4, <1>FinishedCarries
  <2>5. CASE EndCycle([d EXCEPT !.kind = KindOf(error)], error) /\ Counts
    BY <2>1, <2>2, <2>5, <1>KindOfError, <1>FinishedCarries
  <2> QED BY <2>3, <2>4, <2>5

(* A finalization is tried again: only the finalize channel moves. *)
<1>FinalizationRepeatsCarries.
  ASSUME DaemonTypeOK, Shape, d.phase \in {"finalizing", "reconciling"}, UNCHANGED vars,
         observed' = observed, handled' = handled, Forgets,
         d' = d \/ d' = [d EXCEPT !.tries = d.tries + 1],
         wire' \in [Channels -> CallRecord],
         \A x \in Channels \ {"finalize"} : wire'[x] = wire[x],
         \/ wire'["finalize"].st = "none"
         \/ wire'["finalize"].st = "request" /\ wire'["finalize"].verdict = "none"
  PROVE  Carries
  <2> USE <1>FinalizationRepeatsCarries
  <2>0. d \in CycleRecord /\ Mine' = Mine BY DEF DaemonTypeOK, Mine, vars
  <2>1. d.tries + 1 \in Nat
    <3>1. d.tries \in Nat BY <2>0 DEF CycleRecord
    <3> QED BY <3>1, SMT
  <2>2. /\ d' \in CycleRecord /\ d'.phase = d.phase /\ d'.grant = d.grant /\ d'.exec = d.exec
        /\ d'.action = d.action /\ d'.kind = d.kind /\ d'.error = d.error /\ d'.cleanup = d.cleanup
        /\ d'.hbStart = d.hbStart
    BY <2>0, <2>1 DEF CycleRecord
  <2>3. Locals' BY <2>0, <2>2 DEF Shape, Locals
  <2>4. wire'["heartbeat"] = wire["heartbeat"] BY DEF Channels
  <2>5. ASSUME NEW c \in Channels
        PROVE  \/ wire'[c].st = "none"
               \/ /\ d'.phase \in WaitsFor(c)
                  /\ wire'[c] = wire[c] \/ (wire'[c].st = "request" /\ wire'[c].verdict = "none")
    <3>1. CASE c = "finalize" BY <2>2, <3>1, Waits
    <3>2. CASE c # "finalize" BY <2>2, <3>2 DEF Shape
    <3> QED BY <3>1, <3>2
  <2>6. d'.phase # "executing" BY <2>2
  <2> QED BY <2>2, <2>3, <2>4, <2>5, <2>6, <1>CarriesOn

<1>FinalizationFaultsCarries.
  ASSUME DaemonTypeOK, Shape, NEW fault \in Faults, FinalizationFaults(fault)
  PROVE  Carries
  <2> USE <1>FinalizationFaultsCarries
  <2>1. /\ d.phase \in {"finalizing", "reconciling"}
        /\ UNCHANGED vars /\ observed' = observed /\ handled' = handled
    BY DEF FinalizationFaults
  <2>2. CASE EndCycle(d, fault)
    <3>1. fault \in Errors /\ "none" \in Kinds /\ Counts BY <2>1 DEF Errors, Kinds, Counts
    <3> QED BY <2>1, <2>2, <3>1, <1>FinishedCarries
  <2>3. CASE Abandon({"finalize"}) /\ d' = d
    <3>1. GivenUp({"finalize"}) BY <2>3, <1>AbandonDoes DEF Channels
    <3>2. /\ wire' \in [Channels -> CallRecord] /\ Forgets /\ wire'["finalize"].st = "none"
          /\ \A x \in Channels \ {"finalize"} : wire'[x] = wire[x]
      BY <3>1 DEF GivenUp
    <3> QED BY <2>1, <2>3, <3>2, <1>FinalizationRepeatsCarries
  <2> QED BY <2>2, <2>3 DEF FinalizationFaults

<1>FinalizationRetriedCarries.
  ASSUME DaemonTypeOK, Shape, FinalizationRetried
  PROVE  Carries
  <2> USE <1>FinalizationRetriedCarries
  <2>1. /\ d.phase \in {"finalizing", "reconciling"} /\ Send("finalize")
        /\ d' = [d EXCEPT !.tries = d.tries + 1]
        /\ UNCHANGED vars /\ observed' = observed /\ handled' = handled /\ late' = late
    BY DEF FinalizationRetried
  <2>2. Sent("finalize") /\ Forgets BY <2>1, <1>SendDoes, <1>StandingForgets DEF Channels
  <2>3. /\ wire' \in [Channels -> CallRecord]
        /\ wire'["finalize"].st = "request" /\ wire'["finalize"].verdict = "none"
        /\ \A x \in Channels \ {"finalize"} : wire'[x] = wire[x]
    BY <2>2 DEF Sent
  <2> QED BY <2>1, <2>2, <2>3, <1>FinalizationRepeatsCarries

<1>ReconciliationEndsCarries.
  ASSUME DaemonTypeOK, Shape, ReconciliationEnds
  PROVE  Carries
  <2> USE <1>ReconciliationEndsCarries
  <2> DEFINE error == IF now >= d.deadline THEN "deadline" ELSE d.error
             kind == IF error \in {"transient", "denied"} THEN "none" ELSE KindOf(error)
  <2>1. /\ d.phase = "reconciling"
        /\ EndCycle([d EXCEPT !.kind = kind], error) \/ EndsWith(d, "quiescence")
        /\ UNCHANGED vars /\ observed' = observed /\ handled' = handled
    BY DEF ReconciliationEnds
  <2>2. error \in Errors BY DEF DaemonTypeOK, CycleRecord, Errors
  <2>3. kind \in Kinds BY <1>KindOfError DEF Kinds
  <2>4. Counts BY <2>1 DEF Counts
  <2> HIDE DEF error, kind
  <2>5. CASE EndCycle([d EXCEPT !.kind = kind], error)
    BY <2>1, <2>2, <2>3, <2>4, <2>5, <1>FinishedCarries
  <2>6. CASE EndsWith(d, "quiescence")
    <3>1. d \in CycleRecord /\ d.grant \in Mine /\ ~d.exec /\ "quiescence" \in Errors
      BY <2>1 DEF DaemonTypeOK, Shape, Locals, HasLease, Errors
    <3> QED BY <2>1, <2>4, <2>6, <3>1, <1>EndsWithCarries
  <2> QED BY <2>1, <2>5, <2>6

(* No call is in flight while an execution is stopped. *)
<1>StoppingCarries.
  ASSUME DaemonTypeOK, Shape, d.phase \in {"executing", "stopping", "forcing"}, UNCHANGED vars,
         observed' = observed, handled' = handled, Forgets,
         d' \in CycleRecord, d'.phase \in {"stopping", "forcing"}, d'.grant = d.grant, d'.exec = d.exec,
         wire' \in [Channels -> CallRecord], \A c \in Channels : wire'[c].st = "none"
  PROVE  Carries
  <2> USE <1>StoppingCarries
  <2>1. d.grant \in Mine /\ d.exec BY DEF Shape, Locals, HasLease
  <2>2. Mine' = Mine BY DEF Mine, vars
  <2>3. Locals' BY <2>1, <2>2 DEF Locals, HasLease
  <2>4. wire'["heartbeat"].st = "none" /\ wire'["finalize"].st = "none" BY DEF Channels
  <2> QED BY <2>1, <2>3, <2>4, <1>CarriesOn

<1>GraceElapsesCarries.
  ASSUME DaemonTypeOK, Shape, GraceElapses
  PROVE  Carries
  <2> USE <1>GraceElapsesCarries
  <2>1. /\ d.phase = "stopping" /\ d' = [d EXCEPT !.phase = "forcing"] /\ wire' = wire
        /\ UNCHANGED vars /\ observed' = observed /\ handled' = handled /\ late' = late
    BY DEF GraceElapses
  <2>2. d \in CycleRecord /\ wire \in [Channels -> CallRecord] BY DEF DaemonTypeOK
  <2>3. d' \in CycleRecord /\ d'.phase = "forcing" /\ d'.grant = d.grant /\ d'.exec = d.exec
    BY <2>1, <2>2 DEF CycleRecord, Phases
  <2>4. \A c \in Channels : wire[c].st = "none" BY <2>1, Waits DEF Shape, Channels
  <2> QED BY <2>1, <2>2, <2>3, <2>4, <1>StandingForgets, <1>StoppingCarries

<1>ExecutorStopsCarries.
  ASSUME DaemonTypeOK, Shape, ExecutorStops
  PROVE  Carries
  <2> USE <1>ExecutorStopsCarries
  <2> DEFINE c == [d EXCEPT !.exec = FALSE]
  <2>1. /\ d.phase \in {"stopping", "forcing"} /\ EndCycle(c, d.error)
        /\ UNCHANGED vars /\ observed' = observed /\ handled' = handled
    BY DEF ExecutorStops
  <2>2. d \in CycleRecord /\ d.grant \in Mine BY <2>1 DEF DaemonTypeOK, Shape, Locals, HasLease
  <2>3. c \in CycleRecord /\ c.grant = d.grant /\ ~c.exec BY <2>2 DEF CycleRecord
  <2>4. d.error \in Errors /\ Counts BY <2>1, <2>2 DEF CycleRecord, Counts
  <2> HIDE DEF c
  <2> QED BY <2>1, <2>2, <2>3, <2>4, <1>EndCycleCarries

<1>ForceElapsesCarries.
  ASSUME DaemonTypeOK, Shape, ForceElapses
  PROVE  Carries
  <2> USE <1>ForceElapsesCarries
  <2> DEFINE c == [d EXCEPT !.cleanup = "incomplete"]
  <2>1. /\ d.phase = "forcing" /\ EndCycle(c, "quiescence")
        /\ UNCHANGED vars /\ observed' = observed /\ handled' = handled
    BY DEF ForceElapses
  <2>2. d \in CycleRecord /\ d.grant \in Mine /\ d.exec
    BY <2>1 DEF DaemonTypeOK, Shape, Locals, HasLease
  <2>3. c \in CycleRecord /\ c.grant = d.grant /\ c.cleanup = "incomplete"
    BY <2>2 DEF CycleRecord, Cleanups
  <2>4. "quiescence" \in Errors /\ Counts BY <2>1 DEF Errors, Counts
  <2> HIDE DEF c
  <2> QED BY <2>1, <2>2, <2>3, <2>4, <1>EndCycleCarries

<1>OrphanStopsCarries.
  ASSUME DaemonTypeOK, Shape, OrphanStops
  PROVE  Carries
  <2> USE <1>OrphanStopsCarries
  <2>1. /\ d.phase \in {"reporting", "fatal", "stopped"} /\ d' = [d EXCEPT !.exec = FALSE]
        /\ wire' = wire
        /\ UNCHANGED vars /\ observed' = observed /\ handled' = handled /\ late' = late
    BY DEF OrphanStops
  <2>2. /\ d \in CycleRecord /\ wire \in [Channels -> CallRecord] /\ Mine' = Mine
    BY <2>1 DEF DaemonTypeOK, Mine, vars
  <2>3. d' \in CycleRecord /\ d'.phase = d.phase /\ d'.grant = d.grant /\ ~d'.exec
    BY <2>1, <2>2 DEF CycleRecord
  <2>4. Locals'
    <3>1. d.phase = "reporting" => d.grant \in Mine BY DEF Shape, Locals, HasLease
    <3>2. d'.phase \in {"reporting", "fatal", "stopped"} BY <2>1, <2>3
    <3> QED BY <2>2, <2>3, <3>1, <3>2 DEF Locals, HasLease
  <2>5. \A c \in Channels : wire[c].st # "none" => d.phase \in WaitsFor(c) BY DEF Shape
  <2>6. wire["heartbeat"].st = "none" /\ wire["finalize"].st = "none"
    BY <2>1, <2>5, Waits DEF Channels
  <2>7. d'.phase # "executing" BY <2>1, <2>3
  <2> QED BY <2>1, <2>2, <2>3, <2>4, <2>5, <2>6, <2>7, <1>StandingForgets, <1>CarriesOn

(* The cycle is over: whatever was in flight is given up. *)
<1>RestCarries.
  ASSUME DaemonTypeOK, Shape, UNCHANGED vars, observed' = observed, handled' = handled, Forgets,
         NEW phase \in {"idle", "fatal", "stopped"}, phase = "idle" => ~d.exec, Rested(d, phase),
         wire' \in [Channels -> CallRecord], \A c \in Channels : wire'[c].st = "none"
  PROVE  Carries
  <2> USE <1>RestCarries
  <2>1. d.exec => d.grant \in Mine BY DEF Shape, Locals
  <2>2. Mine' = Mine BY DEF Mine, vars
  <2>3. Locals' BY <2>1, <2>2 DEF Locals, HasLease, Rested
  <2>4. wire'["heartbeat"].st = "none" /\ wire'["finalize"].st = "none" BY DEF Channels
  <2>5. d'.phase # "executing" /\ d' \in CycleRecord /\ (d'.exec => d.exec /\ d'.grant = d.grant)
    BY DEF Rested
  <2> QED BY <2>3, <2>4, <2>5, <1>CarriesOn

<1>ReportEndsCarries.
  ASSUME DaemonTypeOK, Shape, ReportEnds
  PROVE  Carries
  <2> USE <1>ReportEndsCarries
  <2>1. /\ d.phase = "reporting" /\ d' = Rest(d, After(d.error)) /\ Abandon({"report"})
        /\ UNCHANGED vars /\ observed' = observed /\ handled' = handled
    BY DEF ReportEnds
  <2>2. /\ d \in CycleRecord /\ After(d.error) \in {"idle", "fatal", "stopped"} /\ After(d.error) \in Phases
        /\ d.error = "quiescence" => After(d.error) = "fatal"
    BY DEF DaemonTypeOK, After, Phases
  <2>3. After(d.error) = "idle" => ~d.exec BY <2>1, <2>2 DEF Shape, Locals
  <2>4. Rested(d, After(d.error)) BY <2>1, <2>2, <1>RestRecord
  <2>5. GivenUp({"report"}) BY <2>1, <1>AbandonDoes DEF Channels
  <2>6. \A c \in Channels \ {"report"} : wire[c].st = "none" BY <2>1, Waits DEF Shape, Channels
  <2>7. wire' \in [Channels -> CallRecord] /\ Forgets /\ \A c \in Channels : wire'[c].st = "none"
    BY <2>5, <2>6 DEF GivenUp
  <2> QED BY <2>1, <2>2, <2>3, <2>4, <2>7, <1>RestCarries

<1>ShutdownCarries.
  ASSUME DaemonTypeOK, Shape, Shutdown
  PROVE  Carries
  <2> USE <1>ShutdownCarries
  <2> DEFINE cancelled == [d EXCEPT !.kind = FirstKind(d, "daemon-shutdown"), !.error = "shutdown"]
  <2>1. UNCHANGED vars /\ observed' = observed /\ handled' = handled BY DEF Shutdown
  <2>2. d \in CycleRecord /\ wire \in [Channels -> CallRecord] BY DEF DaemonTypeOK
  <2>3. FirstKind(d, "daemon-shutdown") \in Kinds /\ "shutdown" \in Errors
    BY <2>2 DEF FirstKind, CycleRecord, Kinds, Errors
  <2>4. /\ cancelled \in CycleRecord /\ cancelled.phase = d.phase /\ cancelled.grant = d.grant
        /\ cancelled.exec = d.exec
    BY <2>2, <2>3 DEF CycleRecord
  <2> HIDE DEF cancelled
  <2>5. ASSUME NEW phase \in {"stopped", "fatal"}, d' = Rest(d, phase), Abandon(Channels) PROVE Carries
    <3>1. Rested(d, phase) BY <2>2, <2>5, <1>RestRecord DEF Phases
    <3>2. GivenUp(Channels) BY <2>5, <1>AbandonDoes
    <3>3. wire' \in [Channels -> CallRecord] /\ Forgets /\ \A c \in Channels : wire'[c].st = "none"
      BY <3>2 DEF GivenUp
    <3> QED BY <2>1, <3>1, <3>3, <1>RestCarries
  <2>6. ASSUME d.phase = "executing", Abandon({"heartbeat"}),
               d' = [cancelled EXCEPT !.phase = "stopping", !.hb = "none", !.hbStart = 0,
                                      !.deadline = 0, !.renewed = FALSE]
        PROVE  Carries
    <3>1. GivenUp({"heartbeat"}) BY <2>6, <1>AbandonDoes DEF Channels
    <3>2. \A c \in Channels \ {"heartbeat"} : wire[c].st = "none" BY <2>6, Waits DEF Shape, Channels
    <3>3. wire' \in [Channels -> CallRecord] /\ Forgets /\ \A c \in Channels : wire'[c].st = "none"
      BY <3>1, <3>2 DEF GivenUp
    <3>4. d' \in CycleRecord /\ d'.phase = "stopping" /\ d'.grant = d.grant /\ d'.exec = d.exec
      BY <2>4, <2>6 DEF CycleRecord, Phases
    <3> QED BY <2>1, <2>6, <3>3, <3>4, <1>StoppingCarries
  <2>7. ASSUME d.phase \in {"stopping", "forcing"}, d' = cancelled, wire' = wire, late' = late
        PROVE  Carries
    <3>1. \A c \in Channels : wire[c].st = "none" BY <2>7, Waits DEF Shape, Channels
    <3> QED BY <2>1, <2>2, <2>4, <2>7, <3>1, <1>StandingForgets, <1>StoppingCarries
  <2>8. ASSUME d.phase \in {"finalizing", "reconciling"}, EndCycle(cancelled, "shutdown")
        PROVE  Carries
    <3>1. d.grant \in Mine /\ ~d.exec BY <2>8 DEF Shape, Locals, HasLease
    <3>2. Counts BY <2>1 DEF Counts
    <3> QED BY <2>1, <2>3, <2>4, <2>8, <3>1, <3>2, <1>EndCycleCarries
  <2>9. \A e \in {"shutdown"} \cup DrainFailures : After(e) \in {"stopped", "fatal"}
    BY DEF DrainFailures, After
  <2> QED BY <2>5, <2>6, <2>7, <2>8, <2>9 DEF Shutdown, cancelled

<1>RestartCarries.
  ASSUME DaemonTypeOK, Shape, Restart
  PROVE  Carries
  <2> USE <1>RestartCarries
  <2>1. /\ d' = Resting /\ Abandon(Channels)
        /\ UNCHANGED vars /\ observed' = observed /\ handled' = handled
    BY DEF Restart
  <2>2. GivenUp(Channels) BY <2>1, <1>AbandonDoes
  <2>3. wire' \in [Channels -> CallRecord] /\ Forgets /\ \A c \in Channels : wire'[c].st = "none"
    BY <2>2 DEF GivenUp
  <2>4. d' \in CycleRecord /\ d'.phase = "idle" /\ ~d'.exec /\ d'.grant = NoGrant
    BY <2>1, RestingRecord
  <2>5. Locals' BY <2>4 DEF Locals, HasLease
  <2>6. wire'["heartbeat"].st = "none" /\ wire'["finalize"].st = "none" BY <2>3 DEF Channels
  <2>7. d'.phase # "executing" BY <2>4
  <2> QED BY <2>1, <2>3, <2>4, <2>5, <2>6, <2>7, <1>CarriesOn

<1> QED BY <1>AskClaimCarries, <1>ClaimFailsCarries, <1>NextHeartbeatCarries, <1>HeartbeatAnsweredCarries,
   <1>HeartbeatStopsCarries, <1>ExecutorReturnsCarries, <1>FinalizationAnsweredCarries,
   <1>FinalizationFaultsCarries, <1>FinalizationRetriedCarries, <1>ReconciliationEndsCarries,
   <1>GraceElapsesCarries, <1>ExecutorStopsCarries, <1>ForceElapsesCarries, <1>OrphanStopsCarries,
   <1>ReportEndsCarries, <1>ShutdownCarries, <1>RestartCarries
DEF DaemonStep

-----------------------------------------------------------------------------

Same(g, h) == g.job = h.job /\ g.token = h.token

(* What a forgotten request may still do. *)
LateIsPast ==
  \A m \in late :
    /\ m.grant \in Mine \cup {NoGrant}
    /\ m.op # "claim" => m.grant \in Mine
    /\ m.op = "finalize" => m.action \in Actions
    /\ m.op = "finalize" /\ d.phase = "executing" => ~Same(m.grant, d.grant)
    /\ m.op = "report" /\ m.cleanup = "drained" => ~(d.exec /\ Same(m.grant, d.grant))

(* A claim that was granted and not yet read: nothing else names its lease. *)
Fresh ==
  LET g == wire["claim"].grant IN
  wire["claim"].st = "reply" /\ wire["claim"].verdict = "ok" =>
    /\ g \in Mine
    /\ \A m \in late : ~Same(m.grant, g)
    /\ observed[g.job].token # g.token

Committed(g, action) ==
  \E e \in effects : /\ e.job = g.job /\ e.token = g.token
                     /\ e.kind = IF action = "retry" THEN "fail" ELSE action

(* The row of the succeeded Job j tells of an effect of its last lease. *)
Backed(j) ==
  \E e \in effects : /\ e.job = j /\ e.token = job[j].token
                     /\ e.kind = IF job[j].result = "checkpoint" THEN "checkpoint" ELSE "complete"

Backings == \A j \in JobIds : job[j].state = "succeeded" => Backed(j)

Answers ==
  /\ HandledIsCommitted
  /\ wire["finalize"].st = "reply" /\ wire["finalize"].verdict = "ok" => Committed(d.grant, d.action)
  /\ Backings

(* A fenced Job has ended; no lease has the token of a cleared row. *)
Fenced == \A j \in JobIds : fence[j] # 0 => job[j].state \notin {"absent", "queued", "leased"}
Tokens == \A g \in grants : g.token # 0

Stops == StopReportIsTrue /\ Fenced /\ Tokens

(* Until the time dl, as the slowest server clock shows it, g is the newest   *)
(* lease of its Job and no sweep can take it back.                            *)
Safe(g, dl) ==
  now + Skew < dl =>
    /\ \A h \in grants : h.job = g.job => h.token <= g.token
    /\ job[g.job].state # "queued"
    /\ job[g.job].state = "leased" => dl <= job[g.job].expires + Skew

(* This daemon asks for leases of one length. *)
Windows ==
  \A j \in JobIds : job[j].state = "leased" /\ job[j].owner = Daemon =>
    job[j].expires <= job[j].heartbeat + DaemonLease

Deadlines ==
  /\ Windows
  /\ d.phase = "executing" /\ d.renewed => Safe(d.grant, d.deadline)
  /\ wire["heartbeat"].st = "request" => d.hbStart <= now
  /\ d.phase = "executing" /\ wire["heartbeat"].st = "reply" /\ wire["heartbeat"].verdict = "ok" =>
       Safe(d.grant, d.hbStart + Least(wire["heartbeat"].window, DaemonLease))

DaemonInv ==
  /\ TriggerInv /\ DaemonTypeOK /\ Shape /\ LateIsPast /\ Fresh /\ Answers /\ Stops /\ Deadlines

-----------------------------------------------------------------------------
(* What the Control Plane does to the histories and to the fences. *)

(* The columns of a lease the daemon was given. *)
LEMMA MineFields ==
  ASSUME TypeOK, NEW g \in Mine
  PROVE  /\ g \in grants /\ g.job \in JobIds /\ g.token \in Nat /\ g.worker = Daemon
         /\ job[g.job] \in JobRecord /\ g # NoGrant
<1>1. /\ g \in grants /\ g.job \in JobIds /\ g.token \in Nat /\ g.worker = Daemon
      /\ job[g.job] \in JobRecord
  BY GrantFields DEF Mine
<1>2. NoGrant.job = 0 /\ 0 \notin JobIds BY SMT DEF NoGrant, JobIds
<1> QED BY <1>1, <1>2

(* The transactions on approvals fence, grant and finalize nothing. *)
LEMMA ApprovalsQuiet ==
  ASSUME ApprovalCases
  PROVE  fence' = fence /\ grants' = grants /\ effects' = effects
<1> DEFINE Quiet == fence' = fence /\ grants' = grants /\ effects' = effects
<1>1. ASSUME NEW c \in JobIds, NEW t \in Nat, NEW p \in Principals, NEW approve \in BOOLEAN,
             DecideApproval(p, c, approve, t)
      PROVE  Quiet
  BY <1>1 DEF DecideApproval
<1>2. ASSUME NEW c \in JobIds, NEW t \in Nat, NEW j \in JobIds, ResumeCheckpoint(c, j, t) PROVE Quiet
  BY <1>2 DEF ResumeCheckpoint
<1>3. ASSUME NEW c \in JobIds, NEW t \in Nat, ResumeTooLate(c, t) PROVE Quiet
  BY <1>3 DEF ResumeTooLate
<1> QED BY <1>1, <1>2, <1>3 DEF ApprovalCases

(* Grants and effects are only ever added, and only a claim grants. *)
LEMMA HistoryGrows ==
  ASSUME StepCases
  PROVE  /\ grants \subseteq grants' /\ effects \subseteq effects'
         /\ \/ grants' = grants
            \/ \E w \in Workers, j \in JobIds, n \in Nat \ {0}, t \in Nat \ {0} : ClaimJob(w, j, n, t)
<1>1. CASE WorkerCases
  <2>1. ASSUME NEW g \in grants, NEW t \in Nat, NEW n \in Nat \ {0}, Heartbeat(g, n, t)
        PROVE  grants' = grants /\ effects' = effects
    BY <2>1 DEF Heartbeat
  <2>2. ASSUME NEW g \in grants, NEW t \in Nat, NEW result \in Results, NEW b \in BOOLEAN,
               CompleteJob(g, result, b, t)
        PROVE  grants' = grants /\ effects \subseteq effects'
    BY <2>2 DEF CompleteJob, RecordEffect
  <2>3. ASSUME NEW g \in grants, NEW result \in Results, CompletionRetry(g, result)
        PROVE  grants' = grants /\ effects' = effects
    BY <2>3 DEF CompletionRetry
  <2>4. ASSUME NEW g \in grants, NEW t \in Nat, NEW retryable \in BOOLEAN, FailJob(g, retryable, t)
        PROVE  grants' = grants /\ effects \subseteq effects'
    BY <2>4 DEF FailJob, RecordEffect
  <2>5. ASSUME NEW g \in grants, NEW t \in Nat, NEW expires \in Nat, CreateCheckpoint(g, expires, t)
        PROVE  grants' = grants /\ effects \subseteq effects'
    BY <2>5 DEF CreateCheckpoint, RecordEffect
  <2> QED BY <1>1, <2>1, <2>2, <2>3, <2>4, <2>5 DEF WorkerCases
<1>2. CASE ApprovalCases BY <1>2, ApprovalsQuiet
<1>3. CASE Tick BY <1>3 DEF Tick
<1>4. CASE \E r \in Runs : CancelRun(r) BY <1>4 DEF CancelRun
<1>5. CASE \E readAt \in Nat : ExpireDueApprovals(readAt) BY <1>5 DEF ExpireDueApprovals
<1>6. CASE \E r \in Runs, j \in JobIds, m \in Nat \ {0}, t \in Nat \ {0} : SubmitRun(r, j, m, t)
  BY <1>6 DEF SubmitRun
<1>7. CASE \E S \in LeasedBatches, t \in Nat : ExpireLeases(S, t) BY <1>7 DEF ExpireLeases
<1>8. CASE \E w \in Workers, j \in JobIds, n \in Nat \ {0}, t \in Nat \ {0} : ClaimJob(w, j, n, t)
  BY <1>8 DEF ClaimJob
<1> QED BY <1>1, <1>2, <1>3, <1>4, <1>5, <1>6, <1>7, <1>8 DEF StepCases

(* A Job that has ended is never written again. *)
LEMMA EndedStays ==
  ASSUME TriggerInv, StepCases, NEW j \in JobIds, job[j].state \notin {"absent", "queued", "leased"}
  PROVE  job'[j] = job[j]
BY StepAdmitted DEF JobsAdmitted, UpdateAdmitted, TriggerAdmitsJobUpdate

(* A Job that succeeded has the effect of its newest lease. *)
LEMMA SuccessIsBacked ==
  ASSUME TriggerInv, StepCases, \A j \in JobIds : job[j].state = "succeeded" => Backed(j),
         NEW j \in JobIds, job'[j].state = "succeeded"
  PROVE  Backed(j)'
<1>SucceededIsBacked.
  ASSUME TypeOK, NEW g \in grants, NEW t, NEW kind, NEW result, RequireActiveLease(g, t),
         RecordEffect(g, kind, t), job' = [job EXCEPT ![g.job] = SucceededJob(@, result)],
         kind = IF result = "checkpoint" THEN "checkpoint" ELSE "complete"
  PROVE  Backed(g.job)' /\ \A k \in JobIds \ {g.job} : job'[k] = job[k]
  <2> USE <1>SucceededIsBacked
  <2> DEFINE e0 == [job |-> g.job, token |-> g.token, kind |-> kind, at |-> t]
  <2>1. e0 \in effects' BY DEF RecordEffect
  <2>2. g.job \in JobIds /\ job[g.job] \in JobRecord BY GrantFields
  <2>3. job'[g.job].token = job[g.job].token /\ job'[g.job].result = result
    BY <2>2 DEF SucceededJob, JobRecord, TypeOK
  <2>4. job[g.job].token = g.token BY DEF RequireActiveLease, RequireLeaseIdentity
  <2>5. e0.job = g.job /\ e0.token = g.token /\ e0.kind = kind OBVIOUS
  <2>6. Backed(g.job)' BY <2>1, <2>3, <2>4, <2>5 DEF Backed
  <2> QED BY <2>2, <2>6 DEF TypeOK

<1>0. LeaseInv /\ TypeOK BY DEF TriggerInv, LeaseInv
<1>1. CASE job[j].state = "succeeded"
  <2>1. job'[j] = job[j] BY <1>1, EndedStays
  <2>2. PICK e \in effects : /\ e.job = j /\ e.token = job[j].token
                             /\ e.kind = IF job[j].result = "checkpoint" THEN "checkpoint" ELSE "complete"
    BY <1>1 DEF Backed
  <2>3. e \in effects' BY HistoryGrows
  <2> QED BY <2>1, <2>2, <2>3 DEF Backed
<1>2. CASE job[j].state # "succeeded"
  <2>1. ~NoneEnters("succeeded") BY <1>2 DEF NoneEnters
  <2>2. WorkerCases BY <1>0, <2>1, QuietCases
  <2>3. ASSUME NEW g \in grants, NEW t \in Nat, NEW n \in Nat \ {0}, Heartbeat(g, n, t) PROVE FALSE
    BY <1>0, <2>1, <2>3, HeartbeatMoves
  <2>4. ASSUME NEW g \in grants, NEW t \in Nat, NEW result \in Results, NEW b \in BOOLEAN,
               CompleteJob(g, result, b, t)
        PROVE  Backed(j)'
    <3>1. result # "checkpoint" BY ControlPlaneAssumption
    <3>2. /\ RequireActiveLease(g, t) /\ RecordEffect(g, "complete", t)
          /\ job' = [job EXCEPT ![g.job] = SucceededJob(@, result)]
      BY <2>4 DEF CompleteJob
    <3>3. Backed(g.job)' /\ \A k \in JobIds \ {g.job} : job'[k] = job[k]
      BY <1>0, <3>1, <3>2, <1>SucceededIsBacked
    <3> QED BY <1>2, <3>3
  <2>5. ASSUME NEW g \in grants, NEW result \in Results, CompletionRetry(g, result) PROVE FALSE
    BY <1>2, <2>5 DEF CompletionRetry
  <2>6. ASSUME NEW g \in grants, NEW t \in Nat, NEW retryable \in BOOLEAN, FailJob(g, retryable, t)
        PROVE  FALSE
    BY <1>0, <2>1, <2>6, FailMoves
  <2>7. ASSUME NEW g \in grants, NEW t \in Nat, NEW expires \in Nat, CreateCheckpoint(g, expires, t)
        PROVE  Backed(j)'
    <3>1. Backed(g.job)' /\ \A k \in JobIds \ {g.job} : job'[k] = job[k]
      BY <1>0, <2>7, <1>SucceededIsBacked DEF CreateCheckpoint
    <3> QED BY <1>2, <3>1
  <2> QED BY <2>2, <2>3, <2>4, <2>5, <2>6, <2>7 DEF WorkerCases
<1> QED BY <1>1, <1>2

-----------------------------------------------------------------------------
(* A served call is a transaction of the Control Plane, or changes no row. *)

(* What a request of the kind op under the lease g may do at the server. *)
CallDoes(op, g, action, t) ==
  \/ UNCHANGED vars
  \/ op = "heartbeat" /\ Heartbeat(g, DaemonLease, t)
  \/ op = "finalize" /\ CompleteJob(g, Outcome, FALSE, t)
  \/ op = "finalize" /\ CompletionRetry(g, Outcome)
  \/ op = "finalize" /\ \E retryable \in BOOLEAN : FailJob(g, retryable, t)
  \/ op = "finalize" /\ CreateCheckpoint(g, Horizon, t)

(* The transaction behind each answer to a finalization. *)
LEMMA ActionCases ==
  ASSUME NEW g, NEW t, NEW action \in Actions, NEW verdict, ServeFinalize(g, action, verdict, t)
  PROVE  \/ UNCHANGED vars /\ (verdict = "run-cancelled" \/ verdict = "lease-lost")
         \/ action = "complete" /\ (CompleteJob(g, Outcome, FALSE, t) \/ CompletionRetry(g, Outcome))
         \/ action \in {"retry", "fail"} /\ \E retryable \in BOOLEAN : FailJob(g, retryable, t)
         \/ action = "checkpoint" /\ CreateCheckpoint(g, Horizon, t)
<1>1. CASE Refuses(g, verdict) BY <1>1 DEF Refuses
<1>2. CASE /\ verdict = "ok"
           /\ CASE action = "complete" -> CompleteJob(g, Outcome, FALSE, t) \/ CompletionRetry(g, Outcome)
                [] action = "retry" -> FailJob(g, TRUE, t)
                [] action = "fail" -> FailJob(g, FALSE, t)
                [] action = "checkpoint" -> CreateCheckpoint(g, Horizon, t)
  <2>1. CASE action = "complete" BY <1>2, <2>1
  <2>2. CASE action = "retry" BY <1>2, <2>2
  <2>3. CASE action = "fail" BY <1>2, <2>3
  <2>4. CASE action = "checkpoint" BY <1>2, <2>4
  <2> QED BY <2>1, <2>2, <2>3, <2>4 DEF Actions
<1> QED BY <1>1, <1>2 DEF ServeFinalize

(* The transaction behind each answer of the server. *)
LEMMA HandleDoes ==
  ASSUME NEW op, NEW g, NEW action, NEW cleanup, NEW verdict, NEW window, NEW t,
         op = "finalize" => action \in Actions,
         Handle(op, g, action, cleanup, verdict, window, t)
  PROVE  CallDoes(op, g, action, t)
<1>1. CASE op = "heartbeat" /\ ServeHeartbeat(g, verdict, window, t)
  BY <1>1 DEF ServeHeartbeat, Refuses, CallDoes
<1>2. CASE op = "finalize" /\ ServeFinalize(g, action, verdict, t)
  BY <1>2, ActionCases DEF CallDoes
<1>3. CASE op = "report" /\ RecordStop(g, cleanup, verdict)
  BY <1>3 DEF RecordStop, CallDoes
<1> QED BY <1>1, <1>2, <1>3 DEF Handle

(* A server clock is behind the time by at most Skew. *)
LEMMA Readings ==
  ASSUME TypeOK, NEW t \in ClockReadings
  PROVE  t \in Nat \ {0} /\ t <= now /\ now <= t + Skew
BY ControlPlaneAssumption, SMT DEF TypeOK, ClockReadings

(* Only a daemon that was given a lease makes calls other than a claim. *)
LEMMA CallerHasLease ==
  ASSUME Shape, NEW c \in Channels, wire[c].st # "none", c # "claim"
  PROVE  d.grant \in Mine /\ (c = "finalize" => d.action \in Actions)
<1>1. d.phase \in WaitsFor(c) BY DEF Shape, Locals
<1>2. c \in {"heartbeat", "finalize", "report"} BY DEF Channels
<1>3. d.phase \in HasLease BY <1>1, <1>2, Waits DEF HasLease
<1>4. d.grant \in Mine BY <1>3 DEF Shape, Locals
<1>5. ASSUME c = "finalize" PROVE d.action \in Actions
  <2>1. d.phase \in {"finalizing", "reconciling"} BY <1>1, <1>5, Waits
  <2> QED BY <2>1 DEF Shape, Locals
<1> QED BY <1>4, <1>5

(* What a step of the whole system does to the Control Plane. *)
ServerDoes ==
  \/ UNCHANGED vars
  \/ Elsewhere
  \/ \E t \in ClockReadings, j \in JobIds : ClaimJob(Daemon, j, DaemonLease, t)
  \/ \E t \in ClockReadings, c \in Channels \ {"claim"} :
       wire[c].st = "request" /\ CallDoes(c, d.grant, d.action, t)
  \/ \E t \in ClockReadings, m \in late : m.op # "claim" /\ CallDoes(m.op, m.grant, m.action, t)

(* The daemon's own tasks leave the database alone. *)
LEMMA DaemonStepIsLocal ==
  ASSUME DaemonStep
  PROVE  UNCHANGED vars /\ observed' = observed
<1> DEFINE Local == UNCHANGED vars /\ observed' = observed
<1>1. AskClaim \/ StartClaim => Local BY DEF AskClaim, StartClaim
<1>2. \A fault : ClaimFails(fault) \/ HeartbeatFaults(fault) \/ FinalizationFaults(fault) => Local
  BY DEF ClaimFails, HeartbeatFaults, FinalizationFaults
<1>3. NextHeartbeat \/ HeartbeatAnswered \/ HeartbeatTimesOut => Local
  BY DEF NextHeartbeat, HeartbeatAnswered, HeartbeatTimesOut
<1>4. \A action : ExecutorReturns(action) => Local BY DEF ExecutorReturns
<1>5. FinalizationAnswered \/ FinalizationRetried \/ ReconciliationEnds => Local
  BY DEF FinalizationAnswered, FinalizationRetried, ReconciliationEnds
<1>6. GraceElapses \/ ExecutorStops \/ ForceElapses \/ OrphanStops \/ ReportEnds => Local
  BY DEF GraceElapses, ExecutorStops, ForceElapses, OrphanStops, ReportEnds
<1>7. Shutdown \/ Restart => Local BY DEF Shutdown, Restart
<1> QED BY <1>1, <1>2, <1>3, <1>4, <1>5, <1>6, <1>7 DEF DaemonStep

(* Serving the daemon's outstanding call is a transaction under its current *)
(* lease.                                                                   *)
LEMMA ServeDoes ==
  ASSUME Shape, NEW t, NEW c \in Channels, Serve(c, t)
  PROVE  c # "claim" /\ wire[c].st = "request" /\ CallDoes(c, d.grant, d.action, t)
<1>1. PICK verdict \in Verdicts, window \in 0..DaemonLease :
        Handle(c, d.grant, d.action, d.cleanup, verdict, window, t)
  BY DEF Serve
<1>2. wire[c].st = "request" BY DEF Serve
<1>3. c # "claim" BY <1>1 DEF Handle
<1>4. c = "finalize" => d.action \in Actions BY <1>2, <1>3, CallerHasLease
<1> QED BY <1>1, <1>2, <1>3, <1>4, HandleDoes

(* Serving a forgotten request is a transaction under the lease the request *)
(* names.                                                                   *)
LEMMA LateDoes ==
  ASSUME LateIsPast, NEW t, NEW m \in late, ServeLate(m, t)
  PROVE  \/ m.op = "claim" /\ \E j \in JobIds : ClaimJob(Daemon, j, DaemonLease, t)
         \/ m.op # "claim" /\ CallDoes(m.op, m.grant, m.action, t)
<1>1. CASE m.op = "claim" BY <1>1 DEF ServeLate
<1>2. CASE m.op # "claim"
  <2>1. PICK verdict \in Verdicts, window \in 0..DaemonLease :
          Handle(m.op, m.grant, m.action, m.cleanup, verdict, window, t)
    BY <1>2 DEF ServeLate
  <2>2. m.op = "finalize" => m.action \in Actions BY DEF LateIsPast
  <2> QED BY <1>2, <2>1, <2>2, HandleDoes
<1> QED BY <1>1, <1>2

-----------------------------------------------------------------------------
(* A renewed lease is safe until its local deadline, whatever the server does *)
(* in the meantime, unless the lease itself is finalized.                     *)

(* Time that stands still has not run back. *)
LEMMA SameClock ==
  ASSUME TypeOK, now' = now
  PROVE  now <= now'
BY SMT DEF TypeOK

(* A renewal never brings the expiry forward: this daemon always asks for the *)
(* same lease, and the heartbeat of a row never goes back.                    *)
LEMMA RenewalRow ==
  ASSUME TriggerInv, NEW h \in Mine, NEW t \in Nat, Heartbeat(h, DaemonLease, t),
         job[h.job].expires <= job[h.job].heartbeat + DaemonLease
  PROVE  /\ job[h.job].state = "leased" /\ job[h.job].token = h.token
         /\ job'[h.job].state = "leased" /\ job[h.job].expires <= job'[h.job].expires
         /\ job'[h.job].heartbeat \in Nat /\ t <= job'[h.job].heartbeat
         /\ job'[h.job].expires <= job'[h.job].heartbeat + DaemonLease
         /\ \A k \in JobIds \ {h.job} : job'[k] = job[k]
         /\ job'[h.job].expires \in Nat /\ job[h.job].expires \in Nat
<1>0. TypeOK BY DEF TriggerInv, LeaseInv
<1>1. /\ h.job \in JobIds /\ job[h.job] \in JobRecord BY <1>0, MineFields
<1>2. job[h.job].state = "leased" /\ job[h.job].token = h.token
  BY DEF Heartbeat, RequireActiveLease, RequireLeaseIdentity
<1> DEFINE renewed == Greatest(t, job[h.job].heartbeat)
<1>3. /\ job'[h.job].state = job[h.job].state /\ job'[h.job].heartbeat = renewed
      /\ job'[h.job].expires = Least(renewed + DaemonLease, job[h.job].deadline)
      /\ \A k \in JobIds \ {h.job} : job'[k] = job[k]
  BY <1>0, <1>1 DEF Heartbeat, RenewedJob, TypeOK, JobRecord
<1>4. /\ job[h.job].heartbeat \in Nat /\ job[h.job].expires \in Nat /\ job[h.job].deadline \in Nat
      /\ DaemonLease \in Nat
  BY <1>1, WorkerDaemonAssumption, ControlPlaneAssumption DEF JobRecord
<1>5. job[h.job].expires <= job[h.job].deadline
  BY <1>1, <1>2 DEF TriggerInv, RowsAdmitted, RowAdmitted, TriggerAdmitsLease
<1>6. renewed \in Nat /\ t <= renewed /\ job[h.job].heartbeat <= renewed
  BY <1>4, SMT DEF Greatest
<1> HIDE DEF renewed
<1>7. /\ Least(renewed + DaemonLease, job[h.job].deadline) \in Nat
      /\ job[h.job].expires <= Least(renewed + DaemonLease, job[h.job].deadline)
      /\ Least(renewed + DaemonLease, job[h.job].deadline) <= renewed + DaemonLease
  BY <1>4, <1>5, <1>6, SMT DEF Least
<1> QED BY <1>2, <1>3, <1>4, <1>6, <1>7

(* What a call does to the rows: it renews its lease, ends it, or neither. *)
LEMMA CallRows ==
  ASSUME TypeOK, NEW op, NEW h \in Mine, NEW action, NEW t \in Nat, CallDoes(op, h, action, t)
  PROVE  \/ Heartbeat(h, DaemonLease, t)
         \/ job' = job /\ grants' = grants /\ now' = now
         \/ /\ op = "finalize" /\ RequireActiveLease(h, t)
            /\ job'[h.job].state \in {"succeeded", "queued", "dead-letter", "failed"}
            /\ \A k \in JobIds \ {h.job} : job'[k] = job[k]
            /\ grants' = grants /\ now' = now
<1>0. h.job \in JobIds /\ h \in grants /\ job[h.job] \in JobRecord BY MineFields
<1>1. CASE UNCHANGED vars BY <1>1 DEF vars
<1>2. CASE CompletionRetry(h, Outcome) BY <1>2 DEF CompletionRetry
<1>3. CASE CompleteJob(h, Outcome, FALSE, t)
  <2>1. /\ job'[h.job] = SucceededJob(job[h.job], Outcome)
        /\ \A k \in JobIds \ {h.job} : job'[k] = job[k]
    BY <1>0, <1>3 DEF CompleteJob, TypeOK
  <2>2. EndsAs(job[h.job], job'[h.job], "succeeded") BY <1>0, <2>1, SucceededRow
  <2>3. RequireActiveLease(h, t) /\ grants' = grants /\ now' = now BY <1>3 DEF CompleteJob
  <2>4. op = "finalize" \/ UNCHANGED vars \/ Heartbeat(h, DaemonLease, t) BY DEF CallDoes
  <2> QED BY <1>1, <2>1, <2>2, <2>3, <2>4 DEF EndsAs
<1>4. ASSUME NEW retryable \in BOOLEAN, op = "finalize", FailJob(h, retryable, t)
      PROVE  /\ RequireActiveLease(h, t)
             /\ job'[h.job].state \in {"queued", "dead-letter", "failed"}
             /\ \A k \in JobIds \ {h.job} : job'[k] = job[k]
             /\ grants' = grants /\ now' = now
  <2>1. /\ \/ job'[h.job] = RequeuedJob(job[h.job], t)
           \/ job'[h.job] = [ClearedLease(job[h.job]) EXCEPT !.state = "dead-letter"]
           \/ job'[h.job] = [ClearedLease(job[h.job]) EXCEPT !.state = "failed"]
        /\ \A k \in JobIds \ {h.job} : job'[k] = job[k]
    BY <1>0, <1>4 DEF FailJob, TypeOK
  <2>2. \E s \in {"queued", "dead-letter", "failed"} : EndsAs(job[h.job], job'[h.job], s)
    BY <1>0, <2>1, RequeuedRow, ClearedRow
  <2>3. RequireActiveLease(h, t) /\ grants' = grants /\ now' = now BY <1>4 DEF FailJob
  <2> QED BY <2>1, <2>2, <2>3 DEF EndsAs
<1>5. CASE op = "finalize" /\ CreateCheckpoint(h, Horizon, t)
  <2>1. /\ job'[h.job] = SucceededJob(job[h.job], "checkpoint")
        /\ \A k \in JobIds \ {h.job} : job'[k] = job[k]
    BY <1>0, <1>5 DEF CreateCheckpoint, TypeOK
  <2>2. EndsAs(job[h.job], job'[h.job], "succeeded") BY <1>0, <2>1, SucceededRow
  <2>3. RequireActiveLease(h, t) /\ grants' = grants /\ now' = now BY <1>5 DEF CreateCheckpoint
  <2> QED BY <1>5, <2>1, <2>2, <2>3 DEF EndsAs
<1> QED BY <1>1, <1>2, <1>3, <1>4, <1>5 DEF CallDoes

(* What everyone else does. *)
LEMMA OthersDo ==
  ASSUME TypeOK, Elsewhere
  PROVE  \/ Tick
         \/ \E r \in Runs : CancelRun(r)
         \/ \E r \in Runs, j \in JobIds, m \in Nat \ {0}, t \in Nat \ {0} : SubmitRun(r, j, m, t)
         \/ \E readAt \in 1..now : \E S \in SweepBatches(readAt), t \in Nat \ {0} : ExpireLeases(S, t)
         \/ \E w \in Workers \ {Daemon}, j \in JobIds, n \in Nat \ {0}, t \in Nat \ {0} :
              ClaimJob(w, j, n, t)
<1>1. 1..MaxAttempts \subseteq Nat \ {0} /\ LeaseSeconds \subseteq Nat \ {0}
  BY ControlPlaneAssumption, SMT
<1>2. ASSUME NEW t \in ClockReadings PROVE t \in Nat \ {0} BY Readings
<1>3. ASSUME NEW t \in ClockReadings, Submit(t)
      PROVE  \E r \in Runs, j \in JobIds, m \in Nat \ {0}, s \in Nat \ {0} : SubmitRun(r, j, m, s)
  BY <1>1, <1>2, <1>3 DEF Submit
<1>4. ASSUME NEW t \in ClockReadings, SweepLeases(t)
      PROVE  \E readAt \in 1..now : \E S \in SweepBatches(readAt), s \in Nat \ {0} : ExpireLeases(S, s)
  BY <1>2, <1>4 DEF SweepLeases
<1>5. ASSUME NEW t \in ClockReadings, NEW w \in Workers \ {Daemon}, NEW j \in JobIds,
             NEW n \in LeaseSeconds, ClaimJob(w, j, n, t)
      PROVE  \E v \in Workers \ {Daemon}, i \in JobIds, q \in Nat \ {0}, s \in Nat \ {0} :
               ClaimJob(v, i, q, s)
  BY <1>1, <1>2, <1>5
<1> QED BY <1>3, <1>4, <1>5 DEF Elsewhere

(* The lease under execution is not finalized: no finalization of it was sent. *)
LEMMA ServerSafe ==
  ASSUME TriggerInv, TypeOK', Shape, LateIsPast, Windows, ServerDoes, d.phase = "executing",
         NEW lease \in Mine, lease = d.grant, NEW until \in Nat, Safe(lease, until)
  PROVE  Safe(lease, until)'
<1>StillEarlier. \A a, b, s, x \in Nat : a <= b /\ b + s < x => a + s < x
  BY SMT

<1>SafeStays.
  ASSUME NEW g, NEW dl \in Nat, Safe(g, dl), Skew \in Nat, now \in Nat, now' \in Nat, now <= now',
         now + Skew < dl =>
           /\ \A h \in grants' \ grants : h.job # g.job
           /\ job'[g.job].state # "queued"
           /\ job'[g.job].state = "leased" =>
                job[g.job].state = "leased" /\ dl <= job'[g.job].expires + Skew
  PROVE  Safe(g, dl)'
  <2> USE <1>SafeStays
  <2> SUFFICES ASSUME now' + Skew < dl
               PROVE  /\ \A h \in grants' : h.job = g.job => h.token <= g.token
                      /\ job'[g.job].state # "queued"
                      /\ job'[g.job].state = "leased" => dl <= job'[g.job].expires + Skew
    BY DEF Safe
  <2>1. now + Skew < dl BY <1>StillEarlier
  <2> QED BY <2>1 DEF Safe

<1>RowKeptSafe.
  ASSUME TypeOK, TypeOK', NEW g, NEW dl \in Nat, Safe(g, dl), now <= now',
         job'[g.job] = job[g.job], \A h \in grants' \ grants : h.job # g.job
  PROVE  Safe(g, dl)'
  <2> USE <1>RowKeptSafe
  <2>1. Skew \in Nat /\ now \in Nat /\ now' \in Nat BY ControlPlaneAssumption DEF TypeOK
  <2>2. now + Skew < dl => /\ job[g.job].state # "queued"
                           /\ job[g.job].state = "leased" => dl <= job[g.job].expires + Skew
    BY DEF Safe
  <2> QED BY <2>1, <2>2, <1>SafeStays

<1>RowEndedSafe.
  ASSUME TypeOK, TypeOK', NEW g, NEW dl \in Nat, Safe(g, dl), now <= now',
         job'[g.job].state \notin {"queued", "leased"}, grants' = grants
  PROVE  Safe(g, dl)'
  <2> USE <1>RowEndedSafe
  <2>1. Skew \in Nat /\ now \in Nat /\ now' \in Nat BY ControlPlaneAssumption DEF TypeOK
  <2> QED BY <2>1, <1>SafeStays

<1>CancelSafe.
  ASSUME TriggerInv, TypeOK', NEW g \in Mine, NEW dl \in Nat, Safe(g, dl), NEW r \in Runs, CancelRun(r)
  PROVE  Safe(g, dl)'
  <2> USE <1>CancelSafe
  <2>0. TypeOK BY DEF TriggerInv, LeaseInv
  <2>1. g.job \in JobIds /\ job[g.job] \in JobRecord BY <2>0, MineFields
  <2>2. grants' = grants /\ now <= now' BY <2>0, SameClock DEF CancelRun
  <2>3. job'[g.job] = job[g.job] \/ job'[g.job] = CancelledJob(job[g.job]) BY <2>1 DEF CancelRun
  <2>4. CASE job'[g.job] = CancelledJob(job[g.job])
    <3>1. job'[g.job].state = "cancelled" BY <2>1, <2>4, CancelledRow DEF EndsAs
    <3> QED BY <2>0, <2>2, <3>1, <1>RowEndedSafe
  <2>5. CASE job'[g.job] = job[g.job] BY <2>0, <2>2, <2>5, <1>RowKeptSafe
  <2> QED BY <2>3, <2>4, <2>5

<1>SubmitSafe.
  ASSUME TriggerInv, TypeOK', NEW g \in Mine, NEW dl \in Nat, Safe(g, dl),
         NEW r \in Runs, NEW j \in JobIds, NEW m \in Nat, NEW t \in Nat, SubmitRun(r, j, m, t)
  PROVE  Safe(g, dl)'
  <2> USE <1>SubmitSafe
  <2>0. TypeOK /\ LeaseInv BY DEF TriggerInv, LeaseInv
  <2>1. g.job \in JobIds /\ job[g.job].state # "absent"
    BY <2>0, MineFields DEF LeaseInv, LeasesInOrder
  <2>2. JobCreated(j, r) /\ grants' = grants BY <2>0, SubmitMoves
  <2>3. job'[g.job] = job[g.job] BY <2>1, <2>2 DEF JobCreated, IsFreshJob
  <2>4. now <= now' BY <2>0, SameClock DEF SubmitRun
  <2> QED BY <2>0, <2>2, <2>3, <2>4, <1>RowKeptSafe

(* A sweep takes a lease whose expiry some server clock has reached. *)
<1>SweepSafe.
  ASSUME TriggerInv, TypeOK', NEW g \in Mine, NEW dl \in Nat, Safe(g, dl),
         NEW readAt \in 1..now, NEW S \in SweepBatches(readAt), NEW t \in Nat, ExpireLeases(S, t)
  PROVE  Safe(g, dl)'
  <2> USE <1>SweepSafe
  <2>0. TypeOK BY DEF TriggerInv, LeaseInv
  <2>1. g.job \in JobIds BY <2>0, MineFields
  <2>2. grants' = grants /\ now' = now /\ now <= now' BY <2>0, SameClock DEF ExpireLeases
  <2>3. CASE g.job \notin S
    <3>1. job'[g.job] = job[g.job] BY <2>1, <2>3 DEF ExpireLeases
    <3> QED BY <2>0, <2>2, <3>1, <1>RowKeptSafe
  <2>4. CASE g.job \in S
    <3>1. S \subseteq ExpirableJobs(readAt) BY DEF SweepBatches
    <3>2. /\ job[g.job].state = "leased"
          /\ job[g.job].expires <= readAt \/ job[g.job].deadline <= readAt
      BY <2>4, <3>1 DEF ExpirableJobs
    <3>3. job[g.job].expires <= job[g.job].deadline
      BY <2>1, <3>2 DEF TriggerInv, RowsAdmitted, RowAdmitted, TriggerAdmitsLease
    <3>4. /\ job[g.job].expires \in Nat /\ job[g.job].deadline \in Nat /\ Skew \in Nat /\ now \in Nat
          /\ now' \in Nat
      BY <2>0, <2>1, ControlPlaneAssumption DEF TypeOK, JobRecord
    <3>5. now + Skew < dl => dl <= job[g.job].expires + Skew BY <3>2 DEF Safe
    <3>6. readAt \in Nat /\ readAt <= now BY <3>4, SMT
    <3>7. ~(now + Skew < dl) BY <3>2, <3>3, <3>4, <3>5, <3>6, SMT
    <3> QED BY <2>2, <3>4, <3>7, <1>SafeStays
  <2> QED BY <2>3, <2>4

<1>ClaimSafe.
  ASSUME TriggerInv, TypeOK', NEW g \in Mine, NEW dl \in Nat, Safe(g, dl),
         NEW w \in Workers, NEW j \in JobIds, NEW n \in Nat, NEW t \in Nat, ClaimJob(w, j, n, t)
  PROVE  Safe(g, dl)'
  <2> USE <1>ClaimSafe
  <2>0. TypeOK /\ LeaseInv BY DEF TriggerInv, LeaseInv
  <2> DEFINE g0 == [job |-> j, token |-> job[j].attempts + 1, worker |-> w, at |-> t]
  <2>1. /\ job[j].state = "queued" /\ \A k \in JobIds \ {j} : job'[k] = job[k]
        /\ grants' = grants \cup {g0}
    BY <2>0, ClaimMoves
  <2>2. g0.job = j OBVIOUS
  <2>3. now' = now /\ now <= now' BY <2>0, SameClock DEF ClaimJob
  <2>4. g.job \in JobIds BY <2>0, MineFields
  <2> HIDE DEF g0
  <2>5. CASE g.job = j
    <3>1. ~(now + Skew < dl) BY <2>1, <2>5 DEF Safe
    <3>2. Skew \in Nat /\ now \in Nat /\ now' \in Nat BY <2>0, ControlPlaneAssumption DEF TypeOK
    <3> QED BY <2>3, <3>1, <3>2, <1>SafeStays
  <2>6. CASE g.job # j
    <3>1. job'[g.job] = job[g.job] BY <2>1, <2>4, <2>6
    <3>2. \A h \in grants' \ grants : h.job # g.job BY <2>1, <2>2, <2>6
    <3> QED BY <2>0, <2>3, <3>1, <3>2, <1>RowKeptSafe
  <2> QED BY <2>5, <2>6

<1>HeartbeatSafe.
  ASSUME TriggerInv, TypeOK', Windows, NEW g \in Mine, NEW dl \in Nat, Safe(g, dl),
         NEW h \in Mine, NEW t \in Nat, Heartbeat(h, DaemonLease, t)
  PROVE  Safe(g, dl)'
  <2> USE <1>HeartbeatSafe
  <2>0. TypeOK /\ g.job \in JobIds /\ h.job \in JobIds /\ h.worker = Daemon
    BY MineFields DEF TriggerInv, LeaseInv
  <2>1. job[h.job].state = "leased" /\ job[h.job].owner = Daemon
    BY <2>0 DEF Heartbeat, RequireActiveLease, RequireLeaseIdentity
  <2>2. job[h.job].expires <= job[h.job].heartbeat + DaemonLease BY <2>0, <2>1 DEF Windows
  <2>3. /\ job'[h.job].state = "leased" /\ job[h.job].expires <= job'[h.job].expires
        /\ \A k \in JobIds \ {h.job} : job'[k] = job[k]
        /\ job'[h.job].expires \in Nat /\ job[h.job].expires \in Nat
    BY <2>2, RenewalRow
  <2>4. grants' = grants /\ now' = now /\ now <= now' BY <2>0, SameClock DEF Heartbeat
  <2>5. CASE g.job # h.job
    BY <2>0, <2>3, <2>4, <2>5, <1>RowKeptSafe
  <2>6. CASE g.job = h.job
    <3>1. Skew \in Nat /\ now \in Nat /\ now' \in Nat BY <2>0, ControlPlaneAssumption DEF TypeOK
    <3>2. now + Skew < dl => dl <= job[h.job].expires + Skew BY <2>1, <2>6 DEF Safe
    <3>3. now + Skew < dl => dl <= job'[h.job].expires + Skew BY <2>3, <3>1, <3>2, SMT
    <3>4. job'[h.job].state # "queued" BY <2>3
    <3> QED BY <2>1, <2>4, <2>6, <3>1, <3>3, <3>4, <1>SafeStays
  <2> QED BY <2>5, <2>6

(* A call that does not finalize g itself. *)
<1>CallSafe.
  ASSUME TriggerInv, TypeOK', Windows, NEW g \in Mine, NEW dl \in Nat, Safe(g, dl),
         NEW op, NEW h \in Mine, NEW action, NEW t \in Nat, CallDoes(op, h, action, t),
         op = "finalize" => ~Same(h, g)
  PROVE  Safe(g, dl)'
  <2> USE <1>CallSafe
  <2>0. TypeOK /\ LeaseInv /\ g.job \in JobIds /\ h.job \in JobIds /\ g \in grants /\ h \in grants
    BY MineFields DEF TriggerInv, LeaseInv
  <2>1. CASE job' = job /\ grants' = grants /\ now' = now
    BY <2>0, <2>1, SameClock, <1>RowKeptSafe
  <2>2. CASE Heartbeat(h, DaemonLease, t) BY <2>2, <1>HeartbeatSafe
  <2>3. CASE /\ op = "finalize" /\ RequireActiveLease(h, t)
             /\ \A k \in JobIds \ {h.job} : job'[k] = job[k]
             /\ grants' = grants /\ now' = now
    <3>1. CASE g.job # h.job BY <2>0, <2>3, <3>1, SameClock, <1>RowKeptSafe
    <3>2. CASE g.job = h.job
      <4>1. job[h.job].state = "leased" /\ job[h.job].token = h.token
        BY <2>3 DEF RequireActiveLease, RequireLeaseIdentity
      <4>2. h.token = job[h.job].attempts /\ g.token <= job[h.job].attempts /\ g.token # h.token
        BY <2>0, <2>3, <3>2, <4>1 DEF LeaseInv, LeasesInOrder, Same
      <4>3. g.token \in Nat /\ h.token \in Nat BY <2>0, MineFields
      <4>4. ~(h.token <= g.token) BY <4>2, <4>3, SMT
      <4>5. ~(now + Skew < dl) BY <2>0, <3>2, <4>4 DEF Safe
      <4>6. Skew \in Nat /\ now \in Nat /\ now' \in Nat BY <2>0, ControlPlaneAssumption DEF TypeOK
      <4> QED BY <2>0, <2>3, <4>5, <4>6, SameClock, <1>SafeStays
    <3> QED BY <3>1, <3>2
  <2> QED BY <2>0, <2>1, <2>2, <2>3, CallRows

<1>ElsewhereSafe.
  ASSUME TriggerInv, TypeOK', Elsewhere, NEW g \in Mine, NEW dl \in Nat, Safe(g, dl)
  PROVE  Safe(g, dl)'
  <2> USE <1>ElsewhereSafe
  <2>0. TypeOK BY DEF TriggerInv, LeaseInv
  <2>1. CASE Tick
    <3>1. job' = job /\ grants' = grants BY <2>1 DEF Tick
    <3>2. now <= now' BY <2>0, <2>1, SMT DEF Tick, TypeOK
    <3> QED BY <2>0, <3>1, <3>2, <1>RowKeptSafe
  <2>2. ASSUME NEW r \in Runs, CancelRun(r) PROVE Safe(g, dl)' BY <2>2, <1>CancelSafe
  <2>3. ASSUME NEW r \in Runs, NEW j \in JobIds, NEW m \in Nat \ {0}, NEW t \in Nat \ {0},
               SubmitRun(r, j, m, t)
        PROVE  Safe(g, dl)'
    BY <2>3, <1>SubmitSafe
  <2>4. ASSUME NEW readAt \in 1..now, NEW S \in SweepBatches(readAt), NEW t \in Nat \ {0},
               ExpireLeases(S, t)
        PROVE  Safe(g, dl)'
    BY <2>4, <1>SweepSafe
  <2>5. ASSUME NEW w \in Workers, NEW j \in JobIds, NEW n \in Nat \ {0}, NEW t \in Nat \ {0},
               ClaimJob(w, j, n, t)
        PROVE  Safe(g, dl)'
    BY <2>5, <1>ClaimSafe
  <2> QED BY <2>0, <2>1, <2>2, <2>3, <2>4, <2>5, OthersDo

<1>0. TypeOK BY DEF TriggerInv, LeaseInv
<1>1. CASE UNCHANGED vars
  <2>1. job' = job /\ grants' = grants /\ now' = now BY <1>1 DEF vars
  <2> QED BY <1>0, <2>1, SameClock, <1>RowKeptSafe
<1>2. CASE Elsewhere BY <1>2, <1>ElsewhereSafe
<1>3. ASSUME NEW t \in ClockReadings, NEW j \in JobIds, ClaimJob(Daemon, j, DaemonLease, t)
      PROVE  Safe(lease, until)'
  <2>1. DaemonLease \in Nat /\ t \in Nat /\ Daemon \in Workers
    BY <1>0, Readings, WorkerDaemonAssumption, ControlPlaneAssumption
  <2> QED BY <1>3, <2>1, <1>ClaimSafe
<1>4. ASSUME NEW t \in ClockReadings, NEW c \in Channels \ {"claim"}, wire[c].st = "request",
             CallDoes(c, d.grant, d.action, t)
      PROVE  Safe(lease, until)'
  <2>1. c # "finalize"
    <3>1. d.phase \in WaitsFor(c) BY <1>4 DEF Shape, Locals
    <3> QED BY <3>1, Waits
  <2>2. t \in Nat BY <1>0, Readings
  <2> QED BY <1>4, <2>1, <2>2, <1>CallSafe
<1>5. ASSUME NEW t \in ClockReadings, NEW m \in late, m.op # "claim",
             CallDoes(m.op, m.grant, m.action, t)
      PROVE  Safe(lease, until)'
  <2>1. m.grant \in Mine /\ (m.op = "finalize" => ~Same(m.grant, lease)) BY <1>5 DEF LateIsPast
  <2>2. t \in Nat BY <1>0, Readings
  <2> QED BY <1>5, <2>1, <2>2, <1>CallSafe
<1> QED BY <1>1, <1>2, <1>3, <1>4, <1>5 DEF ServerDoes

-----------------------------------------------------------------------------
(* What else the server keeps. *)

(* The lease columns a claim writes. *)
LEMMA ClaimedRow ==
  ASSUME LeaseInv, NEW w \in Workers, NEW j \in JobIds, NEW n \in Nat, NEW t \in Nat,
         ClaimJob(w, j, n, t)
  PROVE  /\ job'[j].owner = w /\ job'[j].heartbeat = t
         /\ job'[j].expires = Least(t + n, t + MaxLease)
<1> DEFINE leased == [job[j] EXCEPT !.state = "leased", !.owner = w, !.token = FreshToken(j),
                                    !.expires = Least(t + n, t + MaxLease),
                                    !.deadline = t + MaxLease, !.heartbeat = t,
                                    !.event = 0, !.attempts = job[j].attempts + 1]
<1>1. job[j] \in JobRecord BY DEF LeaseInv, TypeOK
<1>2. job'[j] = CancelledJob(job[j]) \/ job'[j] = leased BY DEF ClaimJob, LeaseInv, TypeOK
<1>3. CancelledJob(job[j]).state = "cancelled" BY <1>1, CancelledRow DEF EndsAs
<1>4. job'[j].state = "leased" BY ClaimMoves
<1>5. job'[j] = leased BY <1>2, <1>3, <1>4
<1>6. leased.owner = w /\ leased.heartbeat = t /\ leased.expires = Least(t + n, t + MaxLease)
  BY <1>1 DEF JobRecord
<1> QED BY <1>5, <1>6

(* The server gives this daemon no lease longer than it asks for. *)
LEMMA ServerWindows ==
  ASSUME TriggerInv, Shape, LateIsPast, Windows, ServerDoes
  PROVE  Windows'
<1>ElsewhereWindows.
  ASSUME TriggerInv, Windows, Elsewhere
  PROVE  Windows'
  <2> USE <1>ElsewhereWindows
  <2>0. TypeOK /\ LeaseInv BY DEF TriggerInv, LeaseInv
  <2> SUFFICES ASSUME NEW j \in JobIds, job'[j].state = "leased", job'[j].owner = Daemon
               PROVE  job'[j] = job[j]
    BY DEF Windows
  <2>1. job[j] \in JobRecord BY <2>0 DEF TypeOK
  <2>2. CASE Tick BY <2>2 DEF Tick
  <2>3. ASSUME NEW r \in Runs, CancelRun(r) PROVE job'[j] = job[j]
    <3>1. job'[j] = job[j] \/ job'[j] = CancelledJob(job[j]) BY <2>3 DEF CancelRun
    <3>2. EndsAs(job[j], CancelledJob(job[j]), "cancelled") BY <2>1, CancelledRow
    <3> QED BY <3>1, <3>2 DEF EndsAs
  <2>4. ASSUME NEW r \in Runs, NEW i \in JobIds, NEW m \in Nat \ {0}, NEW t \in Nat \ {0},
               SubmitRun(r, i, m, t)
        PROVE  job'[j] = job[j]
    <3>1. JobCreated(i, r) BY <2>0, <2>4, SubmitMoves
    <3> QED BY <3>1 DEF JobCreated
  <2>5. ASSUME NEW readAt \in 1..now, NEW S \in SweepBatches(readAt), NEW t \in Nat \ {0},
               ExpireLeases(S, t)
        PROVE  job'[j] = job[j]
    <3>1. job'[j] = job[j] \/ job'[j] = SweptJob(j, t) BY <2>5 DEF ExpireLeases
    <3>2. \E s \in {"cancelled", "queued", "dead-letter"} : EndsAs(job[j], SweptJob(j, t), s)
      BY <2>1, CancelledRow, RequeuedRow, ClearedRow DEF SweptJob
    <3> QED BY <3>1, <3>2 DEF EndsAs
  <2>6. ASSUME NEW w \in Workers \ {Daemon}, NEW i \in JobIds, NEW n \in Nat \ {0}, NEW t \in Nat \ {0},
               ClaimJob(w, i, n, t)
        PROVE  job'[j] = job[j]
    <3>1. job'[i].owner = w BY <2>0, <2>6, ClaimedRow
    <3>2. \A k \in JobIds \ {i} : job'[k] = job[k] BY <2>0, <2>6, ClaimMoves
    <3> QED BY <3>1, <3>2
  <2> QED BY <2>0, <2>2, <2>3, <2>4, <2>5, <2>6, OthersDo

<1>CallWindows.
  ASSUME TriggerInv, Windows, NEW op, NEW h \in Mine, NEW action, NEW t \in Nat,
         CallDoes(op, h, action, t)
  PROVE  Windows'
  <2> USE <1>CallWindows
  <2>0. TypeOK /\ h.job \in JobIds /\ h.worker = Daemon BY MineFields DEF TriggerInv, LeaseInv
  <2>1. CASE job' = job BY <2>1 DEF Windows
  <2>2. CASE Heartbeat(h, DaemonLease, t)
    <3>1. job[h.job].state = "leased" /\ job[h.job].owner = Daemon
      BY <2>0, <2>2 DEF Heartbeat, RequireActiveLease, RequireLeaseIdentity
    <3>2. job[h.job].expires <= job[h.job].heartbeat + DaemonLease BY <2>0, <3>1 DEF Windows
    <3> QED BY <2>2, <3>2, RenewalRow DEF Windows
  <2>3. CASE /\ job'[h.job].state \in {"succeeded", "queued", "dead-letter", "failed"}
             /\ \A k \in JobIds \ {h.job} : job'[k] = job[k]
    BY <2>3 DEF Windows
  <2> QED BY <2>0, <2>1, <2>2, <2>3, CallRows

<1>ClaimWindows.
  ASSUME TriggerInv, Windows, NEW t \in ClockReadings, NEW j \in JobIds,
         ClaimJob(Daemon, j, DaemonLease, t)
  PROVE  Windows'
  <2> USE <1>ClaimWindows
  <2>0. TypeOK /\ LeaseInv BY DEF TriggerInv, LeaseInv
  <2>1. DaemonLease \in Nat /\ t \in Nat /\ Daemon \in Workers /\ MaxLease \in Nat
    BY <2>0, Readings, WorkerDaemonAssumption, ControlPlaneAssumption
  <2>2. job'[j].heartbeat = t /\ job'[j].expires = Least(t + DaemonLease, t + MaxLease)
    BY <2>0, <2>1, ClaimedRow
  <2>3. \A k \in JobIds \ {j} : job'[k] = job[k] BY <2>0, <2>1, ClaimMoves
  <2>4. Least(t + DaemonLease, t + MaxLease) <= t + DaemonLease BY <2>1, SMT DEF Least
  <2> QED BY <2>2, <2>3, <2>4 DEF Windows

<1>0. TypeOK BY DEF TriggerInv, LeaseInv
<1>1. CASE UNCHANGED vars BY <1>1 DEF vars, Windows
<1>2. CASE Elsewhere BY <1>2, <1>ElsewhereWindows
<1>3. ASSUME NEW t \in ClockReadings, NEW c \in Channels \ {"claim"}, wire[c].st = "request",
             CallDoes(c, d.grant, d.action, t)
      PROVE  Windows'
  BY <1>0, <1>3, CallerHasLease, Readings, <1>CallWindows
<1>4. ASSUME NEW t \in ClockReadings, NEW m \in late, m.op # "claim",
             CallDoes(m.op, m.grant, m.action, t)
      PROVE  Windows'
  BY <1>0, <1>4, Readings, <1>CallWindows DEF LateIsPast
<1> QED BY <1>1, <1>2, <1>3, <1>4, <1>ClaimWindows DEF ServerDoes

(* A fence, once written, stays: its Job has ended. *)
LEMMA ServerFences ==
  ASSUME TriggerInv, Step, Fenced
  PROVE  Fenced' /\ \A j \in JobIds : fence[j] # 0 => fence'[j] = fence[j]
<1>WorkersFenceNothing.
  ASSUME WorkerCases
  PROVE  fence' = fence
  <2> USE <1>WorkersFenceNothing
  <2>1. ASSUME NEW g \in grants, NEW t \in Nat, NEW n \in Nat \ {0}, Heartbeat(g, n, t)
        PROVE  fence' = fence
    BY <2>1 DEF Heartbeat
  <2>2. ASSUME NEW g \in grants, NEW t \in Nat, NEW result \in Results, NEW b \in BOOLEAN,
               CompleteJob(g, result, b, t)
        PROVE  fence' = fence
    BY <2>2 DEF CompleteJob
  <2>3. ASSUME NEW g \in grants, NEW result \in Results, CompletionRetry(g, result) PROVE fence' = fence
    BY <2>3 DEF CompletionRetry
  <2>4. ASSUME NEW g \in grants, NEW t \in Nat, NEW retryable \in BOOLEAN, FailJob(g, retryable, t)
        PROVE  fence' = fence
    BY <2>4 DEF FailJob
  <2>5. ASSUME NEW g \in grants, NEW t \in Nat, NEW expires \in Nat, CreateCheckpoint(g, expires, t)
        PROVE  fence' = fence
    BY <2>5 DEF CreateCheckpoint
  <2> QED BY <2>1, <2>2, <2>3, <2>4, <2>5 DEF WorkerCases

(* A fence is written when a leased Job is cancelled, and at no other time. *)
<1>FenceMoves.
  ASSUME LeaseInv, StepCases, NEW j \in JobIds, fence'[j] # fence[j]
  PROVE  job[j].state = "leased" /\ job'[j].state = "cancelled"
  <2> USE <1>FenceMoves
  <2>1. CASE WorkerCases BY <2>1, <1>WorkersFenceNothing
  <2>2. CASE ApprovalCases BY <2>2, ApprovalsQuiet
  <2>3. CASE Tick BY <2>3 DEF Tick
  <2>4. ASSUME NEW r \in Runs, CancelRun(r) PROVE job[j].state = "leased" /\ job'[j].state = "cancelled"
    <3>1. job[j].run = r /\ Active(j) /\ job[j].state = "leased" BY <2>4 DEF CancelRun
    <3>2. job[j] \in JobRecord /\ job'[j] = CancelledJob(job[j])
      BY <2>4, <3>1 DEF CancelRun, LeaseInv, TypeOK
    <3> QED BY <3>1, <3>2, CancelledRow DEF EndsAs
  <2>5. CASE \E readAt \in Nat : ExpireDueApprovals(readAt) BY <2>5 DEF ExpireDueApprovals
  <2>6. CASE \E r \in Runs, i \in JobIds, m \in Nat \ {0}, t \in Nat \ {0} : SubmitRun(r, i, m, t)
    BY <2>6 DEF SubmitRun
  <2>7. ASSUME NEW S \in LeasedBatches, NEW t \in Nat, ExpireLeases(S, t) PROVE FALSE
    <3>1. j \in S /\ run[job[j].run].state = "cancelled" BY <2>7 DEF ExpireLeases
    <3>2. job[j].state = "leased" BY <3>1 DEF LeasedBatches
    <3> QED BY <3>1, <3>2 DEF LeaseInv, RowsAgree, JobMatchesRun
  <2>8. CASE \E w \in Workers, i \in JobIds, n \in Nat \ {0}, t \in Nat \ {0} : ClaimJob(w, i, n, t)
    BY <2>8 DEF ClaimJob
  <2> QED BY <2>1, <2>2, <2>3, <2>4, <2>5, <2>6, <2>7, <2>8 DEF StepCases

<1>0. LeaseInv BY DEF TriggerInv
<1>1. CASE UNCHANGED vars BY <1>1 DEF vars, Fenced
<1>2. CASE StepCases
  <2>1. ASSUME NEW j \in JobIds, fence[j] # 0 PROVE fence'[j] = fence[j] /\ job'[j] = job[j]
    <3>1. job[j].state \notin {"absent", "queued", "leased"} BY <2>1 DEF Fenced
    <3> QED BY <1>0, <1>2, <3>1, <1>FenceMoves, EndedStays
  <2>2. ASSUME NEW j \in JobIds, fence'[j] # 0
        PROVE  job'[j].state \notin {"absent", "queued", "leased"}
    <3>1. CASE fence[j] # 0 BY <2>1, <3>1 DEF Fenced
    <3>2. CASE fence[j] = 0
      <4>1. job'[j].state = "cancelled" BY <1>0, <1>2, <2>2, <3>2, <1>FenceMoves
      <4> QED BY <4>1
    <3> QED BY <3>1, <3>2
  <2> QED BY <2>1, <2>2 DEF Fenced
<1> QED BY <1>1, <1>2 DEF Step

(* The server draws no empty token and forgets no grant and no effect. *)
LEMMA ServerTokens ==
  ASSUME TriggerInv, Step, Tokens
  PROVE  Tokens' /\ grants \subseteq grants' /\ effects \subseteq effects' /\ Mine \subseteq Mine'
<1>0. LeaseInv BY DEF TriggerInv
<1>1. grants \subseteq grants' /\ effects \subseteq effects' BY HistoryGrows DEF Step, vars
<1>2. ASSUME NEW w \in Workers, NEW j \in JobIds, NEW n \in Nat \ {0}, NEW t \in Nat \ {0},
             ClaimJob(w, j, n, t)
      PROVE  Tokens'
  <2> DEFINE g0 == [job |-> j, token |-> job[j].attempts + 1, worker |-> w, at |-> t]
  <2>1. grants' = grants \cup {g0} /\ job[j].attempts \in Nat BY <1>0, <1>2, ClaimMoves
  <2>2. g0.token = job[j].attempts + 1 OBVIOUS
  <2>3. g0.token # 0
    <3> HIDE DEF g0
    <3> QED BY <2>1, <2>2, SMT
  <2> QED BY <2>1, <2>3 DEF Tokens
<1>3. ASSUME grants' = grants PROVE Tokens' BY <1>3 DEF Tokens
<1>4. Tokens' BY <1>2, <1>3, HistoryGrows DEF Step, vars
<1> QED BY <1>1, <1>4 DEF Mine

(* What was committed stays committed. *)
LEMMA CommittedStays ==
  ASSUME effects \subseteq effects', NEW g, NEW action, Committed(g, action)
  PROVE  Committed(g, action)'
BY DEF Committed

(* A finalization that succeeds has its effect, also when it repeats one that *)
(* was committed before.                                                      *)
LEMMA FinalizedIsCommitted ==
  ASSUME TypeOK, Backings, NEW g \in Mine, NEW action \in Actions, NEW t \in Nat,
         ServeFinalize(g, action, "ok", t)
  PROVE  Committed(g, action)'
<1>0. g.job \in JobIds BY MineFields
<1>1. ASSUME NEW kind, kind = IF action = "retry" THEN "fail" ELSE action, RecordEffect(g, kind, t)
      PROVE  Committed(g, action)'
  <2> DEFINE e0 == [job |-> g.job, token |-> g.token, kind |-> kind, at |-> t]
  <2>1. e0 \in effects' BY <1>1 DEF RecordEffect
  <2>2. e0.job = g.job /\ e0.token = g.token /\ e0.kind = kind OBVIOUS
  <2> QED BY <1>1, <2>1, <2>2 DEF Committed
<1>2. CASE action = "complete" /\ CompleteJob(g, Outcome, FALSE, t)
  <2>1. RecordEffect(g, "complete", t) BY <1>2 DEF CompleteJob
  <2> QED BY <1>1, <1>2, <2>1
<1>3. CASE action = "complete" /\ CompletionRetry(g, Outcome)
  <2>1. /\ job[g.job].token = g.token /\ job[g.job].state = "succeeded"
        /\ job[g.job].result = Outcome /\ effects' = effects
    BY <1>3 DEF CompletionRetry, RequireLeaseIdentity
  <2>2. Outcome # "checkpoint" BY WorkerDaemonAssumption, ControlPlaneAssumption
  <2>3. PICK e \in effects : e.job = g.job /\ e.token = g.token /\ e.kind = "complete"
    BY <1>0, <2>1, <2>2 DEF Backings, Backed
  <2>4. Committed(g, "complete") BY <2>3 DEF Committed
  <2> QED BY <1>3, <2>1, <2>4, CommittedStays
<1>4. ASSUME NEW retryable \in BOOLEAN, action \in {"retry", "fail"}, FailJob(g, retryable, t)
      PROVE  Committed(g, action)'
  <2>1. RecordEffect(g, "fail", t) BY <1>4 DEF FailJob
  <2> QED BY <1>1, <1>4, <2>1
<1>5. CASE action = "checkpoint" /\ CreateCheckpoint(g, Horizon, t)
  <2>1. RecordEffect(g, "checkpoint", t) BY <1>5 DEF CreateCheckpoint
  <2> QED BY <1>1, <1>5, <2>1
<1> QED BY <1>2, <1>3, <1>4, <1>5, ActionCases

-----------------------------------------------------------------------------
(* A step of the server: the daemon stands still, calls are answered. *)

WireServed ==
  \A c \in Channels : wire'[c] = wire[c] \/ (wire[c].st = "request" /\ wire'[c].st = "reply")

(* The server leaves calls with the phases that wait for them. *)
LEMMA ServerShape ==
  ASSUME Shape, d' = d, Mine \subseteq Mine', WireServed
  PROVE  Shape'
<1>1. ASSUME NEW c \in Channels, wire'[c].st # "none" PROVE wire[c].st # "none"
  BY <1>1 DEF WireServed
<1>2. ASSUME NEW c \in Channels, wire'[c].st = "request" PROVE wire'[c] = wire[c]
  BY <1>2 DEF WireServed
<1> QED BY <1>1, <1>2 DEF Shape, Locals

(* The server sends no forgotten request. *)
LEMMA ServerLate ==
  ASSUME LateIsPast, d' = d, Mine \subseteq Mine', late' \subseteq late
  PROVE  LateIsPast'
BY DEF LateIsPast

(* The server keeps its answers true. *)
LEMMA ServerAnswers ==
  ASSUME TriggerInv, Step, Tokens, Answers, d' = d, handled' = handled,
         \/ wire'["finalize"] = wire["finalize"]
         \/ wire'["finalize"].verdict = "ok" => Committed(d.grant, d.action)'
  PROVE  Answers'
<1>ServerBackings.
  ASSUME TriggerInv, Step, Backings
  PROVE  Backings'
  <2> USE <1>ServerBackings
  <2>1. CASE UNCHANGED vars BY <2>1 DEF vars, Backings, Backed
  <2>2. CASE StepCases BY <2>2, SuccessIsBacked DEF Backings
  <2> QED BY <2>1, <2>2 DEF Step

<1>1. effects \subseteq effects' BY ServerTokens
<1>2. Backings' BY <1>ServerBackings DEF Answers
<1>3. HandledIsCommitted' BY <1>1 DEF Answers, HandledIsCommitted
<1>4. ASSUME wire'["finalize"].st = "reply", wire'["finalize"].verdict = "ok"
      PROVE  Committed(d.grant, d.action)'
  <2>1. CASE wire'["finalize"] = wire["finalize"]
    BY <1>1, <1>4, <2>1 DEF Answers, Committed
  <2> QED BY <1>4, <2>1
<1> QED BY <1>2, <1>3, <1>4 DEF Answers

(* What is recorded of a stop is still true, or was just recorded. *)
LEMMA ServerStops ==
  ASSUME TriggerInv, Step, DaemonTypeOK, Stops, d' = d,
         \A j \in JobIds :
           \/ observed'[j] = observed[j]
           \/ /\ UNCHANGED vars
              /\ observed'[j].token = fence[j] /\ fence[j] # 0
              /\ observed'[j].cleanup = "drained" =>
                   ~(d.exec /\ d.grant.job = j /\ d.grant.token = observed'[j].token)
  PROVE  Stops'
<1>1. Fenced' /\ Tokens' /\ \A j \in JobIds : fence[j] # 0 => fence'[j] = fence[j]
  BY ServerFences, ServerTokens DEF Stops
<1>2. ASSUME NEW j \in JobIds, observed'[j] # NoReport
      PROVE  /\ observed'[j].token = fence'[j] /\ fence'[j] # 0
             /\ observed'[j].cleanup = "drained" =>
                  ~(d'.exec /\ d'.grant.job = j /\ d'.grant.token = observed'[j].token)
  <2>1. CASE observed'[j] = observed[j]
    <3>1. /\ observed[j].token = fence[j] /\ fence[j] # 0
          /\ observed[j].cleanup = "drained" =>
               ~(d.exec /\ d.grant.job = j /\ d.grant.token = observed[j].token)
      BY <1>2, <2>1 DEF Stops, StopReportIsTrue
    <3> QED BY <1>1, <2>1, <3>1
  <2>2. CASE observed'[j] # observed[j] BY <2>2 DEF vars
  <2> QED BY <2>1, <2>2
<1> QED BY <1>1, <1>2 DEF Stops, StopReportIsTrue, NoReport

(* The server keeps every lease the daemon counts on. *)
LEMMA ServerDeadlines ==
  ASSUME TriggerInv, TypeOK', DaemonTypeOK, Shape, LateIsPast, Deadlines, ServerDoes, d' = d,
         now <= now',
         \/ wire'["heartbeat"] = wire["heartbeat"]
         \/ /\ wire'["heartbeat"].st = "reply"
            /\ d.phase = "executing" /\ wire'["heartbeat"].verdict = "ok" =>
                 Safe(d.grant, d.hbStart + Least(wire["heartbeat"].window, DaemonLease))'
  PROVE  Deadlines'
<1>0. TypeOK /\ DaemonLease \in Nat /\ d \in CycleRecord /\ wire["heartbeat"] \in CallRecord
  BY WorkerDaemonAssumption, ControlPlaneAssumption
     DEF TriggerInv, LeaseInv, DaemonTypeOK, Channels
<1>1. Windows' BY ServerWindows DEF Deadlines
<1>2. ASSUME d.phase = "executing", NEW dl \in Nat, Safe(d.grant, dl)
      PROVE  \A g : g = d.grant => Safe(g, dl)'
  <2>1. d.grant \in Mine BY <1>2 DEF Shape, Locals, HasLease
  <2> QED BY <1>2, <2>1, ServerSafe DEF Deadlines
<1>3. ASSUME d'.phase = "executing", d'.renewed PROVE Safe(d.grant, d.deadline)'
  <2>1. d.deadline \in Nat /\ Safe(d.grant, d.deadline)
    BY <1>0, <1>3 DEF Deadlines, CycleRecord
  <2> QED BY <1>2, <1>3, <2>1 DEF Safe
<1>4. ASSUME wire'["heartbeat"].st = "request" PROVE d'.hbStart <= now'
  <2>1. wire["heartbeat"].st = "request" BY <1>4
  <2>2. d.hbStart <= now /\ d.hbStart \in Nat /\ now \in Nat /\ now' \in Nat
    BY <1>0, <2>1 DEF Deadlines, CycleRecord, TypeOK
  <2>3. \A a, b, c \in Nat : a <= b /\ b <= c => a <= c BY SMT
  <2> QED BY <2>2, <2>3
<1>5. ASSUME d'.phase = "executing", wire'["heartbeat"].st = "reply", wire'["heartbeat"].verdict = "ok"
      PROVE  Safe(d.grant, d.hbStart + Least(wire["heartbeat"].window, DaemonLease))'
  <2>1. CASE wire'["heartbeat"] = wire["heartbeat"]
    <3> DEFINE dl == d.hbStart + Least(wire["heartbeat"].window, DaemonLease)
    <3>1. d.hbStart \in Nat /\ wire["heartbeat"].window \in Nat
      BY <1>0 DEF CycleRecord, CallRecord
    <3>2. dl \in Nat BY <1>0, <3>1, SMT DEF Least
    <3>3. Safe(d.grant, dl) BY <1>5, <2>1 DEF Deadlines
    <3>4. dl' = dl BY <2>1
    <3>5. \A g : g = d.grant => Safe(g, dl)'
      <4> HIDE DEF dl
      <4>1. ASSUME NEW n \in Nat, n = dl PROVE \A g : g = d.grant => Safe(g, n)'
        BY <1>2, <1>5, <3>3, <4>1
      <4> QED BY <3>2, <3>4, <4>1 DEF Safe
    <3> HIDE DEF dl
    <3>6. Safe(d.grant, dl)' BY <3>5 DEF Safe
    <3> QED BY <3>6, SMT DEF dl
  <2> QED BY <1>5, <2>1
<1> QED BY <1>1, <1>3, <1>4, <1>5 DEF Deadlines

(* What every move of the server is and keeps. *)
LEMMA ServerBase ==
  ASSUME DaemonInv, ServerDoes
  PROVE  /\ Step /\ TypeOK /\ TypeOK' /\ TriggerInv' /\ Mine \subseteq Mine' /\ now <= now'
         /\ TriggerInv /\ DaemonTypeOK /\ Shape /\ LateIsPast /\ Fresh /\ Answers /\ Stops
         /\ Deadlines /\ Tokens

<1>CallIsStep.
  ASSUME NEW op, NEW g \in grants, NEW action, NEW t \in Nat, CallDoes(op, g, action, t)
  PROVE  Step
  <2> USE <1>CallIsStep
  <2>1. DaemonLease \in Nat \ {0} /\ Horizon \in Nat /\ Outcome \in Results
    BY WorkerDaemonAssumption, ControlPlaneAssumption
  <2>2. CASE UNCHANGED vars BY <2>2 DEF Step
  <2>3. ASSUME WorkerCases PROVE Step BY <2>3 DEF Step, StepCases
  <2>4. CASE Heartbeat(g, DaemonLease, t) BY <2>1, <2>3, <2>4 DEF WorkerCases
  <2>5. CASE CompleteJob(g, Outcome, FALSE, t) BY <2>1, <2>3, <2>5 DEF WorkerCases
  <2>6. CASE CompletionRetry(g, Outcome) BY <2>1, <2>3, <2>6 DEF WorkerCases
  <2>7. CASE \E retryable \in BOOLEAN : FailJob(g, retryable, t) BY <2>3, <2>7 DEF WorkerCases
  <2>8. CASE CreateCheckpoint(g, Horizon, t) BY <2>1, <2>3, <2>8 DEF WorkerCases
  <2> QED BY <2>2, <2>4, <2>5, <2>6, <2>7, <2>8 DEF CallDoes

<1>ServerIsStep.
  ASSUME TypeOK, Shape, LateIsPast, ServerDoes
  PROVE  Step
  <2> USE <1>ServerIsStep
  <2>1. ASSUME NEW w \in Workers, NEW j \in JobIds, NEW n \in LeaseSeconds, NEW t \in ClockReadings,
               ClaimJob(w, j, n, t)
        PROVE  Step
    <3>1. n \in Nat \ {0} /\ t \in Nat \ {0} BY ControlPlaneAssumption, Readings
    <3> QED BY <2>1, <3>1 DEF Step, StepCases
  <2>2. CASE Elsewhere
    <3>1. ASSUME NEW t \in ClockReadings, Submit(t) \/ SweepLeases(t) \/ Tick \/ \E r \in Runs : CancelRun(r)
          PROVE  Step
      <4>1. Next BY <3>1 DEF Next
      <4> QED BY <4>1, NextCases DEF Step
    <3>2. CASE Tick \/ \E r \in Runs : CancelRun(r) BY <3>2 DEF Step, StepCases
    <3> QED BY <2>1, <2>2, <3>1, <3>2 DEF Elsewhere
  <2>3. ASSUME NEW t \in ClockReadings, NEW c \in Channels \ {"claim"}, wire[c].st = "request",
               CallDoes(c, d.grant, d.action, t)
        PROVE  Step
    <3>1. d.grant \in grants BY <2>3, CallerHasLease DEF Mine
    <3> QED BY <2>3, <3>1, <1>CallIsStep, Readings
  <2>4. ASSUME NEW t \in ClockReadings, NEW m \in late, m.op # "claim",
               CallDoes(m.op, m.grant, m.action, t)
        PROVE  Step
    <3>1. m.grant \in grants BY <2>4 DEF LateIsPast, Mine
    <3> QED BY <2>4, <3>1, <1>CallIsStep, Readings
  <2> QED BY <2>1, <2>2, <2>3, <2>4, WorkerDaemonAssumption DEF ServerDoes, Step

<1>ClockMoves.
  ASSUME TypeOK, Shape, LateIsPast, ServerDoes
  PROVE  now <= now'
  <2> USE <1>ClockMoves
  <2>0. now' = now => now <= now' BY SameClock
  <2>1. CASE UNCHANGED vars BY <2>0, <2>1 DEF vars
  <2>2. CASE Elsewhere
    <3>1. CASE Tick BY <3>1, SMT DEF Tick, TypeOK
    <3>2. ASSUME NEW r \in Runs, CancelRun(r) PROVE now' = now BY <3>2 DEF CancelRun
    <3>3. ASSUME NEW r \in Runs, NEW j \in JobIds, NEW m \in Nat \ {0}, NEW t \in Nat \ {0},
                 SubmitRun(r, j, m, t)
          PROVE  now' = now
      BY <3>3 DEF SubmitRun
    <3>4. ASSUME NEW readAt \in 1..now, NEW S \in SweepBatches(readAt), NEW t \in Nat \ {0},
                 ExpireLeases(S, t)
          PROVE  now' = now
      BY <3>4 DEF ExpireLeases
    <3>5. ASSUME NEW w \in Workers \ {Daemon}, NEW j \in JobIds, NEW n \in Nat \ {0},
                 NEW t \in Nat \ {0}, ClaimJob(w, j, n, t)
          PROVE  now' = now
      BY <3>5 DEF ClaimJob
    <3> QED BY <2>0, <2>2, <3>1, <3>2, <3>3, <3>4, <3>5, OthersDo
  <2>3. ASSUME NEW t \in ClockReadings, NEW j \in JobIds, ClaimJob(Daemon, j, DaemonLease, t)
        PROVE  now' = now
    BY <2>3 DEF ClaimJob
  <2>4. ASSUME NEW op, NEW h \in Mine, NEW action, NEW t \in ClockReadings, CallDoes(op, h, action, t)
        PROVE  now' = now
    <3>1. t \in Nat BY Readings
    <3>2. CASE Heartbeat(h, DaemonLease, t) BY <3>2 DEF Heartbeat
    <3> QED BY <2>4, <3>1, <3>2, CallRows
  <2>5. ASSUME NEW t \in ClockReadings, NEW c \in Channels \ {"claim"}, wire[c].st = "request",
               CallDoes(c, d.grant, d.action, t)
        PROVE  now' = now
    BY <2>4, <2>5, CallerHasLease
  <2>6. ASSUME NEW t \in ClockReadings, NEW m \in late, m.op # "claim",
               CallDoes(m.op, m.grant, m.action, t)
        PROVE  now' = now
    BY <2>4, <2>6 DEF LateIsPast
  <2> QED BY <2>0, <2>1, <2>2, <2>3, <2>5, <2>6 DEF ServerDoes

<1>1. /\ TypeOK /\ TriggerInv /\ DaemonTypeOK /\ Shape /\ LateIsPast /\ Fresh /\ Answers /\ Stops
      /\ Deadlines /\ Tokens
  BY DEF DaemonInv, TriggerInv, LeaseInv, Stops
<1>2. Step BY <1>1, <1>ServerIsStep
<1>3. TriggerInv' BY <1>1, <1>2, StepTriggerInv
<1>4. TypeOK' BY <1>3 DEF TriggerInv, LeaseInv
<1>5. Mine \subseteq Mine' BY <1>1, <1>2, ServerTokens
<1>6. now <= now' BY <1>1, <1>ClockMoves
<1> QED BY <1>1, <1>2, <1>3, <1>4, <1>5, <1>6

(* Transactions of other Workers, approvers and sweepers keep the invariant. *)
LEMMA ElsewhereInv ==
  ASSUME DaemonInv, Elsewhere
  PROVE  DaemonInv'
<1>0. ServerDoes BY DEF ServerDoes
<1>1. d' = d /\ wire' = wire /\ late' = late /\ handled' = handled /\ observed' = observed
  BY DEF Elsewhere, dvars
<1>2. DaemonTypeOK' BY <1>1 DEF DaemonInv, DaemonTypeOK
<1>3. Shape' BY <1>0, <1>1, ServerBase, ServerShape DEF WireServed
<1>4. LateIsPast' BY <1>0, <1>1, ServerBase, ServerLate
<1>5. Fresh' BY <1>0, <1>1, ServerBase DEF Fresh
<1>6. Answers' BY <1>0, <1>1, ServerBase, ServerAnswers
<1>7. Stops' BY <1>0, <1>1, ServerBase, ServerStops
<1>8. Deadlines' BY <1>0, <1>1, ServerBase, ServerDeadlines
<1> QED BY <1>0, <1>2, <1>3, <1>4, <1>5, <1>6, <1>7, <1>8, ServerBase DEF DaemonInv

(* What a call writes about the stop of the lease g. *)
Observes(op, g, cleanup) ==
  /\ observed' \in [JobIds -> ReportRecord]
  /\ \A j \in JobIds :
       \/ observed'[j] = observed[j]
       \/ /\ op = "report" /\ UNCHANGED vars /\ j = g.job /\ fence[j] = g.token
          /\ observed'[j].token = g.token /\ observed'[j].cleanup = cleanup

(* A stop report records the fenced lease it names, and no other call *)
(* records one.                                                       *)
LEMMA HandleObserves ==
  ASSUME DaemonTypeOK, TypeOK, NEW op, NEW g \in Mine, NEW action, NEW cleanup \in Cleanups,
         NEW verdict, NEW window, NEW t, Handle(op, g, action, cleanup, verdict, window, t)
  PROVE  Observes(op, g, cleanup)
<1>0. observed \in [JobIds -> ReportRecord] /\ g.job \in JobIds /\ g.token \in Nat
  BY MineFields DEF DaemonTypeOK
<1>1. CASE observed' = observed BY <1>0, <1>1 DEF Observes
<1>2. CASE op = "report" /\ RecordStop(g, cleanup, verdict)
  <2> DEFINE proposed == [token |-> g.token, cleanup |-> cleanup]
  <2>1. UNCHANGED vars BY <1>2 DEF RecordStop
  <2>2. CASE fence[g.job] = g.token /\ observed' = [observed EXCEPT ![g.job] = proposed]
    <3>1. proposed \in ReportRecord BY <1>0 DEF ReportRecord
    <3>2. proposed.token = g.token /\ proposed.cleanup = cleanup OBVIOUS
    <3> HIDE DEF proposed
    <3>3. observed' \in [JobIds -> ReportRecord] BY <1>0, <2>2, <3>1
    <3>4. observed'[g.job] = proposed /\ \A j \in JobIds \ {g.job} : observed'[j] = observed[j]
      BY <1>0, <2>2
    <3> QED BY <1>2, <2>1, <2>2, <3>2, <3>3, <3>4 DEF Observes
  <2> QED BY <1>1, <1>2, <2>2 DEF RecordStop
<1> QED BY <1>1, <1>2 DEF Handle

(* Serving a forgotten request keeps the invariant. *)
LEMMA ServeLateInv ==
  ASSUME DaemonInv, NEW t \in ClockReadings, NEW m \in late, ServeLate(m, t)
  PROVE  DaemonInv'
<1>0. /\ TypeOK /\ TriggerInv /\ DaemonTypeOK /\ Shape /\ LateIsPast /\ Fresh /\ Answers /\ Stops
      /\ Deadlines /\ Tokens
  BY DEF DaemonInv, TriggerInv, LeaseInv, Stops
<1>1. ServerDoes BY <1>0, LateDoes DEF ServerDoes
<1>2. d' = d /\ wire' = wire /\ handled' = handled /\ late' \subseteq late
  BY DEF ServeLate
<1>3. Observes(m.op, m.grant, m.cleanup)
  <2>1. CASE m.op = "claim"
    BY <1>0, <2>1 DEF ServeLate, DaemonTypeOK, Observes
  <2>2. CASE m.op # "claim"
    <3>1. m.grant \in Mine /\ m.cleanup \in Cleanups
      BY <1>0, <2>2 DEF LateIsPast, DaemonTypeOK, RequestRecord
    <3>2. PICK verdict \in Verdicts, window \in 0..DaemonLease :
            Handle(m.op, m.grant, m.action, m.cleanup, verdict, window, t)
      BY <2>2 DEF ServeLate
    <3>3. TypeOK /\ DaemonTypeOK BY <1>0
    <3> QED BY <3>1, <3>2, <3>3, HandleObserves
  <2> QED BY <2>1, <2>2
<1>4. DaemonTypeOK' BY <1>0, <1>2, <1>3 DEF DaemonTypeOK, Observes
<1>5. Shape' BY <1>1, <1>2, ServerBase, ServerShape DEF WireServed
<1>6. LateIsPast' BY <1>1, <1>2, ServerBase, ServerLate
<1>7. Fresh'
  <2> DEFINE g == wire["claim"].grant
  <2> SUFFICES ASSUME wire["claim"].st = "reply", wire["claim"].verdict = "ok"
               PROVE  g \in Mine' /\ (\A n \in late' : ~Same(n.grant, g))
                      /\ observed'[g.job].token # g.token
    BY <1>2 DEF Fresh
  <2>1. g \in Mine /\ (\A n \in late : ~Same(n.grant, g)) /\ observed[g.job].token # g.token
    BY <1>0 DEF Fresh
  <2>2. g.job \in JobIds /\ g \in Mine' BY <1>0, <1>1, <2>1, MineFields, ServerBase
  <2>3. observed'[g.job].token # g.token BY <1>3, <2>1, <2>2 DEF Same, Observes
  <2> QED BY <1>2, <2>1, <2>2, <2>3
<1>8. Answers' BY <1>1, <1>2, ServerBase, ServerAnswers
<1>9. Stops'
  <2>1. ASSUME NEW j \in JobIds, observed'[j] # observed[j]
        PROVE  /\ UNCHANGED vars
               /\ observed'[j].token = fence[j] /\ fence[j] # 0
               /\ observed'[j].cleanup = "drained" =>
                    ~(d.exec /\ d.grant.job = j /\ d.grant.token = observed'[j].token)
    <3>1. /\ m.op = "report" /\ UNCHANGED vars /\ j = m.grant.job /\ fence[j] = m.grant.token
          /\ observed'[j].token = m.grant.token /\ observed'[j].cleanup = m.cleanup
      BY <1>3, <2>1 DEF Observes
    <3>2. m.grant \in grants BY <1>0, <3>1 DEF LateIsPast, Mine
    <3>3. m.grant.token # 0 BY <1>0, <3>2 DEF Tokens
    <3>4. m.cleanup = "drained" => ~(d.exec /\ Same(m.grant, d.grant))
      BY <1>0, <3>1 DEF LateIsPast
    <3> QED BY <3>1, <3>3, <3>4 DEF Same
  <2> QED BY <1>1, <1>2, <2>1, ServerBase, ServerStops
<1>10. Deadlines' BY <1>1, <1>2, ServerBase, ServerDeadlines
<1> QED BY <1>1, <1>4, <1>5, <1>6, <1>7, <1>8, <1>9, <1>10, ServerBase DEF DaemonInv

(* A renewal that is on its way back: whatever start of the call the daemon   *)
(* wrote down, the lease is safe for the window counted from it.              *)
LEMMA RenewedSafe ==
  ASSUME TriggerInv, TypeOK', Windows, NEW g \in Mine, NEW t \in ClockReadings, NEW start \in Nat,
         start <= now, Heartbeat(g, DaemonLease, t), NEW window \in Nat,
         window = job'[g.job].expires - job'[g.job].heartbeat
  PROVE  Safe(g, start + Least(window, DaemonLease))'
<1>0. /\ TypeOK /\ LeaseInv /\ g.job \in JobIds /\ g \in grants /\ g.worker = Daemon
      /\ g.token \in Nat
  BY MineFields DEF TriggerInv, LeaseInv
<1>1. /\ t \in Nat /\ now <= t + Skew /\ Skew \in Nat /\ now \in Nat /\ DaemonLease \in Nat
  BY <1>0, Readings, WorkerDaemonAssumption, ControlPlaneAssumption DEF TypeOK
<1>2. job[g.job].owner = Daemon /\ job[g.job].state = "leased"
  BY <1>0 DEF Heartbeat, RequireActiveLease, RequireLeaseIdentity
<1>3. job[g.job].expires <= job[g.job].heartbeat + DaemonLease BY <1>0, <1>2 DEF Windows
<1>4. /\ job[g.job].token = g.token /\ job'[g.job].state = "leased" /\ t <= job'[g.job].heartbeat
      /\ job'[g.job].heartbeat \in Nat /\ job'[g.job].expires \in Nat
  BY <1>1, <1>3, RenewalRow
<1>5. \A h \in grants : h.job = g.job => h.token <= g.token
  BY <1>0, <1>2, <1>4 DEF LeaseInv, LeasesInOrder
<1>6. grants' = grants BY DEF Heartbeat
<1> DEFINE dl == start + Least(window, DaemonLease)
<1>7. dl \in Nat /\ dl <= start + window BY <1>1, SMT DEF Least
<1>8. job'[g.job].heartbeat + window = job'[g.job].expires BY <1>4, SMT
<1> HIDE DEF dl
<1>9. dl <= job'[g.job].expires + Skew BY <1>1, <1>4, <1>7, <1>8, SMTT(30)
<1>10. Safe(g, dl)'
  <2>1. ASSUME NEW n \in Nat, n = dl PROVE Safe(g, n)'
    BY <1>4, <1>5, <1>6, <1>9, <2>1 DEF Safe
  <2> QED BY <1>7, <2>1 DEF Safe, dl
<1> QED BY <1>10, SMT DEF dl

(* Serving the daemon's outstanding call keeps the invariant. *)
LEMMA ServeInv ==
  ASSUME DaemonInv, NEW t \in ClockReadings, NEW c \in Channels, Serve(c, t)
  PROVE  DaemonInv'
<1>0. /\ TypeOK /\ TriggerInv /\ DaemonTypeOK /\ Shape /\ LateIsPast /\ Fresh /\ Answers /\ Stops
      /\ Deadlines /\ Tokens
  BY DEF DaemonInv, TriggerInv, LeaseInv, Stops
<1>1. c # "claim" /\ wire[c].st = "request" /\ CallDoes(c, d.grant, d.action, t)
  BY <1>0, ServeDoes
<1>2. ServerDoes BY <1>1 DEF ServerDoes
<1>3. d.grant \in Mine /\ (c = "finalize" => d.action \in Actions) BY <1>0, <1>1, CallerHasLease
<1>4. PICK verdict \in Verdicts, window \in 0..DaemonLease :
        /\ Handle(c, d.grant, d.action, d.cleanup, verdict, window, t)
        /\ wire' = [wire EXCEPT ![c] = [st |-> "reply", verdict |-> verdict,
                                        window |-> window, grant |-> d.grant]]
  BY DEF Serve
<1>5. d' = d /\ late' = late /\ handled' = handled BY DEF Serve
<1> DEFINE reply == [st |-> "reply", verdict |-> verdict, window |-> window, grant |-> d.grant]
<1>6. reply.st = "reply" /\ reply.verdict = verdict /\ reply.window = window OBVIOUS
<1>7. reply \in CallRecord
  <2>1. window \in Nat BY WorkerDaemonAssumption, ControlPlaneAssumption, SMT
  <2>2. d.grant \in Grant BY <1>0, <1>3 DEF Mine, TypeOK
  <2> QED BY <2>1, <2>2 DEF CallRecord
<1> HIDE DEF reply
<1>8. wire \in [Channels -> CallRecord] /\ wire' = [wire EXCEPT ![c] = reply]
  BY <1>0, <1>4 DEF DaemonTypeOK, reply
<1>9. /\ wire' \in [Channels -> CallRecord] /\ wire'[c] = reply
      /\ \A x \in Channels \ {c} : wire'[x] = wire[x]
  BY <1>7, <1>8
<1>10. WireServed BY <1>1, <1>6, <1>9 DEF WireServed
<1>11. d.cleanup \in Cleanups BY <1>0 DEF DaemonTypeOK, CycleRecord
<1>12. Observes(c, d.grant, d.cleanup)
  <2>1. TypeOK /\ DaemonTypeOK BY <1>0
  <2> QED BY <1>3, <1>4, <1>11, <2>1, HandleObserves
<1>13. d.phase \in WaitsFor(c) BY <1>0, <1>1 DEF Shape, Locals
<1>14. DaemonTypeOK' BY <1>0, <1>5, <1>9, <1>12 DEF DaemonTypeOK, Observes
<1>15. Shape' BY <1>2, <1>5, <1>10, ServerBase, ServerShape
<1>16. LateIsPast' BY <1>2, <1>5, ServerBase, ServerLate
<1>17. Fresh'
  <2>1. wire["claim"].st = "none"
    <3>1. c \in {"heartbeat", "finalize", "report"} BY <1>1 DEF Channels
    <3>2. d.phase # "claiming" BY <1>13, <3>1, Waits
    <3> QED BY <1>0, <3>2, Waits DEF Shape, Locals, Channels
  <2>2. wire'["claim"] = wire["claim"] BY <1>1, <1>9 DEF Channels
  <2> QED BY <2>1, <2>2 DEF Fresh
<1>18. Answers'
  <2>1. CASE c # "finalize"
    <3>1. wire'["finalize"] = wire["finalize"] BY <1>9, <2>1 DEF Channels
    <3> QED BY <1>2, <1>5, <3>1, ServerBase, ServerAnswers
  <2>2. CASE c = "finalize"
    <3>1. ASSUME wire'["finalize"].verdict = "ok" PROVE Committed(d.grant, d.action)'
      <4>1. verdict = "ok" BY <1>6, <1>9, <2>2, <3>1
      <4>2. ServeFinalize(d.grant, d.action, "ok", t) BY <1>4, <2>2, <4>1 DEF Handle
      <4>3. t \in Nat /\ Backings BY <1>0, Readings DEF Answers
      <4>4. ASSUME NEW g \in Mine, NEW action \in Actions, g = d.grant, action = d.action
            PROVE  Committed(g, action)'
        BY <1>0, <4>2, <4>3, <4>4, FinalizedIsCommitted
      <4> QED BY <1>3, <1>5, <2>2, <4>4 DEF Committed
    <3> QED BY <1>2, <1>5, <3>1, ServerBase, ServerAnswers
  <2> QED BY <2>1, <2>2
<1>19. Stops'
  <2>1. ASSUME NEW j \in JobIds, observed'[j] # observed[j]
        PROVE  /\ UNCHANGED vars
               /\ observed'[j].token = fence[j] /\ fence[j] # 0
               /\ observed'[j].cleanup = "drained" =>
                    ~(d.exec /\ d.grant.job = j /\ d.grant.token = observed'[j].token)
    <3>1. /\ c = "report" /\ UNCHANGED vars /\ j = d.grant.job /\ fence[j] = d.grant.token
          /\ observed'[j].token = d.grant.token /\ observed'[j].cleanup = d.cleanup
      BY <1>12, <2>1 DEF Observes
    <3>2. d.grant.token # 0 BY <1>0, <1>3 DEF Tokens, Mine
    <3>3. d.phase = "reporting" BY <1>13, <3>1, Waits
    <3>4. d.exec => d.cleanup = "incomplete" BY <1>0, <3>3 DEF Shape, Locals
    <3> QED BY <3>1, <3>2, <3>4
  <2> QED BY <1>2, <1>5, <2>1, ServerBase, ServerStops
<1>20. Deadlines'
  <2>1. CASE c # "heartbeat"
    <3>1. wire'["heartbeat"] = wire["heartbeat"] BY <1>9, <2>1 DEF Channels
    <3> QED BY <1>2, <1>5, <3>1, ServerBase, ServerDeadlines
  <2>2. CASE c = "heartbeat"
    <3>1. ASSUME wire'["heartbeat"].verdict = "ok"
          PROVE  Safe(d.grant, d.hbStart + Least(wire["heartbeat"].window, DaemonLease))'
      <4>1. verdict = "ok" /\ wire'["heartbeat"].window = window BY <1>6, <1>9, <2>2, <3>1
      <4>2. ServeHeartbeat(d.grant, "ok", window, t) BY <1>4, <2>2, <4>1 DEF Handle
      <4>3. /\ Heartbeat(d.grant, DaemonLease, t)
            /\ window = job'[d.grant.job].expires - job'[d.grant.job].heartbeat
        BY <4>2 DEF ServeHeartbeat, Refuses
      <4>4. window \in Nat BY WorkerDaemonAssumption, ControlPlaneAssumption, SMT
      <4>5. d.hbStart \in Nat /\ d.hbStart <= now /\ Windows
        BY <1>0, <1>1, <2>2 DEF DaemonTypeOK, CycleRecord, Deadlines
      <4>6. ASSUME NEW g \in Mine, NEW start \in Nat, g = d.grant, start = d.hbStart
            PROVE  Safe(g, start + Least(window, DaemonLease))'
        BY <1>2, <4>3, <4>4, <4>5, <4>6, ServerBase, RenewedSafe
      <4> QED BY <1>3, <1>5, <4>1, <4>5, <4>6 DEF Safe
    <3>2. wire'["heartbeat"].st = "reply" BY <1>6, <1>9, <2>2
    <3> QED BY <1>2, <1>5, <3>1, <3>2, ServerBase, ServerDeadlines
  <2> QED BY <2>1, <2>2
<1> QED BY <1>2, <1>14, <1>15, <1>16, <1>17, <1>18, <1>19, <1>20, ServerBase DEF DaemonInv

(* A lease that was just granted. *)
LEMMA GrantIsNew ==
  ASSUME DaemonInv, NEW t \in ClockReadings, NEW j \in JobIds, ClaimJob(Daemon, j, DaemonLease, t),
         NEW g \in grants' \ grants
  PROVE  /\ g \in Mine' /\ g \in Grant /\ observed[g.job].token # g.token
         /\ \A m \in late : ~Same(m.grant, g)
         /\ job'[g.job].expires - job'[g.job].heartbeat \in Nat
<1>0. /\ TypeOK /\ LeaseInv /\ DaemonTypeOK /\ LateIsPast /\ Stops
      /\ DaemonLease \in Nat /\ Daemon \in Workers /\ MaxLease \in Nat
  BY WorkerDaemonAssumption, ControlPlaneAssumption DEF DaemonInv, TriggerInv, LeaseInv
<1>1. t \in Nat BY <1>0, Readings
<1>2. /\ job[j].state = "queued" /\ job[j].attempts \in Nat
      /\ grants' = grants \cup {[job |-> j, token |-> job[j].attempts + 1, worker |-> Daemon, at |-> t]}
  BY <1>0, <1>1, ClaimMoves, ZenonT(30)
<1>3. job'[j].heartbeat = t /\ job'[j].expires = Least(t + DaemonLease, t + MaxLease)
  BY <1>0, <1>1, ClaimedRow
<1>4. g = [job |-> j, token |-> job[j].attempts + 1, worker |-> Daemon, at |-> t] BY <1>2
<1>5. g.job = j /\ g.token = job[j].attempts + 1 /\ g.worker = Daemon BY <1>4
<1>6. job[j].attempts + 1 \in Nat /\ job[j].attempts + 1 # 0 /\ ~(job[j].attempts + 1 <= job[j].attempts)
  BY <1>2, SMT
<1>7. g \in Mine' BY <1>5 DEF Mine
<1>8. g \in Grant BY <1>0, <1>1, <1>4, <1>6 DEF Grant
<1>9. observed[g.job].token # g.token
  <2>1. fence[j] = 0 BY <1>0, <1>2 DEF Stops, Fenced
  <2>2. observed[j] = NoReport BY <1>0, <2>1 DEF Stops, StopReportIsTrue
  <2>3. NoReport.token = 0 BY DEF NoReport
  <2> QED BY <1>5, <1>6, <2>2, <2>3
<1>10. ASSUME NEW m \in late PROVE ~Same(m.grant, g)
  <2>1. CASE m.grant \in Mine
    <3>1. m.grant.token <= job[m.grant.job].attempts
      BY <1>0, <2>1 DEF Mine, LeaseInv, LeasesInOrder
    <3> QED BY <1>5, <1>6, <3>1 DEF Same
  <2>2. CASE m.grant = NoGrant
    <3>1. NoGrant.job = 0 /\ 0 \notin JobIds BY SMT DEF NoGrant, JobIds
    <3> QED BY <1>5, <2>2, <3>1 DEF Same
  <2> QED BY <1>0, <2>1, <2>2 DEF LateIsPast
<1>11. Least(t + DaemonLease, t + MaxLease) - t \in Nat BY <1>0, <1>1, SMT DEF Least
<1> QED BY <1>3, <1>5, <1>7, <1>8, <1>9, <1>10, <1>11

ClaimAnswered ==
  /\ wire' \in [Channels -> CallRecord] /\ wire'["claim"].st = "reply"
  /\ \A c \in Channels \ {"claim"} : wire'[c] = wire[c]
  /\ Fresh'

(* Serving the daemon's claim keeps the invariant. *)
LEMMA ServeClaimInv ==
  ASSUME DaemonInv, NEW t \in ClockReadings, ServeClaim(t)
  PROVE  DaemonInv'
<1>0. /\ wire["claim"].st = "request" /\ "claim" \in Channels
      /\ d' = d /\ late' = late /\ handled' = handled /\ observed' = observed
  BY DEF ServeClaim, Channels
<1>1. ServerDoes BY DEF ServeClaim, ServerDoes
<1>2. wire \in [Channels -> CallRecord] /\ wire["claim"] \in CallRecord /\ wire["claim"].verdict = "none"
  BY <1>0 DEF DaemonInv, DaemonTypeOK, Shape, Locals
<1>3. ClaimAnswered
  <2>1. ASSUME NEW j \in JobIds, ClaimJob(Daemon, j, DaemonLease, t), NEW g \in grants' \ grants,
               NEW m, m = [st |-> "reply", verdict |-> "ok", grant |-> g,
                           window |-> job'[g.job].expires - job'[g.job].heartbeat],
               wire' = [wire EXCEPT !["claim"] = m]
        PROVE  ClaimAnswered
    <3>1. /\ g \in Mine' /\ g \in Grant /\ observed[g.job].token # g.token
          /\ \A n \in late : ~Same(n.grant, g)
          /\ job'[g.job].expires - job'[g.job].heartbeat \in Nat
      BY <2>1, GrantIsNew
    <3>2. m \in CallRecord BY <2>1, <3>1 DEF CallRecord, Verdicts
    <3>3. m.st = "reply" /\ m.grant = g BY <2>1
    <3>4. wire' \in [Channels -> CallRecord] /\ wire'["claim"] = m
          /\ \A c \in Channels \ {"claim"} : wire'[c] = wire[c]
      BY <1>0, <1>2, <2>1, <3>2
    <3>5. Fresh' BY <1>0, <3>1, <3>3, <3>4 DEF Fresh
    <3> QED BY <3>3, <3>4, <3>5 DEF ClaimAnswered
  <2>2. ASSUME wire' = [wire EXCEPT !["claim"].st = "reply"] PROVE ClaimAnswered
    <3>1. [wire["claim"] EXCEPT !.st = "reply"] \in CallRecord BY <1>2 DEF CallRecord
    <3>2. /\ [wire["claim"] EXCEPT !.st = "reply"].st = "reply"
          /\ [wire["claim"] EXCEPT !.st = "reply"].verdict = "none"
      BY <1>2 DEF CallRecord
    <3>3. wire' = [wire EXCEPT !["claim"] = [wire["claim"] EXCEPT !.st = "reply"]] BY <2>2
    <3>4. /\ wire' \in [Channels -> CallRecord] /\ wire'["claim"] = [wire["claim"] EXCEPT !.st = "reply"]
          /\ \A c \in Channels \ {"claim"} : wire'[c] = wire[c]
      BY <1>0, <1>2, <3>1, <3>3
    <3>5. Fresh' BY <3>2, <3>4 DEF Fresh
    <3> QED BY <3>2, <3>4, <3>5 DEF ClaimAnswered
  <2> QED BY <2>1, <2>2 DEF ServeClaim
<1>4. WireServed BY <1>0, <1>3 DEF WireServed, ClaimAnswered
<1>5. wire'["finalize"] = wire["finalize"] /\ wire'["heartbeat"] = wire["heartbeat"]
  BY <1>3 DEF Channels, ClaimAnswered
<1>6. DaemonTypeOK' BY <1>0, <1>3 DEF DaemonInv, DaemonTypeOK, ClaimAnswered
<1>7. Shape' BY <1>0, <1>1, <1>4, ServerBase, ServerShape
<1>8. LateIsPast' BY <1>0, <1>1, ServerBase, ServerLate
<1>9. Answers' BY <1>0, <1>1, <1>5, ServerBase, ServerAnswers
<1>10. Stops' BY <1>0, <1>1, ServerBase, ServerStops
<1>11. Deadlines' BY <1>0, <1>1, <1>5, ServerBase, ServerDeadlines
<1> QED BY <1>1, <1>3, <1>6, <1>7, <1>8, <1>9, <1>10, <1>11, ServerBase
        DEF DaemonInv, ClaimAnswered

-----------------------------------------------------------------------------
(* What the daemon itself keeps. *)

(* What a daemon's own step keeps of the invariant. *)
LEMMA CarriedInv ==
  ASSUME DaemonInv, UNCHANGED vars, observed' = observed, Carries
  PROVE  DaemonInv'
<1>0. /\ TypeOK /\ TriggerInv /\ DaemonTypeOK /\ Shape /\ LateIsPast /\ Fresh /\ Answers /\ Stops
      /\ Deadlines
  BY DEF DaemonInv, TriggerInv, LeaseInv
<1>1. Mine' = Mine /\ grants' = grants /\ effects' = effects /\ now' = now /\ job' = job /\ fence' = fence
  BY DEF Mine, vars
<1>2. TriggerInv'
  <2>1. Step BY DEF Step
  <2> QED BY <1>0, <2>1, StepTriggerInv
<1>3. DaemonTypeOK' /\ Shape' /\ Forgets BY DEF Carries
<1>4. ASSUME NEW c \in Channels, wire[c].st = "request", NEW m, m = Request(c)
      PROVE  /\ m.op = c /\ m.grant = d.grant /\ m.action = d.action /\ m.cleanup = d.cleanup
             /\ d.phase \in WaitsFor(c)
  BY <1>0, <1>4 DEF Request, Shape
<1>5. LateIsPast'
  <2> SUFFICES ASSUME NEW m \in late'
      PROVE  /\ m.grant \in Mine \cup {NoGrant}
             /\ m.op # "claim" => m.grant \in Mine
             /\ m.op = "finalize" => m.action \in Actions
             /\ m.op = "finalize" /\ d'.phase = "executing" => ~Same(m.grant, d'.grant)
             /\ m.op = "report" /\ m.cleanup = "drained" => ~(d'.exec /\ Same(m.grant, d'.grant))
    BY <1>1 DEF LateIsPast
  <2>1. /\ d'.exec => d.exec /\ d'.grant = d.grant
        /\ d'.phase = "executing" => d.phase = "executing" /\ d'.grant = d.grant
    BY DEF Carries
  <2>2. CASE m \in late BY <1>0, <2>1, <2>2 DEF LateIsPast
  <2>3. ASSUME NEW c \in Channels, wire[c].st = "request", m = Request(c)
        PROVE  /\ m.grant \in Mine \cup {NoGrant}
               /\ m.op # "claim" => m.grant \in Mine
               /\ m.op = "finalize" => m.action \in Actions
               /\ m.op = "finalize" => d'.phase # "executing"
               /\ m.op = "report" /\ m.cleanup = "drained" => ~d'.exec
    <3>1. /\ m.op = c /\ m.grant = d.grant /\ m.action = d.action /\ m.cleanup = d.cleanup
          /\ d.phase \in WaitsFor(c)
      BY <1>4, <2>3
    <3>2. CASE c = "claim" BY <1>0, <3>1, <3>2, Waits DEF Shape, Locals
    <3>3. CASE c # "claim"
      <4>1. d.grant \in Mine /\ (c = "finalize" => d.action \in Actions)
        BY <1>0, <2>3, <3>3, CallerHasLease
      <4>2. c = "finalize" => d.phase # "executing" BY <3>1, Waits
      <4>3. c = "report" /\ d.cleanup = "drained" => ~d.exec
        BY <1>0, <3>1, Waits DEF Shape, Locals
      <4> QED BY <2>1, <3>1, <3>3, <4>1, <4>2, <4>3
    <3> QED BY <3>2, <3>3
  <2> QED BY <1>3, <2>2, <2>3 DEF Forgets
<1>6. \A c \in Channels : wire'[c].st = "reply" => wire'[c] = wire[c] BY DEF Carries
<1>7. Fresh'
  <2> DEFINE g == wire["claim"].grant
  <2> SUFFICES ASSUME wire'["claim"].st = "reply", wire'["claim"].verdict = "ok"
               PROVE  /\ wire'["claim"] = wire["claim"]
                      /\ g \in Mine /\ (\A m \in late' : ~Same(m.grant, g))
                      /\ observed[g.job].token # g.token
    BY <1>1 DEF Fresh
  <2>1. wire'["claim"] = wire["claim"] BY <1>6 DEF Channels
  <2>2. g \in Mine /\ (\A m \in late : ~Same(m.grant, g)) /\ observed[g.job].token # g.token
    BY <1>0, <2>1 DEF Fresh
  <2>3. \A c \in Channels : wire[c].st # "request"
    <3>1. d.phase = "claiming" BY <1>0, <2>1, Waits DEF Shape, Channels
    <3> QED BY <1>0, <2>1, <3>1, Waits DEF Shape, Channels
  <2> QED BY <1>3, <2>1, <2>2, <2>3 DEF Forgets
<1>8. Answers'
  <2>1. Backings' BY <1>0, <1>1 DEF Answers, Backings, Backed
  <2>2. HandledIsCommitted'
    <3>1. CASE handled' = handled BY <1>0, <1>1, <3>1 DEF Answers, HandledIsCommitted
    <3>2. ASSUME wire["finalize"].st = "reply", wire["finalize"].verdict = "ok",
                 handled' = [grant |-> d.grant, action |-> d.action]
          PROVE  HandledIsCommitted'
      <4>1. Committed(d.grant, d.action) BY <1>0, <3>2 DEF Answers
      <4>2. handled'.grant = d.grant /\ handled'.action = d.action BY <3>2
      <4> QED BY <1>1, <4>1, <4>2 DEF HandledIsCommitted, Committed
    <3> QED BY <3>1, <3>2 DEF Carries, Counts
  <2>3. ASSUME wire'["finalize"].st = "reply", wire'["finalize"].verdict = "ok"
        PROVE  Committed(d.grant, d.action)'
    <3>1. wire'["finalize"] = wire["finalize"] BY <1>6, <2>3 DEF Channels
    <3>2. Committed(d.grant, d.action) BY <1>0, <2>3, <3>1 DEF Answers
    <3>3. d'.grant = d.grant /\ d'.action = d.action BY <2>3 DEF Carries
    <3> QED BY <1>1, <3>2, <3>3 DEF Committed
  <2> QED BY <2>1, <2>2, <2>3 DEF Answers
<1>9. Stops'
  <2>1. d'.exec => d.exec /\ d'.grant = d.grant BY DEF Carries
  <2>2. StopReportIsTrue' BY <1>0, <1>1, <2>1 DEF Stops, StopReportIsTrue
  <2> QED BY <1>0, <1>1, <2>2 DEF Stops, Fenced, Tokens
<1>10. Deadlines'
  <2>1. Windows' BY <1>0, <1>1 DEF Deadlines, Windows
  <2>2. \A g, dl : Safe(g, dl) => Safe(g, dl)' BY <1>1 DEF Safe
  <2>3. ASSUME d'.phase = "executing", d'.renewed PROVE Safe(d.grant, d.deadline)'
    <3>1. d.phase = "executing" /\ d'.grant = d.grant /\ KeepsDeadline BY <2>3 DEF Carries
    <3>2. CASE d.renewed /\ d'.deadline = d.deadline
      <4>1. Safe(d.grant, d.deadline) BY <1>0, <3>1, <3>2 DEF Deadlines
      <4>2. \A g, dl : g = d.grant /\ dl = d.deadline => Safe(g, dl)' BY <2>2, <4>1
      <4> QED BY <3>1, <3>2, <4>2 DEF Safe
    <3>3. ASSUME wire["heartbeat"].st = "reply", wire["heartbeat"].verdict = "ok",
                 NEW n, n = d.hbStart + Least(wire["heartbeat"].window, DaemonLease),
                 d'.deadline = n
          PROVE  Safe(d.grant, d.deadline)'
      <4>1. Safe(d.grant, n) BY <1>0, <3>1, <3>3 DEF Deadlines
      <4>2. \A g : g = d.grant => Safe(g, n)' BY <2>2, <4>1
      <4> QED BY <3>1, <3>3, <4>2 DEF Safe
    <3> QED BY <2>3, <3>1, <3>2, <3>3 DEF KeepsDeadline
  <2>4. ASSUME wire'["heartbeat"].st = "request" PROVE d'.hbStart <= now'
    <3>1. CASE d'.hbStart = now BY <1>0, <1>1, <3>1, SameClock
    <3>2. CASE d'.hbStart = d.hbStart /\ wire["heartbeat"].st = "request"
      BY <1>0, <1>1, <3>2 DEF Deadlines
    <3> QED BY <2>4, <3>1, <3>2 DEF Carries
  <2>5. ASSUME d'.phase = "executing", wire'["heartbeat"].st = "reply", wire'["heartbeat"].verdict = "ok"
        PROVE  Safe(d.grant, d.hbStart + Least(wire["heartbeat"].window, DaemonLease))'
    <3> DEFINE dl == d.hbStart + Least(wire["heartbeat"].window, DaemonLease)
    <3>1. d.phase = "executing" /\ d'.grant = d.grant /\ d'.hbStart = d.hbStart
      BY <2>5 DEF Carries
    <3>2. wire'["heartbeat"] = wire["heartbeat"] BY <1>6, <2>5 DEF Channels
    <3>3. dl' = dl /\ Safe(d.grant, dl) BY <1>0, <2>5, <3>1, <3>2 DEF Deadlines
    <3> HIDE DEF dl
    <3>4. \A g, n : g = d.grant /\ n = dl => Safe(g, n)' BY <2>2, <3>3
    <3>5. Safe(d.grant, dl)' BY <3>1, <3>3, <3>4 DEF Safe
    <3> QED BY <3>5, SMT DEF dl
  <2> QED BY <2>1, <2>3, <2>4, <2>5 DEF Deadlines
<1> QED BY <1>2, <1>3, <1>5, <1>7, <1>8, <1>9, <1>10 DEF DaemonInv

(* A claimed lease is new: no request under way and no report names it. *)
LEMMA StartClaimInv ==
  ASSUME DaemonInv, StartClaim
  PROVE  DaemonInv'
<1> DEFINE m == wire["claim"]
           g == m.grant
           deadline == now + Least(m.window, DaemonLease)
<1>0. /\ TypeOK /\ TriggerInv /\ DaemonTypeOK /\ Shape /\ LateIsPast /\ Fresh /\ Answers /\ Stops
      /\ Deadlines
  BY DEF DaemonInv, TriggerInv, LeaseInv
<1>1. /\ d.phase = "claiming" /\ m.st = "reply" /\ m.verdict = "ok"
      /\ d' = [Resting EXCEPT !.phase = "executing", !.grant = g, !.exec = TRUE,
                              !.deadline = deadline, !.hb = "sent", !.hbStart = now]
      /\ handled' = NotHandled /\ wire' = [wire EXCEPT !["claim"] = Silent, !["heartbeat"] = Asked]
      /\ UNCHANGED vars /\ late' = late /\ observed' = observed
  BY DEF StartClaim
<1>2. Mine' = Mine /\ grants' = grants /\ effects' = effects /\ now' = now /\ job' = job /\ fence' = fence
  BY <1>1 DEF Mine, vars
<1>3. TriggerInv'
  <2>1. Step BY <1>1 DEF Step
  <2> QED BY <1>0, <2>1, StepTriggerInv
<1>4. g \in Mine /\ (\A n \in late : ~Same(n.grant, g)) /\ observed[g.job].token # g.token
  BY <1>0, <1>1 DEF Fresh
<1>5. g \in Grant \cup {NoGrant} /\ deadline \in Nat /\ now \in Nat
  <2>1. g \in Grant \cup {NoGrant} /\ m.window \in Nat BY <1>0 DEF DaemonTypeOK, Channels, CallRecord
  <2>2. now \in Nat /\ DaemonLease \in Nat
    BY <1>0, WorkerDaemonAssumption, ControlPlaneAssumption DEF TypeOK
  <2>3. deadline \in Nat BY <2>1, <2>2, SMT DEF Least
  <2> QED BY <2>1, <2>2, <2>3
<1> HIDE DEF m, g, deadline
<1>6. /\ d' \in CycleRecord /\ d'.phase = "executing" /\ d'.grant = g /\ d'.exec /\ d'.kind = "none"
      /\ d'.hbStart = now /\ ~d'.renewed
  <2>1. ~Resting.renewed BY DEF Resting
  <2> QED BY <1>1, <1>5, <2>1, RestingRecord DEF CycleRecord, Phases
<1>7. \A c \in Channels \ {"claim"} : wire[c].st = "none"
  BY <1>0, <1>1, Waits DEF Shape, Channels
<1>8. /\ wire' \in [Channels -> CallRecord]
      /\ wire'["heartbeat"].st = "request" /\ wire'["heartbeat"].verdict = "none"
      /\ \A c \in Channels \ {"heartbeat"} : wire'[c].st = "none"
  BY <1>0, <1>1, <1>7, SilentRecord DEF DaemonTypeOK, Channels
<1>9. wire'["claim"].st = "none" /\ wire'["finalize"].st = "none" BY <1>8 DEF Channels
<1>10. DaemonTypeOK' BY <1>0, <1>1, <1>6, <1>8 DEF DaemonTypeOK
<1>11. Shape'
  <2>1. Locals' BY <1>2, <1>4, <1>6 DEF Locals, HasLease
  <2> QED BY <1>6, <1>8, <2>1, Waits DEF Shape
<1>12. LateIsPast' BY <1>0, <1>1, <1>2, <1>4, <1>6 DEF LateIsPast
<1>13. Fresh' BY <1>9 DEF Fresh
<1>14. Answers'
  <2>1. handled'.grant = NoGrant BY <1>1 DEF NotHandled
  <2>2. HandledIsCommitted' BY <2>1 DEF HandledIsCommitted
  <2> QED BY <1>0, <1>2, <1>9, <2>2 DEF Answers, Backings, Backed
<1>15. Stops'
  <2>1. StopReportIsTrue' BY <1>0, <1>1, <1>2, <1>4, <1>6 DEF Stops, StopReportIsTrue
  <2> QED BY <1>0, <1>2, <2>1 DEF Stops, Fenced, Tokens
<1>16. Deadlines'
  <2>1. Windows' BY <1>0, <1>2 DEF Deadlines, Windows
  <2>2. d'.hbStart <= now' BY <1>0, <1>2, <1>6, SameClock
  <2> QED BY <1>6, <1>8, <2>1, <2>2 DEF Deadlines
<1> QED BY <1>3, <1>10, <1>11, <1>12, <1>13, <1>14, <1>15, <1>16 DEF DaemonInv

-----------------------------------------------------------------------------
(* The inductive invariant, and what it says of every behaviour. *)

(* It holds initially. *)
LEMMA InitDaemonInv ==
  ASSUME DaemonInit
  PROVE  DaemonInv
<1>0. /\ Init /\ d = Resting /\ wire = [c \in Channels |-> Silent] /\ late = {}
      /\ handled = NotHandled /\ observed = [j \in JobIds |-> NoReport]
  BY DEF DaemonInit
<1>1. TriggerInv BY <1>0, TriggerInvInitially
<1>2. \A c \in Channels : wire[c].st = "none" BY <1>0, SilentRecord
<1>3. DaemonTypeOK
  <2>1. NoReport \in ReportRecord BY DEF NoReport, ReportRecord, Cleanups
  <2> QED BY <1>0, <2>1, RestingRecord, SilentRecord DEF DaemonTypeOK
<1>4. Shape BY <1>0, <1>2, RestingRecord DEF Shape, Locals, HasLease
<1>5. LateIsPast BY <1>0 DEF LateIsPast
<1>6. wire["claim"].st = "none" /\ wire["finalize"].st = "none" /\ wire["heartbeat"].st = "none"
  BY <1>2 DEF Channels
<1>7. Fresh BY <1>6 DEF Fresh
<1>8. /\ \A j \in JobIds : job[j].state = "absent" /\ fence[j] = 0
      /\ grants = {}
  BY <1>0 DEF Init, NoJob
<1>9. Answers
  <2>1. handled.grant = NoGrant BY <1>0 DEF NotHandled
  <2> QED BY <1>6, <1>8, <2>1 DEF Answers, HandledIsCommitted, Backings
<1>10. Stops BY <1>0, <1>8 DEF Stops, StopReportIsTrue, Fenced, Tokens
<1>11. Deadlines
  <2>1. d.phase # "executing" BY <1>0, RestingRecord
  <2> QED BY <1>6, <1>8, <2>1 DEF Deadlines, Windows
<1> QED BY <1>1, <1>3, <1>4, <1>5, <1>7, <1>9, <1>10, <1>11 DEF DaemonInv

(* Every step of the system keeps it. *)
LEMMA NextDaemonInv == DaemonInv /\ [DaemonNext]_systemVars => DaemonInv'
<1> SUFFICES ASSUME DaemonInv, [DaemonNext]_systemVars PROVE DaemonInv'
  OBVIOUS
<1>0. TypeOK /\ DaemonTypeOK /\ Shape BY DEF DaemonInv, TriggerInv, LeaseInv
<1>1. CASE UNCHANGED systemVars
  <2>1. /\ TriggerInv' /\ DaemonTypeOK' /\ Shape' /\ LateIsPast' /\ Fresh'
    <3>1. Step /\ UNCHANGED vars BY <1>1 DEF Step, systemVars
    <3>2. d' = d /\ wire' = wire /\ late' = late /\ observed' = observed
      BY <1>1 DEF systemVars, dvars
    <3>3. Mine' = Mine BY <3>1 DEF Mine, vars
    <3>4. TriggerInv' BY <3>1, StepTriggerInv DEF DaemonInv
    <3> QED BY <3>2, <3>3, <3>4 DEF DaemonInv, DaemonTypeOK, Shape, Locals, LateIsPast, Fresh
  <2>2. ServerDoes /\ d' = d /\ wire' = wire /\ handled' = handled /\ observed' = observed
    BY <1>1 DEF systemVars, dvars, ServerDoes
  <2>3. Answers' BY <2>2, ServerBase, ServerAnswers
  <2>4. Stops' BY <2>2, ServerBase, ServerStops
  <2>5. Deadlines' BY <2>2, ServerBase, ServerDeadlines
  <2> QED BY <2>1, <2>3, <2>4, <2>5 DEF DaemonInv
<1>2. CASE Elsewhere BY <1>2, ElsewhereInv
<1>3. CASE Call BY <1>3, ServeClaimInv, ServeInv, ServeLateInv DEF Call
<1>4. CASE DaemonStep
  <2>1. UNCHANGED vars /\ observed' = observed BY <1>4, DaemonStepIsLocal
  <2>2. Carries \/ StartClaim BY <1>0, <1>4, DaemonStepCarries
  <2> QED BY <2>1, <2>2, CarriedInv, StartClaimInv
<1> QED BY <1>1, <1>2, <1>3, <1>4 DEF DaemonNext

(* A cycle that run_once counts as handled has its effect in the database,    *)
(* also when the answer it read was to a retry (finalize_with_retry).         *)
THEOREM HandledCyclesAreCommitted == DaemonSpec => []HandledIsCommitted
<1>1. DaemonInv => HandledIsCommitted BY DEF DaemonInv, Answers
<1> QED BY InitDaemonInv, NextDaemonInv, <1>1, PTL DEF DaemonSpec

(* The stop observation that StopObservationService records is about the      *)
(* fenced lease, and "drained" is never said of an executor that still runs,  *)
(* whatever requests are delayed and however often the daemon restarts.       *)
THEOREM StopReportsAreTrue == DaemonSpec => []StopReportIsTrue
<1>1. DaemonInv => StopReportIsTrue BY DEF DaemonInv, Stops
<1> QED BY InitDaemonInv, NextDaemonInv, <1>1, PTL DEF DaemonSpec

(* A renewed local deadline is safe as far as the servers' clocks agree.      *)
AuthorityUpToSkew ==
  d.phase = "executing" /\ d.renewed /\ now + Skew < d.deadline =>
    \A g \in grants : g.job = d.grant.job => g.token <= d.grant.token

(* Once a heartbeat renewed it, no other lease of the Job is granted until    *)
(* the local deadline minus the disagreement of the servers' clocks           *)
(* (renew_from_server_timestamps, expire_due_leases).                         *)
THEOREM RenewedLeasesAreSafe == DaemonSpec => []AuthorityUpToSkew
<1>1. DaemonInv => AuthorityUpToSkew BY DEF DaemonInv, Deadlines, Safe, AuthorityUpToSkew
<1> QED BY InitDaemonInv, NextDaemonInv, <1>1, PTL DEF DaemonSpec

(* With one server clock, the local deadline itself is safe: until the        *)
(* daemon stops its executor, the lease it executes under is the newest.      *)
THEOREM LocalAuthority == Skew = 0 => (DaemonSpec => []LocalAuthorityIsExclusive)
<1> SUFFICES ASSUME Skew = 0 PROVE DaemonSpec => []LocalAuthorityIsExclusive
  OBVIOUS
<1>1. ASSUME DaemonInv PROVE LocalAuthorityIsExclusive
  <2>1. DaemonInv => AuthorityUpToSkew BY DEF DaemonInv, Deadlines, Safe, AuthorityUpToSkew
  <2>2. now + Skew = now
    <3>1. now \in Nat BY <1>1 DEF DaemonInv, TriggerInv, LeaseInv, TypeOK
    <3> QED BY <3>1, SMT
  <2> QED BY <1>1, <2>1, <2>2 DEF AuthorityUpToSkew, LocalAuthorityIsExclusive
<1> QED BY InitDaemonInv, NextDaemonInv, <1>1, PTL DEF DaemonSpec

(* Once its cancellation context is set, no finalization leaves the daemon:   *)
(* what a cancelled executor still returns is dropped (await_with_heartbeat,  *)
(* stop_execution).                                                           *)
THEOREM CancelledWorkIsDropped == DaemonSpec => CancelledExecutionSubmitsNothing

(* Only an execution that returned by itself, or a finalization under way,    *)
(* sends a finalization.                                                      *)
<1>FinalizersSend.
  ASSUME DaemonTypeOK, DaemonStep, wire["finalize"].st = "none", wire'["finalize"].st = "request"
  PROVE  d.phase \in {"executing", "finalizing", "reconciling"}
  <2> USE <1>FinalizersSend
  <2> DEFINE Sends == d.phase \in {"executing", "finalizing", "reconciling"}
  <2>0. "finalize" \in Channels /\ Silent.st = "none" /\ wire \in [Channels -> CallRecord]
    BY SilentRecord DEF Channels, DaemonTypeOK
  <2>1. ASSUME NEW C, Abandon(C) PROVE FALSE
    <3>1. wire'["finalize"] = Silent \/ wire'["finalize"] = wire["finalize"]
      BY <2>0, <2>1 DEF Abandon
    <3> QED BY <2>0, <3>1
  <2>2. ASSUME NEW c, NEW error, EndCycle(c, error) PROVE FALSE
    <3>1. wire'["finalize"] = Silent BY <2>0, <2>2 DEF EndCycle, EndsWith
    <3> QED BY <2>0, <3>1
  <2>3. ASSUME NEW c, c # "finalize", Send(c) PROVE FALSE
    <3>1. wire' = [wire EXCEPT ![c] = Asked] BY <2>3 DEF Send
    <3> QED BY <2>0, <2>3, <3>1, SMT
  <2>4. wire' # wire OBVIOUS
  <2>5. AskClaim => Sends BY <2>3 DEF AskClaim
  <2>6. StartClaim => Sends
    <3>1. ASSUME wire' = [wire EXCEPT !["claim"] = Silent, !["heartbeat"] = Asked] PROVE FALSE
      <4>1. wire'["finalize"] = wire["finalize"] BY <2>0, <3>1, SMT
      <4> QED BY <4>1
    <3> QED BY <3>1 DEF StartClaim
  <2>7. \A fault : ClaimFails(fault) => Sends BY <2>1 DEF ClaimFails
  <2>8. \A fault : HeartbeatFaults(fault) \/ FinalizationFaults(fault) => Sends
    BY DEF HeartbeatFaults, FinalizationFaults
  <2>9. NextHeartbeat \/ HeartbeatAnswered \/ HeartbeatTimesOut => Sends
    BY DEF NextHeartbeat, HeartbeatAnswered, HeartbeatTimesOut
  <2>10. \A action : ExecutorReturns(action) => Sends BY DEF ExecutorReturns
  <2>11. FinalizationAnswered \/ FinalizationRetried \/ ReconciliationEnds => Sends
    BY DEF FinalizationAnswered, FinalizationRetried, ReconciliationEnds
  <2>12. GraceElapses \/ ExecutorStops \/ ForceElapses \/ OrphanStops \/ ReportEnds => Sends
    BY <2>1, <2>2, <2>4 DEF GraceElapses, ExecutorStops, ForceElapses, OrphanStops, ReportEnds
  <2>13. Shutdown \/ Restart => Sends BY <2>1, <2>2, <2>4 DEF Shutdown, Restart
  <2> QED BY <2>5, <2>6, <2>7, <2>8, <2>9, <2>10, <2>11, <2>12, <2>13 DEF DaemonStep

<1> DEFINE Drops == wire["finalize"].st = "none" /\ wire'["finalize"].st = "request" => d.kind = "none"
<1>1. ASSUME DaemonInv, [DaemonNext]_systemVars PROVE [Drops]_systemVars
  <2> SUFFICES ASSUME DaemonNext, wire["finalize"].st = "none", wire'["finalize"].st = "request"
               PROVE  d.kind = "none"
    BY <1>1
  <2>1. wire' # wire OBVIOUS
  <2>2. ASSUME NEW c \in Channels, NEW m, m.st = "reply", wire' = [wire EXCEPT ![c] = m] PROVE FALSE
    <3>1. wire \in [Channels -> CallRecord] /\ "finalize" \in Channels
      BY <1>1 DEF DaemonInv, DaemonTypeOK, Channels
    <3>2. wire'["finalize"] = wire["finalize"] \/ wire'["finalize"] = m BY <2>2, <3>1
    <3> QED BY <2>2, <3>2
  <2>3. CASE Elsewhere BY <2>1, <2>3 DEF Elsewhere, dvars
  <2>4. ASSUME NEW t, ServeClaim(t) PROVE FALSE
    <3>1. wire["claim"].st = "request" BY <2>4 DEF ServeClaim
    <3>2. wire["claim"] \in CallRecord /\ "claim" \in Channels
      BY <1>1 DEF DaemonInv, DaemonTypeOK, Channels
    <3>3. [wire["claim"] EXCEPT !.st = "reply"].st = "reply" BY <3>2 DEF CallRecord
    <3>4. \E m : m.st = "reply" /\ wire' = [wire EXCEPT !["claim"] = m]
      BY <2>4, <3>3 DEF ServeClaim
    <3> QED BY <2>2, <3>2, <3>4
  <2>5. ASSUME NEW t, NEW c \in Channels, Serve(c, t) PROVE FALSE
    <3>1. \E m : m.st = "reply" /\ wire' = [wire EXCEPT ![c] = m] BY <2>5 DEF Serve
    <3> QED BY <2>2, <3>1
  <2>6. ASSUME NEW t, NEW m, ServeLate(m, t) PROVE FALSE BY <2>1, <2>6 DEF ServeLate
  <2>7. CASE DaemonStep
    <3>1. d.phase \in {"executing", "finalizing", "reconciling"} BY <1>1, <2>7, <1>FinalizersSend DEF DaemonInv
    <3> QED BY <1>1, <3>1 DEF DaemonInv, Shape, Locals
  <2> QED BY <2>3, <2>4, <2>5, <2>6, <2>7 DEF DaemonNext, Call
<1> QED BY InitDaemonInv, NextDaemonInv, <1>1, PTL DEF DaemonSpec, CancelledExecutionSubmitsNothing
=============================================================================
