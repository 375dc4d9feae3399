--------------------------- MODULE SessionProofs ----------------------------
(***************************************************************************)
(* Theorems about UartSession, for every number of sessions.               *)
(*                                                                         *)
(* The claim ProbeActive is the root of the argument: while it is up, the  *)
(* live threads are those of the last session armed, so that the flags     *)
(* and events, which all sessions share, speak of that session; when it    *)
(* goes down, no thread is left and the session has its final record.      *)
(***************************************************************************)
EXTENDS UartSession, TLAPS

Reported == registry.session = armed /\ registry.completion \in Final

\* A monitor that has not created its worker is alone, and nothing happened.
FreshStart ==
  /\ \A s \in Session : mon[s] \in {"none", "create"} => ~Live(wrk[s])
  /\ \A s \in Session :
       mon[s] = "create" => ~steadyStopped /\ ~probeDone /\ ~reportingStopped

\* The list unload joins holds every thread, or the thread that inserts it.
Listed ==
  /\ \A s \in Session :
       /\ Live(mon[s]) => <<"monitor", s>> \in threads
       /\ Live(wrk[s]) => <<"worker", s>> \in threads \/ mon[s] = "insert"
  /\ pnp = "unloaded" => threads = {}

\* PlugGate stands between a worker that plugs in and a release.
Gone == pnp \in {"off", "removed", "rundown", "joining", "unloaded"}

PlugSafe ==
  /\ Gone => child = 0 /\ ~backendPrepared
  /\ \A s \in Session : wrk[s] = "plugging" => plugGate /\ ~Gone

\* RecordGate stands between the two who report; the one final record of a
\* session is what ReportingStopped remembers.
GateHeld ==
  /\ recordGate = publishing
  /\ publishing => ~reportingStopped

OneRecord ==
  /\ registry.session <= armed
  /\ probeActive => (Reported <=> reportingStopped)
  /\ ~probeActive /\ armed # 0 => Reported

\* How far the worker is, as its events tell, and who speaks for the session.
EventsTell ==
  /\ probeActive /\ steadyStopped => wrk[armed] \in {"finish", "done"}
  /\ probeActive /\ probeDone => wrk[armed] = "done"
  /\ \A s \in Session : mon[s] = "judge" => probeDone
  /\ monitorDone => \A s \in Session : ~Live(mon[s])
  /\ monitorDone /\ probeActive => reportingStopped

StopTells ==
  /\ stopRequested /\ ~steadyStopped => cutShort
  /\ \A s \in Session :
       wrk[s] \in {"signal", "finish", "done"} =>
         reportingStopped \/ (stopRequested /\ cutShort)
  /\ \A s \in Session : mon[s] = "report" => stopRequested
  /\ registry = [session |-> armed, completion |-> "abandoned"] => cutShort

\* A stop under way knows what comes after it.
StopLeads == pnp \in {"stop", "stopWait"} => next # "none"

IInv ==
  /\ TypeOK /\ ThreadsOwnTheSession /\ FreshStart /\ Listed /\ PlugSafe
  /\ StopLeads /\ GateHeld /\ OneRecord /\ EventsTell /\ StopTells

-----------------------------------------------------------------------------
LEMMA WorkerKeeps ==
  ASSUME IInv, NEW s \in Session, WorkerStep(s)
  PROVE  IInv'
<1> USE SessionsAssumption
<1> USE DEF IInv, TypeOK, Session, Unloading, flagVars, eventVars, reportVars, pnpVars, plugVars
<1>1. CASE PublishBegin(s)
  <2> USE <1>1 DEF PublishBegin
  <2>1. FlagTypes'
    BY DEF FlagTypes, EventTypes, GateTypes
  <2>2. EventTypes'
    BY DEF FlagTypes, EventTypes, GateTypes
  <2>3. GateTypes'
    BY DEF FlagTypes, EventTypes, GateTypes
  <2>4. TypeOK'
    BY <2>1, <2>2, <2>3 DEF StopLeads, ThreadsOwnTheSession, Live, Final
  <2>5. ThreadsOwnTheSession'
    BY DEF FlagTypes, EventTypes, GateTypes, ThreadsOwnTheSession, FreshStart,
           EventsTell, Live
  <2>6. FreshStart'
    BY DEF FlagTypes, EventTypes, GateTypes, ThreadsOwnTheSession, FreshStart,
           OneRecord, Reported, Live
  <2>7. Listed'
    BY DEF StopLeads, ThreadsOwnTheSession, Listed, Live
  <2>8. PlugSafe'
    BY DEF FlagTypes, EventTypes, GateTypes, StopLeads, ThreadsOwnTheSession,
           PlugSafe, Gone, Live
  <2>9. StopLeads'
    BY DEF StopLeads
  <2>10. GateHeld'
    BY DEF FlagTypes, EventTypes, GateTypes, GateHeld, MayPublish,
           ThreadsOwnTheSession, Live
  <2>11. OneRecord'
    BY DEF FlagTypes, EventTypes, GateTypes, ThreadsOwnTheSession, FreshStart,
           GateHeld, OneRecord, EventsTell, StopTells, Reported, Live, Final
  <2>12. EventsTell'
    BY DEF FlagTypes, EventTypes, GateTypes, ThreadsOwnTheSession, FreshStart,
           GateHeld, OneRecord, EventsTell, StopTells, Reported, Live
  <2>13. StopTells'
    BY DEF FlagTypes, EventTypes, GateTypes, ThreadsOwnTheSession, FreshStart,
           OneRecord, EventsTell, StopTells, Reported, Live, Final
  <2>14. QED
    BY <2>1, <2>2, <2>3, <2>4, <2>5, <2>6, <2>7, <2>8, <2>9, <2>10, <2>11,
       <2>12, <2>13 DEF IInv
<1>2. CASE PublishEnd(s)
  <2> USE <1>2 DEF PublishEnd, Report
  <2>1. FlagTypes'
    BY DEF FlagTypes, EventTypes, GateTypes
  <2>2. EventTypes'
    BY DEF FlagTypes, EventTypes, GateTypes
  <2>3. GateTypes'
    BY DEF FlagTypes, EventTypes, GateTypes
  <2>4. TypeOK'
    BY <2>1, <2>2, <2>3 DEF StopLeads, ThreadsOwnTheSession, Live, Final
  <2>5. ThreadsOwnTheSession'
    BY DEF FlagTypes, EventTypes, GateTypes, ThreadsOwnTheSession, FreshStart,
           EventsTell, Live
  <2>6. FreshStart'
    BY DEF FlagTypes, EventTypes, GateTypes, ThreadsOwnTheSession, FreshStart,
           OneRecord, Reported, Live
  <2>7. Listed'
    BY DEF StopLeads, ThreadsOwnTheSession, Listed, Live
  <2>8. PlugSafe'
    BY DEF FlagTypes, EventTypes, GateTypes, StopLeads, ThreadsOwnTheSession,
           PlugSafe, Gone, Live
  <2>9. StopLeads'
    BY DEF StopLeads
  <2>10. GateHeld'
    BY DEF FlagTypes, EventTypes, GateTypes, GateHeld, MayPublish,
           ThreadsOwnTheSession, Live
  <2>11. OneRecord'
    BY DEF FlagTypes, EventTypes, GateTypes, ThreadsOwnTheSession, FreshStart,
           GateHeld, OneRecord, EventsTell, StopTells, Reported, Live, Final
  <2>12. EventsTell'
    BY DEF FlagTypes, EventTypes, GateTypes, ThreadsOwnTheSession, FreshStart,
           GateHeld, OneRecord, EventsTell, StopTells, Reported, Live
  <2>13. StopTells'
    BY DEF FlagTypes, EventTypes, GateTypes, ThreadsOwnTheSession, FreshStart,
           OneRecord, EventsTell, StopTells, Reported, Live, Final
  <2>14. QED
    BY <2>1, <2>2, <2>3, <2>4, <2>5, <2>6, <2>7, <2>8, <2>9, <2>10, <2>11,
       <2>12, <2>13 DEF IInv
<1>3. CASE PublishSkipped(s)
  BY <1>3 DEF PublishSkipped, WorkerMoves, MayPublish,
         FlagTypes, EventTypes, GateTypes,
         ThreadsOwnTheSession, FreshStart, Listed, PlugSafe,
         StopLeads, GateHeld, OneRecord, EventsTell, StopTells, Reported, Gone,
         Live, Final
<1>4. CASE WorkerAnswered(s)
  BY <1>4 DEF WorkerAnswered, WorkerMoves,
         FlagTypes, EventTypes, GateTypes,
         ThreadsOwnTheSession, FreshStart, Listed, PlugSafe,
         StopLeads, GateHeld, OneRecord, EventsTell, StopTells, Reported, Gone,
         Live, Final
<1>5. CASE WorkerFails(s)
  BY <1>5 DEF WorkerFails, WorkerMoves,
         FlagTypes, EventTypes, GateTypes,
         ThreadsOwnTheSession, FreshStart, Listed, PlugSafe,
         StopLeads, GateHeld, OneRecord, EventsTell, StopTells, Reported, Gone,
         Live, Final
<1>6. CASE WorkerDeadline(s)
  BY <1>6 DEF WorkerDeadline, HardStop,
         FlagTypes, EventTypes, GateTypes,
         ThreadsOwnTheSession, FreshStart, Listed, PlugSafe,
         StopLeads, GateHeld, OneRecord, EventsTell, StopTells, Reported, Gone,
         Live, Final
<1>7. CASE WorkerReady(s)
  BY <1>7 DEF WorkerReady, WorkerMoves,
         FlagTypes, EventTypes, GateTypes,
         ThreadsOwnTheSession, FreshStart, Listed, PlugSafe,
         StopLeads, GateHeld, OneRecord, EventsTell, StopTells, Reported, Gone,
         Live, Final
<1>8. CASE PlugBegin(s)
  <2> USE <1>8 DEF PlugBegin, WorkerMoves
  <2>1. FlagTypes'
    BY DEF FlagTypes, EventTypes, GateTypes
  <2>2. EventTypes'
    BY DEF FlagTypes, EventTypes, GateTypes
  <2>3. GateTypes'
    BY DEF FlagTypes, EventTypes, GateTypes
  <2>4. TypeOK'
    BY <2>1, <2>2, <2>3 DEF StopLeads, ThreadsOwnTheSession, Live, Final
  <2>5. ThreadsOwnTheSession'
    BY DEF FlagTypes, EventTypes, GateTypes, ThreadsOwnTheSession, FreshStart,
           EventsTell, Live
  <2>6. FreshStart'
    BY DEF FlagTypes, EventTypes, GateTypes, ThreadsOwnTheSession, FreshStart,
           OneRecord, Reported, Live
  <2>7. Listed'
    BY DEF StopLeads, ThreadsOwnTheSession, Listed, Live
  <2>8. PlugSafe'
    BY DEF FlagTypes, EventTypes, GateTypes, StopLeads, ThreadsOwnTheSession,
           PlugSafe, Gone, Live
  <2>9. StopLeads'
    BY DEF StopLeads
  <2>10. GateHeld'
    BY DEF FlagTypes, EventTypes, GateTypes, GateHeld, MayPublish,
           ThreadsOwnTheSession, Live
  <2>11. OneRecord'
    BY DEF FlagTypes, EventTypes, GateTypes, ThreadsOwnTheSession, FreshStart,
           GateHeld, OneRecord, EventsTell, StopTells, Reported, Live, Final
  <2>12. EventsTell'
    BY DEF FlagTypes, EventTypes, GateTypes, ThreadsOwnTheSession, FreshStart,
           GateHeld, OneRecord, EventsTell, StopTells, Reported, Live
  <2>13. StopTells'
    BY DEF FlagTypes, EventTypes, GateTypes, ThreadsOwnTheSession, FreshStart,
           OneRecord, EventsTell, StopTells, Reported, Live, Final
  <2>14. QED
    BY <2>1, <2>2, <2>3, <2>4, <2>5, <2>6, <2>7, <2>8, <2>9, <2>10, <2>11,
       <2>12, <2>13 DEF IInv
<1>9. CASE PlugEnd(s)
  <2> USE <1>9 DEF PlugEnd, WorkerMoves
  <2>1. FlagTypes'
    BY DEF FlagTypes, EventTypes, GateTypes
  <2>2. EventTypes'
    BY DEF FlagTypes, EventTypes, GateTypes
  <2>3. GateTypes'
    BY DEF FlagTypes, EventTypes, GateTypes
  <2>4. TypeOK'
    BY <2>1, <2>2, <2>3 DEF StopLeads, ThreadsOwnTheSession, Live, Final
  <2>5. ThreadsOwnTheSession'
    BY DEF FlagTypes, EventTypes, GateTypes, ThreadsOwnTheSession, FreshStart,
           EventsTell, Live
  <2>6. FreshStart'
    BY DEF FlagTypes, EventTypes, GateTypes, ThreadsOwnTheSession, FreshStart,
           OneRecord, Reported, Live
  <2>7. Listed'
    BY DEF StopLeads, ThreadsOwnTheSession, Listed, Live
  <2>8. PlugSafe'
    BY DEF FlagTypes, EventTypes, GateTypes, StopLeads, ThreadsOwnTheSession,
           PlugSafe, Gone, Live
  <2>9. StopLeads'
    BY DEF StopLeads
  <2>10. GateHeld'
    BY DEF FlagTypes, EventTypes, GateTypes, GateHeld, MayPublish,
           ThreadsOwnTheSession, Live
  <2>11. OneRecord'
    BY DEF FlagTypes, EventTypes, GateTypes, ThreadsOwnTheSession, FreshStart,
           GateHeld, OneRecord, EventsTell, StopTells, Reported, Live, Final
  <2>12. EventsTell'
    BY DEF FlagTypes, EventTypes, GateTypes, ThreadsOwnTheSession, FreshStart,
           GateHeld, OneRecord, EventsTell, StopTells, Reported, Live
  <2>13. StopTells'
    BY DEF FlagTypes, EventTypes, GateTypes, ThreadsOwnTheSession, FreshStart,
           OneRecord, EventsTell, StopTells, Reported, Live, Final
  <2>14. QED
    BY <2>1, <2>2, <2>3, <2>4, <2>5, <2>6, <2>7, <2>8, <2>9, <2>10, <2>11,
       <2>12, <2>13 DEF IInv
<1>10. CASE WorkerWoken(s)
  BY <1>10 DEF WorkerWoken, WorkerMoves,
         FlagTypes, EventTypes, GateTypes,
         ThreadsOwnTheSession, FreshStart, Listed, PlugSafe,
         StopLeads, GateHeld, OneRecord, EventsTell, StopTells, Reported, Gone,
         Live, Final
<1>11. CASE WorkerHandsBack(s)
  BY <1>11 DEF WorkerHandsBack, WorkerMoves,
         FlagTypes, EventTypes, GateTypes,
         ThreadsOwnTheSession, FreshStart, Listed, PlugSafe,
         StopLeads, GateHeld, OneRecord, EventsTell, StopTells, Reported, Gone,
         Live, Final
<1>12. CASE WorkerReleases(s)
  BY <1>12 DEF WorkerReleases, WorkerMoves,
         FlagTypes, EventTypes, GateTypes,
         ThreadsOwnTheSession, FreshStart, Listed, PlugSafe,
         StopLeads, GateHeld, OneRecord, EventsTell, StopTells, Reported, Gone,
         Live, Final
<1>13. CASE WorkerSignals(s)
  BY <1>13 DEF WorkerSignals, WorkerMoves,
         FlagTypes, EventTypes, GateTypes,
         ThreadsOwnTheSession, FreshStart, Listed, PlugSafe,
         StopLeads, GateHeld, OneRecord, EventsTell, StopTells, Reported, Gone,
         Live, Final
<1>14. CASE WorkerDone(s)
  BY <1>14 DEF WorkerDone, WorkerMoves,
         FlagTypes, EventTypes, GateTypes,
         ThreadsOwnTheSession, FreshStart, Listed, PlugSafe,
         StopLeads, GateHeld, OneRecord, EventsTell, StopTells, Reported, Gone,
         Live, Final
<1>15. CASE WorkerRetires(s)
  <2> USE <1>15 DEF WorkerRetires, WorkerMoves
  <2>1. FlagTypes'
    BY DEF FlagTypes, EventTypes, GateTypes
  <2>2. EventTypes'
    BY DEF FlagTypes, EventTypes, GateTypes
  <2>3. GateTypes'
    BY DEF FlagTypes, EventTypes, GateTypes
  <2>4. TypeOK'
    BY <2>1, <2>2, <2>3 DEF StopLeads, ThreadsOwnTheSession, Live, Final
  <2>5. ThreadsOwnTheSession'
    BY DEF FlagTypes, EventTypes, GateTypes, ThreadsOwnTheSession, FreshStart,
           EventsTell, Live
  <2>6. FreshStart'
    BY DEF FlagTypes, EventTypes, GateTypes, ThreadsOwnTheSession, FreshStart,
           OneRecord, Reported, Live
  <2>7. Listed'
    BY DEF StopLeads, ThreadsOwnTheSession, Listed, Live
  <2>8. PlugSafe'
    BY DEF FlagTypes, EventTypes, GateTypes, StopLeads, ThreadsOwnTheSession,
           PlugSafe, Gone, Live
  <2>9. StopLeads'
    BY DEF StopLeads
  <2>10. GateHeld'
    BY DEF FlagTypes, EventTypes, GateTypes, GateHeld, MayPublish,
           ThreadsOwnTheSession, Live
  <2>11. OneRecord'
    BY DEF FlagTypes, EventTypes, GateTypes, ThreadsOwnTheSession, FreshStart,
           GateHeld, OneRecord, EventsTell, StopTells, Reported, Live, Final
  <2>12. EventsTell'
    BY DEF FlagTypes, EventTypes, GateTypes, ThreadsOwnTheSession, FreshStart,
           GateHeld, OneRecord, EventsTell, StopTells, Reported, Live
  <2>13. StopTells'
    BY DEF FlagTypes, EventTypes, GateTypes, ThreadsOwnTheSession, FreshStart,
           OneRecord, EventsTell, StopTells, Reported, Live, Final
  <2>14. QED
    BY <2>1, <2>2, <2>3, <2>4, <2>5, <2>6, <2>7, <2>8, <2>9, <2>10, <2>11,
       <2>12, <2>13 DEF IInv
<1>16. QED
  BY <1>1, <1>2, <1>3, <1>4, <1>5, <1>6, <1>7, <1>8, <1>9, <1>10, <1>11, <1>12,
     <1>13, <1>14, <1>15 DEF WorkerStep

LEMMA MonitorKeeps ==
  ASSUME IInv, NEW s \in Session, MonitorStep(s)
  PROVE  IInv'
<1> USE SessionsAssumption
<1> USE DEF IInv, TypeOK, Session, Unloading, flagVars, eventVars, reportVars, pnpVars, plugVars
<1>1. CASE MonitorCreates(s)
  BY <1>1 DEF MonitorCreates, MonitorMoves,
         FlagTypes, EventTypes, GateTypes,
         ThreadsOwnTheSession, FreshStart, Listed, PlugSafe,
         StopLeads, GateHeld, OneRecord, EventsTell, StopTells, Reported, Gone,
         Live, Final
<1>2. CASE MonitorInserts(s)
  <2> USE <1>2 DEF MonitorInserts, MonitorMoves
  <2>1. FlagTypes'
    BY DEF FlagTypes, EventTypes, GateTypes
  <2>2. EventTypes'
    BY DEF FlagTypes, EventTypes, GateTypes
  <2>3. GateTypes'
    BY DEF FlagTypes, EventTypes, GateTypes
  <2>4. TypeOK'
    BY <2>1, <2>2, <2>3 DEF StopLeads, ThreadsOwnTheSession, Live, Final
  <2>5. ThreadsOwnTheSession'
    BY DEF FlagTypes, EventTypes, GateTypes, ThreadsOwnTheSession, FreshStart,
           EventsTell, Live
  <2>6. FreshStart'
    BY DEF FlagTypes, EventTypes, GateTypes, ThreadsOwnTheSession, FreshStart,
           OneRecord, Reported, Live
  <2>7. Listed'
    BY DEF StopLeads, ThreadsOwnTheSession, Listed, Live
  <2>8. PlugSafe'
    BY DEF FlagTypes, EventTypes, GateTypes, StopLeads, ThreadsOwnTheSession,
           PlugSafe, Gone, Live
  <2>9. StopLeads'
    BY DEF StopLeads
  <2>10. GateHeld'
    BY DEF FlagTypes, EventTypes, GateTypes, GateHeld, MayPublish,
           ThreadsOwnTheSession, Live
  <2>11. OneRecord'
    BY DEF FlagTypes, EventTypes, GateTypes, ThreadsOwnTheSession, FreshStart,
           GateHeld, OneRecord, EventsTell, StopTells, Reported, Live, Final
  <2>12. EventsTell'
    BY DEF FlagTypes, EventTypes, GateTypes, ThreadsOwnTheSession, FreshStart,
           GateHeld, OneRecord, EventsTell, StopTells, Reported, Live
  <2>13. StopTells'
    BY DEF FlagTypes, EventTypes, GateTypes, ThreadsOwnTheSession, FreshStart,
           OneRecord, EventsTell, StopTells, Reported, Live, Final
  <2>14. QED
    BY <2>1, <2>2, <2>3, <2>4, <2>5, <2>6, <2>7, <2>8, <2>9, <2>10, <2>11,
       <2>12, <2>13 DEF IInv
<1>3. CASE MonitorCannotCreate(s)
  <2> USE <1>3 DEF MonitorCannotCreate, MonitorMoves, Report
  <2>1. FlagTypes'
    BY DEF FlagTypes, EventTypes, GateTypes
  <2>2. EventTypes'
    BY DEF FlagTypes, EventTypes, GateTypes
  <2>3. GateTypes'
    BY DEF FlagTypes, EventTypes, GateTypes
  <2>4. TypeOK'
    BY <2>1, <2>2, <2>3 DEF StopLeads, ThreadsOwnTheSession, Live, Final
  <2>5. ThreadsOwnTheSession'
    BY DEF FlagTypes, EventTypes, GateTypes, ThreadsOwnTheSession, FreshStart,
           EventsTell, Live
  <2>6. FreshStart'
    BY DEF FlagTypes, EventTypes, GateTypes, ThreadsOwnTheSession, FreshStart,
           OneRecord, Reported, Live
  <2>7. Listed'
    BY DEF StopLeads, ThreadsOwnTheSession, Listed, Live
  <2>8. PlugSafe'
    BY DEF FlagTypes, EventTypes, GateTypes, StopLeads, ThreadsOwnTheSession,
           PlugSafe, Gone, Live
  <2>9. StopLeads'
    BY DEF StopLeads
  <2>10. GateHeld'
    BY DEF FlagTypes, EventTypes, GateTypes, GateHeld, MayPublish,
           ThreadsOwnTheSession, Live
  <2>11. OneRecord'
    BY DEF FlagTypes, EventTypes, GateTypes, ThreadsOwnTheSession, FreshStart,
           GateHeld, OneRecord, EventsTell, StopTells, Reported, Live, Final
  <2>12. EventsTell'
    BY DEF FlagTypes, EventTypes, GateTypes, ThreadsOwnTheSession, FreshStart,
           GateHeld, OneRecord, EventsTell, StopTells, Reported, Live
  <2>13. StopTells'
    BY DEF FlagTypes, EventTypes, GateTypes, ThreadsOwnTheSession, FreshStart,
           OneRecord, EventsTell, StopTells, Reported, Live, Final
  <2>14. QED
    BY <2>1, <2>2, <2>3, <2>4, <2>5, <2>6, <2>7, <2>8, <2>9, <2>10, <2>11,
       <2>12, <2>13 DEF IInv
<1>4. CASE MonitorWakes(s)
  <2> USE <1>4 DEF MonitorWakes, MonitorMoves
  <2>1. FlagTypes'
    BY DEF FlagTypes, EventTypes, GateTypes
  <2>2. EventTypes'
    BY DEF FlagTypes, EventTypes, GateTypes
  <2>3. GateTypes'
    BY DEF FlagTypes, EventTypes, GateTypes
  <2>4. TypeOK'
    BY <2>1, <2>2, <2>3 DEF StopLeads, ThreadsOwnTheSession, Live, Final
  <2>5. ThreadsOwnTheSession'
    BY DEF FlagTypes, EventTypes, GateTypes, ThreadsOwnTheSession, FreshStart,
           EventsTell, Live
  <2>6. FreshStart'
    BY DEF FlagTypes, EventTypes, GateTypes, ThreadsOwnTheSession, FreshStart,
           OneRecord, Reported, Live
  <2>7. Listed'
    BY DEF StopLeads, ThreadsOwnTheSession, Listed, Live
  <2>8. PlugSafe'
    BY DEF FlagTypes, EventTypes, GateTypes, StopLeads, ThreadsOwnTheSession,
           PlugSafe, Gone, Live
  <2>9. StopLeads'
    BY DEF StopLeads
  <2>10. GateHeld'
    BY DEF FlagTypes, EventTypes, GateTypes, GateHeld, MayPublish,
           ThreadsOwnTheSession, Live
  <2>11. OneRecord'
    BY DEF FlagTypes, EventTypes, GateTypes, ThreadsOwnTheSession, FreshStart,
           GateHeld, OneRecord, EventsTell, StopTells, Reported, Live, Final
  <2>12. EventsTell'
    BY DEF FlagTypes, EventTypes, GateTypes, ThreadsOwnTheSession, FreshStart,
           GateHeld, OneRecord, EventsTell, StopTells, Reported, Live
  <2>13. StopTells'
    BY DEF FlagTypes, EventTypes, GateTypes, ThreadsOwnTheSession, FreshStart,
           OneRecord, EventsTell, StopTells, Reported, Live, Final
  <2>14. QED
    BY <2>1, <2>2, <2>3, <2>4, <2>5, <2>6, <2>7, <2>8, <2>9, <2>10, <2>11,
       <2>12, <2>13 DEF IInv
<1>5. CASE MonitorTimesOut(s)
  BY <1>5 DEF MonitorTimesOut, MonitorMoves,
         FlagTypes, EventTypes, GateTypes,
         ThreadsOwnTheSession, FreshStart, Listed, PlugSafe,
         StopLeads, GateHeld, OneRecord, EventsTell, StopTells, Reported, Gone,
         Live, Final
<1>6. CASE MonitorJudges(s)
  <2> USE <1>6 DEF MonitorJudges, MonitorMoves
  <2>1. FlagTypes'
    BY DEF FlagTypes, EventTypes, GateTypes
  <2>2. EventTypes'
    BY DEF FlagTypes, EventTypes, GateTypes
  <2>3. GateTypes'
    BY DEF FlagTypes, EventTypes, GateTypes
  <2>4. TypeOK'
    BY <2>1, <2>2, <2>3 DEF StopLeads, ThreadsOwnTheSession, Live, Final
  <2>5. ThreadsOwnTheSession'
    BY DEF FlagTypes, EventTypes, GateTypes, ThreadsOwnTheSession, FreshStart,
           EventsTell, Live
  <2>6. FreshStart'
    BY DEF FlagTypes, EventTypes, GateTypes, ThreadsOwnTheSession, FreshStart,
           OneRecord, Reported, Live
  <2>7. Listed'
    BY DEF StopLeads, ThreadsOwnTheSession, Listed, Live
  <2>8. PlugSafe'
    BY DEF FlagTypes, EventTypes, GateTypes, StopLeads, ThreadsOwnTheSession,
           PlugSafe, Gone, Live
  <2>9. StopLeads'
    BY DEF StopLeads
  <2>10. GateHeld'
    BY DEF FlagTypes, EventTypes, GateTypes, GateHeld, MayPublish,
           ThreadsOwnTheSession, Live
  <2>11. OneRecord'
    BY DEF FlagTypes, EventTypes, GateTypes, ThreadsOwnTheSession, FreshStart,
           GateHeld, OneRecord, EventsTell, StopTells, Reported, Live, Final
  <2>12. EventsTell'
    BY DEF FlagTypes, EventTypes, GateTypes, ThreadsOwnTheSession, FreshStart,
           GateHeld, OneRecord, EventsTell, StopTells, Reported, Live
  <2>13. StopTells'
    BY DEF FlagTypes, EventTypes, GateTypes, ThreadsOwnTheSession, FreshStart,
           OneRecord, EventsTell, StopTells, Reported, Live, Final
  <2>14. QED
    BY <2>1, <2>2, <2>3, <2>4, <2>5, <2>6, <2>7, <2>8, <2>9, <2>10, <2>11,
       <2>12, <2>13 DEF IInv
<1>7. CASE MonitorCancels(s)
  <2> USE <1>7 DEF MonitorCancels, MonitorMoves, CancelProbe, HardStop
  <2>1. FlagTypes'
    BY DEF FlagTypes, EventTypes, GateTypes
  <2>2. EventTypes'
    BY DEF FlagTypes, EventTypes, GateTypes
  <2>3. GateTypes'
    BY DEF FlagTypes, EventTypes, GateTypes
  <2>4. TypeOK'
    BY <2>1, <2>2, <2>3 DEF StopLeads, ThreadsOwnTheSession, Live, Final
  <2>5. ThreadsOwnTheSession'
    BY DEF FlagTypes, EventTypes, GateTypes, ThreadsOwnTheSession, FreshStart,
           EventsTell, Live
  <2>6. FreshStart'
    BY DEF FlagTypes, EventTypes, GateTypes, ThreadsOwnTheSession, FreshStart,
           OneRecord, Reported, Live
  <2>7. Listed'
    BY DEF StopLeads, ThreadsOwnTheSession, Listed, Live
  <2>8. PlugSafe'
    BY DEF FlagTypes, EventTypes, GateTypes, StopLeads, ThreadsOwnTheSession,
           PlugSafe, Gone, Live
  <2>9. StopLeads'
    BY DEF StopLeads
  <2>10. GateHeld'
    BY DEF FlagTypes, EventTypes, GateTypes, GateHeld, MayPublish,
           ThreadsOwnTheSession, Live
  <2>11. OneRecord'
    BY DEF FlagTypes, EventTypes, GateTypes, ThreadsOwnTheSession, FreshStart,
           GateHeld, OneRecord, EventsTell, StopTells, Reported, Live, Final
  <2>12. EventsTell'
    BY DEF FlagTypes, EventTypes, GateTypes, ThreadsOwnTheSession, FreshStart,
           GateHeld, OneRecord, EventsTell, StopTells, Reported, Live
  <2>13. StopTells'
    BY DEF FlagTypes, EventTypes, GateTypes, ThreadsOwnTheSession, FreshStart,
           OneRecord, EventsTell, StopTells, Reported, Live, Final
  <2>14. QED
    BY <2>1, <2>2, <2>3, <2>4, <2>5, <2>6, <2>7, <2>8, <2>9, <2>10, <2>11,
       <2>12, <2>13 DEF IInv
<1>8. CASE MonitorReports(s)
  <2> USE <1>8 DEF MonitorReports, MonitorMoves, Report
  <2>1. FlagTypes'
    BY DEF FlagTypes, EventTypes, GateTypes
  <2>2. EventTypes'
    BY DEF FlagTypes, EventTypes, GateTypes
  <2>3. GateTypes'
    BY DEF FlagTypes, EventTypes, GateTypes
  <2>4. TypeOK'
    BY <2>1, <2>2, <2>3 DEF StopLeads, ThreadsOwnTheSession, Live, Final
  <2>5. ThreadsOwnTheSession'
    BY DEF FlagTypes, EventTypes, GateTypes, ThreadsOwnTheSession, FreshStart,
           EventsTell, Live
  <2>6. FreshStart'
    BY DEF FlagTypes, EventTypes, GateTypes, ThreadsOwnTheSession, FreshStart,
           OneRecord, Reported, Live
  <2>7. Listed'
    BY DEF StopLeads, ThreadsOwnTheSession, Listed, Live
  <2>8. PlugSafe'
    BY DEF FlagTypes, EventTypes, GateTypes, StopLeads, ThreadsOwnTheSession,
           PlugSafe, Gone, Live
  <2>9. StopLeads'
    BY DEF StopLeads
  <2>10. GateHeld'
    BY DEF FlagTypes, EventTypes, GateTypes, GateHeld, MayPublish,
           ThreadsOwnTheSession, Live
  <2>11. OneRecord'
    BY DEF FlagTypes, EventTypes, GateTypes, ThreadsOwnTheSession, FreshStart,
           GateHeld, OneRecord, EventsTell, StopTells, Reported, Live, Final
  <2>12. EventsTell'
    BY DEF FlagTypes, EventTypes, GateTypes, ThreadsOwnTheSession, FreshStart,
           GateHeld, OneRecord, EventsTell, StopTells, Reported, Live
  <2>13. StopTells'
    BY DEF FlagTypes, EventTypes, GateTypes, ThreadsOwnTheSession, FreshStart,
           OneRecord, EventsTell, StopTells, Reported, Live, Final
  <2>14. QED
    BY <2>1, <2>2, <2>3, <2>4, <2>5, <2>6, <2>7, <2>8, <2>9, <2>10, <2>11,
       <2>12, <2>13 DEF IInv
<1>9. QED
  BY <1>1, <1>2, <1>3, <1>4, <1>5, <1>6, <1>7, <1>8 DEF MonitorStep

LEMMA CallbacksKeep ==
  ASSUME IInv, CallbackStep \/ PowerStep \/ Unload \/ UnloadStep
  PROVE  IInv'
<1> USE SessionsAssumption
<1> USE DEF IInv, TypeOK, Session, Unloading, flagVars, eventVars, reportVars, pnpVars, plugVars
<1>1. CASE StopNotNeeded
  BY <1>1 DEF StopNotNeeded, StopReturns, Untouched,
         FlagTypes, EventTypes, GateTypes,
         ThreadsOwnTheSession, FreshStart, Listed, PlugSafe,
         StopLeads, GateHeld, OneRecord, EventsTell, StopTells, Reported, Gone,
         Live, Final
<1>2. CASE StopHard
  <2> USE <1>2 DEF StopHard, StopReturns, CancelProbe, HardStop
  <2>1. FlagTypes'
    BY DEF FlagTypes, EventTypes, GateTypes
  <2>2. EventTypes'
    BY DEF FlagTypes, EventTypes, GateTypes
  <2>3. GateTypes'
    BY DEF FlagTypes, EventTypes, GateTypes
  <2>4. TypeOK'
    BY <2>1, <2>2, <2>3 DEF StopLeads, ThreadsOwnTheSession, Live, Final
  <2>5. ThreadsOwnTheSession'
    BY DEF FlagTypes, EventTypes, GateTypes, ThreadsOwnTheSession, FreshStart,
           EventsTell, Live
  <2>6. FreshStart'
    BY DEF FlagTypes, EventTypes, GateTypes, ThreadsOwnTheSession, FreshStart,
           OneRecord, Reported, Live
  <2>7. Listed'
    BY DEF StopLeads, ThreadsOwnTheSession, Listed, Live
  <2>8. PlugSafe'
    BY DEF FlagTypes, EventTypes, GateTypes, StopLeads, ThreadsOwnTheSession,
           PlugSafe, Gone, Live
  <2>9. StopLeads'
    BY DEF StopLeads
  <2>10. GateHeld'
    BY DEF FlagTypes, EventTypes, GateTypes, GateHeld, MayPublish,
           ThreadsOwnTheSession, Live
  <2>11. OneRecord'
    BY DEF FlagTypes, EventTypes, GateTypes, ThreadsOwnTheSession, FreshStart,
           GateHeld, OneRecord, EventsTell, StopTells, Reported, Live, Final
  <2>12. EventsTell'
    BY DEF FlagTypes, EventTypes, GateTypes, ThreadsOwnTheSession, FreshStart,
           GateHeld, OneRecord, EventsTell, StopTells, Reported, Live
  <2>13. StopTells'
    BY DEF FlagTypes, EventTypes, GateTypes, ThreadsOwnTheSession, FreshStart,
           OneRecord, EventsTell, StopTells, Reported, Live, Final
  <2>14. QED
    BY <2>1, <2>2, <2>3, <2>4, <2>5, <2>6, <2>7, <2>8, <2>9, <2>10, <2>11,
       <2>12, <2>13 DEF IInv
<1>3. CASE StopGracefully
  BY <1>3 DEF StopGracefully,
         FlagTypes, EventTypes, GateTypes,
         ThreadsOwnTheSession, FreshStart, Listed, PlugSafe,
         StopLeads, GateHeld, OneRecord, EventsTell, StopTells, Reported, Gone,
         Live, Final
<1>4. CASE StopConfirmed
  BY <1>4 DEF StopConfirmed, StopReturns, Untouched,
         FlagTypes, EventTypes, GateTypes,
         ThreadsOwnTheSession, FreshStart, Listed, PlugSafe,
         StopLeads, GateHeld, OneRecord, EventsTell, StopTells, Reported, Gone,
         Live, Final
<1>5. CASE StopEscalates
  <2> USE <1>5 DEF StopEscalates, StopReturns, CancelProbe, HardStop
  <2>1. FlagTypes'
    BY DEF FlagTypes, EventTypes, GateTypes
  <2>2. EventTypes'
    BY DEF FlagTypes, EventTypes, GateTypes
  <2>3. GateTypes'
    BY DEF FlagTypes, EventTypes, GateTypes
  <2>4. TypeOK'
    BY <2>1, <2>2, <2>3 DEF StopLeads, ThreadsOwnTheSession, Live, Final
  <2>5. ThreadsOwnTheSession'
    BY DEF FlagTypes, EventTypes, GateTypes, ThreadsOwnTheSession, FreshStart,
           EventsTell, Live
  <2>6. FreshStart'
    BY DEF FlagTypes, EventTypes, GateTypes, ThreadsOwnTheSession, FreshStart,
           OneRecord, Reported, Live
  <2>7. Listed'
    BY DEF StopLeads, ThreadsOwnTheSession, Listed, Live
  <2>8. PlugSafe'
    BY DEF FlagTypes, EventTypes, GateTypes, StopLeads, ThreadsOwnTheSession,
           PlugSafe, Gone, Live
  <2>9. StopLeads'
    BY DEF StopLeads
  <2>10. GateHeld'
    BY DEF FlagTypes, EventTypes, GateTypes, GateHeld, MayPublish,
           ThreadsOwnTheSession, Live
  <2>11. OneRecord'
    BY DEF FlagTypes, EventTypes, GateTypes, ThreadsOwnTheSession, FreshStart,
           GateHeld, OneRecord, EventsTell, StopTells, Reported, Live, Final
  <2>12. EventsTell'
    BY DEF FlagTypes, EventTypes, GateTypes, ThreadsOwnTheSession, FreshStart,
           GateHeld, OneRecord, EventsTell, StopTells, Reported, Live
  <2>13. StopTells'
    BY DEF FlagTypes, EventTypes, GateTypes, ThreadsOwnTheSession, FreshStart,
           OneRecord, EventsTell, StopTells, Reported, Live, Final
  <2>14. QED
    BY <2>1, <2>2, <2>3, <2>4, <2>5, <2>6, <2>7, <2>8, <2>9, <2>10, <2>11,
       <2>12, <2>13 DEF IInv
<1>6. CASE ReleaseHardware
  <2> USE <1>6 DEF ReleaseHardware, Untouched
  <2>1. FlagTypes'
    BY DEF FlagTypes, EventTypes, GateTypes
  <2>2. EventTypes'
    BY DEF FlagTypes, EventTypes, GateTypes
  <2>3. GateTypes'
    BY DEF FlagTypes, EventTypes, GateTypes
  <2>4. TypeOK'
    BY <2>1, <2>2, <2>3 DEF StopLeads, ThreadsOwnTheSession, Live, Final
  <2>5. ThreadsOwnTheSession'
    BY DEF FlagTypes, EventTypes, GateTypes, ThreadsOwnTheSession, FreshStart,
           EventsTell, Live
  <2>6. FreshStart'
    BY DEF FlagTypes, EventTypes, GateTypes, ThreadsOwnTheSession, FreshStart,
           OneRecord, Reported, Live
  <2>7. Listed'
    BY DEF StopLeads, ThreadsOwnTheSession, Listed, Live
  <2>8. PlugSafe'
    BY DEF FlagTypes, EventTypes, GateTypes, StopLeads, ThreadsOwnTheSession,
           PlugSafe, Gone, Live
  <2>9. StopLeads'
    BY DEF StopLeads
  <2>10. GateHeld'
    BY DEF FlagTypes, EventTypes, GateTypes, GateHeld, MayPublish,
           ThreadsOwnTheSession, Live
  <2>11. OneRecord'
    BY DEF FlagTypes, EventTypes, GateTypes, ThreadsOwnTheSession, FreshStart,
           GateHeld, OneRecord, EventsTell, StopTells, Reported, Live, Final
  <2>12. EventsTell'
    BY DEF FlagTypes, EventTypes, GateTypes, ThreadsOwnTheSession, FreshStart,
           GateHeld, OneRecord, EventsTell, StopTells, Reported, Live
  <2>13. StopTells'
    BY DEF FlagTypes, EventTypes, GateTypes, ThreadsOwnTheSession, FreshStart,
           OneRecord, EventsTell, StopTells, Reported, Live, Final
  <2>14. QED
    BY <2>1, <2>2, <2>3, <2>4, <2>5, <2>6, <2>7, <2>8, <2>9, <2>10, <2>11,
       <2>12, <2>13 DEF IInv
<1>7. CASE PrepareHardware
  <2> USE <1>7 DEF PrepareHardware, ArmProbe, ArmSucceeds, ArmWithoutSerial, ArmFails, ArmFlags,
                Report, Untouched
  <2>1. FlagTypes'
    BY DEF FlagTypes, EventTypes, GateTypes
  <2>2. EventTypes'
    BY DEF FlagTypes, EventTypes, GateTypes
  <2>3. GateTypes'
    BY DEF FlagTypes, EventTypes, GateTypes
  <2>4. TypeOK'
    BY <2>1, <2>2, <2>3 DEF StopLeads, ThreadsOwnTheSession, Live, Final
  <2>5. ThreadsOwnTheSession'
    BY DEF FlagTypes, EventTypes, GateTypes, ThreadsOwnTheSession, FreshStart,
           EventsTell, Live
  <2>6. FreshStart'
    BY DEF FlagTypes, EventTypes, GateTypes, ThreadsOwnTheSession, FreshStart,
           OneRecord, Reported, Live
  <2>7. Listed'
    BY DEF StopLeads, ThreadsOwnTheSession, Listed, Live
  <2>8. PlugSafe'
    BY DEF FlagTypes, EventTypes, GateTypes, StopLeads, ThreadsOwnTheSession,
           PlugSafe, Gone, Live
  <2>9. StopLeads'
    BY DEF StopLeads
  <2>10. GateHeld'
    BY DEF FlagTypes, EventTypes, GateTypes, GateHeld, MayPublish,
           ThreadsOwnTheSession, Live
  <2>11. OneRecord'
    BY DEF FlagTypes, EventTypes, GateTypes, ThreadsOwnTheSession, FreshStart,
           GateHeld, OneRecord, EventsTell, StopTells, Reported, Live, Final
  <2>12. EventsTell'
    BY DEF FlagTypes, EventTypes, GateTypes, ThreadsOwnTheSession, FreshStart,
           GateHeld, OneRecord, EventsTell, StopTells, Reported, Live
  <2>13. StopTells'
    BY DEF FlagTypes, EventTypes, GateTypes, ThreadsOwnTheSession, FreshStart,
           OneRecord, EventsTell, StopTells, Reported, Live, Final
  <2>14. QED
    BY <2>1, <2>2, <2>3, <2>4, <2>5, <2>6, <2>7, <2>8, <2>9, <2>10, <2>11,
       <2>12, <2>13 DEF IInv
<1>8. CASE D0Exit("dx")
  BY <1>8 DEF D0Exit, Untouched,
         FlagTypes, EventTypes, GateTypes,
         ThreadsOwnTheSession, FreshStart, Listed, PlugSafe,
         StopLeads, GateHeld, OneRecord, EventsTell, StopTells, Reported, Gone,
         Live, Final
<1>9. CASE D0Exit("final")
  BY <1>9 DEF D0Exit, Untouched,
         FlagTypes, EventTypes, GateTypes,
         ThreadsOwnTheSession, FreshStart, Listed, PlugSafe,
         StopLeads, GateHeld, OneRecord, EventsTell, StopTells, Reported, Gone,
         Live, Final
<1>10. CASE D0Entry
  <2> USE <1>10 DEF D0Entry, ArmSucceeds, ArmFails, ArmFlags, Report, Untouched
  <2>1. FlagTypes'
    BY DEF FlagTypes, EventTypes, GateTypes
  <2>2. EventTypes'
    BY DEF FlagTypes, EventTypes, GateTypes
  <2>3. GateTypes'
    BY DEF FlagTypes, EventTypes, GateTypes
  <2>4. TypeOK'
    BY <2>1, <2>2, <2>3 DEF StopLeads, ThreadsOwnTheSession, Live, Final
  <2>5. ThreadsOwnTheSession'
    BY DEF FlagTypes, EventTypes, GateTypes, ThreadsOwnTheSession, FreshStart,
           EventsTell, Live
  <2>6. FreshStart'
    BY DEF FlagTypes, EventTypes, GateTypes, ThreadsOwnTheSession, FreshStart,
           OneRecord, Reported, Live
  <2>7. Listed'
    BY DEF StopLeads, ThreadsOwnTheSession, Listed, Live
  <2>8. PlugSafe'
    BY DEF FlagTypes, EventTypes, GateTypes, StopLeads, ThreadsOwnTheSession,
           PlugSafe, Gone, Live
  <2>9. StopLeads'
    BY DEF StopLeads
  <2>10. GateHeld'
    BY DEF FlagTypes, EventTypes, GateTypes, GateHeld, MayPublish,
           ThreadsOwnTheSession, Live
  <2>11. OneRecord'
    BY DEF FlagTypes, EventTypes, GateTypes, ThreadsOwnTheSession, FreshStart,
           GateHeld, OneRecord, EventsTell, StopTells, Reported, Live, Final
  <2>12. EventsTell'
    BY DEF FlagTypes, EventTypes, GateTypes, ThreadsOwnTheSession, FreshStart,
           GateHeld, OneRecord, EventsTell, StopTells, Reported, Live
  <2>13. StopTells'
    BY DEF FlagTypes, EventTypes, GateTypes, ThreadsOwnTheSession, FreshStart,
           OneRecord, EventsTell, StopTells, Reported, Live, Final
  <2>14. QED
    BY <2>1, <2>2, <2>3, <2>4, <2>5, <2>6, <2>7, <2>8, <2>9, <2>10, <2>11,
       <2>12, <2>13 DEF IInv
<1>11. CASE RemoveAsleep
  BY <1>11 DEF RemoveAsleep, Untouched,
         FlagTypes, EventTypes, GateTypes,
         ThreadsOwnTheSession, FreshStart, Listed, PlugSafe,
         StopLeads, GateHeld, OneRecord, EventsTell, StopTells, Reported, Gone,
         Live, Final
<1>12. CASE SurpriseRemoval
  <2> USE <1>12 DEF SurpriseRemoval, CancelProbe, HardStop
  <2>1. FlagTypes'
    BY DEF FlagTypes, EventTypes, GateTypes
  <2>2. EventTypes'
    BY DEF FlagTypes, EventTypes, GateTypes
  <2>3. GateTypes'
    BY DEF FlagTypes, EventTypes, GateTypes
  <2>4. TypeOK'
    BY <2>1, <2>2, <2>3 DEF StopLeads, ThreadsOwnTheSession, Live, Final
  <2>5. ThreadsOwnTheSession'
    BY DEF FlagTypes, EventTypes, GateTypes, ThreadsOwnTheSession, FreshStart,
           EventsTell, Live
  <2>6. FreshStart'
    BY DEF FlagTypes, EventTypes, GateTypes, ThreadsOwnTheSession, FreshStart,
           OneRecord, Reported, Live
  <2>7. Listed'
    BY DEF StopLeads, ThreadsOwnTheSession, Listed, Live
  <2>8. PlugSafe'
    BY DEF FlagTypes, EventTypes, GateTypes, StopLeads, ThreadsOwnTheSession,
           PlugSafe, Gone, Live
  <2>9. StopLeads'
    BY DEF StopLeads
  <2>10. GateHeld'
    BY DEF FlagTypes, EventTypes, GateTypes, GateHeld, MayPublish,
           ThreadsOwnTheSession, Live
  <2>11. OneRecord'
    BY DEF FlagTypes, EventTypes, GateTypes, ThreadsOwnTheSession, FreshStart,
           GateHeld, OneRecord, EventsTell, StopTells, Reported, Live, Final
  <2>12. EventsTell'
    BY DEF FlagTypes, EventTypes, GateTypes, ThreadsOwnTheSession, FreshStart,
           GateHeld, OneRecord, EventsTell, StopTells, Reported, Live
  <2>13. StopTells'
    BY DEF FlagTypes, EventTypes, GateTypes, ThreadsOwnTheSession, FreshStart,
           OneRecord, EventsTell, StopTells, Reported, Live, Final
  <2>14. QED
    BY <2>1, <2>2, <2>3, <2>4, <2>5, <2>6, <2>7, <2>8, <2>9, <2>10, <2>11,
       <2>12, <2>13 DEF IInv
<1>13. CASE Cleanup
  <2> USE <1>13 DEF Cleanup, CancelProbe, HardStop
  <2>1. FlagTypes'
    BY DEF FlagTypes, EventTypes, GateTypes
  <2>2. EventTypes'
    BY DEF FlagTypes, EventTypes, GateTypes
  <2>3. GateTypes'
    BY DEF FlagTypes, EventTypes, GateTypes
  <2>4. TypeOK'
    BY <2>1, <2>2, <2>3 DEF StopLeads, ThreadsOwnTheSession, Live, Final
  <2>5. ThreadsOwnTheSession'
    BY DEF FlagTypes, EventTypes, GateTypes, ThreadsOwnTheSession, FreshStart,
           EventsTell, Live
  <2>6. FreshStart'
    BY DEF FlagTypes, EventTypes, GateTypes, ThreadsOwnTheSession, FreshStart,
           OneRecord, Reported, Live
  <2>7. Listed'
    BY DEF StopLeads, ThreadsOwnTheSession, Listed, Live
  <2>8. PlugSafe'
    BY DEF FlagTypes, EventTypes, GateTypes, StopLeads, ThreadsOwnTheSession,
           PlugSafe, Gone, Live
  <2>9. StopLeads'
    BY DEF StopLeads
  <2>10. GateHeld'
    BY DEF FlagTypes, EventTypes, GateTypes, GateHeld, MayPublish,
           ThreadsOwnTheSession, Live
  <2>11. OneRecord'
    BY DEF FlagTypes, EventTypes, GateTypes, ThreadsOwnTheSession, FreshStart,
           GateHeld, OneRecord, EventsTell, StopTells, Reported, Live, Final
  <2>12. EventsTell'
    BY DEF FlagTypes, EventTypes, GateTypes, ThreadsOwnTheSession, FreshStart,
           GateHeld, OneRecord, EventsTell, StopTells, Reported, Live
  <2>13. StopTells'
    BY DEF FlagTypes, EventTypes, GateTypes, ThreadsOwnTheSession, FreshStart,
           OneRecord, EventsTell, StopTells, Reported, Live, Final
  <2>14. QED
    BY <2>1, <2>2, <2>3, <2>4, <2>5, <2>6, <2>7, <2>8, <2>9, <2>10, <2>11,
       <2>12, <2>13 DEF IInv
<1>14. CASE Unload
  BY <1>14 DEF Unload, Untouched,
         FlagTypes, EventTypes, GateTypes,
         ThreadsOwnTheSession, FreshStart, Listed, PlugSafe,
         StopLeads, GateHeld, OneRecord, EventsTell, StopTells, Reported, Gone,
         Live, Final
<1>15. CASE UnloadWaits
  BY <1>15 DEF UnloadWaits, Untouched,
         FlagTypes, EventTypes, GateTypes,
         ThreadsOwnTheSession, FreshStart, Listed, PlugSafe,
         StopLeads, GateHeld, OneRecord, EventsTell, StopTells, Reported, Gone,
         Live, Final
<1>16. CASE UnloadJoins
  BY <1>16 DEF UnloadJoins,
         FlagTypes, EventTypes, GateTypes,
         ThreadsOwnTheSession, FreshStart, Listed, PlugSafe,
         StopLeads, GateHeld, OneRecord, EventsTell, StopTells, Reported, Gone,
         Live, Final
<1>17. CASE UnloadReturns
  BY <1>17 DEF UnloadReturns, Untouched,
         FlagTypes, EventTypes, GateTypes,
         ThreadsOwnTheSession, FreshStart, Listed, PlugSafe,
         StopLeads, GateHeld, OneRecord, EventsTell, StopTells, Reported, Gone,
         Live, Final
<1>18. QED
  BY <1>1, <1>2, <1>3, <1>4, <1>5, <1>6, <1>7, <1>8, <1>9, <1>10, <1>11, <1>12,
     <1>13, <1>14, <1>15, <1>16, <1>17 DEF CallbackStep, PowerStep, UnloadStep

LEMMA IInvInit == Init => IInv
<1> SUFFICES ASSUME Init PROVE IInv
  OBVIOUS
<1> USE SessionsAssumption DEF Init, Session, Unloading, Live
<1>1. FlagTypes /\ EventTypes /\ GateTypes
  BY DEF FlagTypes, EventTypes, GateTypes
<1>2. TypeOK
  BY <1>1 DEF TypeOK
<1>3. ThreadsOwnTheSession /\ FreshStart /\ Listed
  BY DEF ThreadsOwnTheSession, FreshStart, Listed
<1>4. PlugSafe /\ StopLeads /\ GateHeld
  BY DEF PlugSafe, StopLeads, GateHeld, Gone
<1>5. OneRecord /\ EventsTell /\ StopTells
  BY DEF OneRecord, EventsTell, StopTells
<1>6. QED
  BY <1>2, <1>3, <1>4, <1>5 DEF IInv

LEMMA IInvNext == IInv /\ [Next]_vars => IInv'
<1> SUFFICES ASSUME IInv, [Next]_vars PROVE IInv'
  OBVIOUS
<1>1. CASE UNCHANGED vars
  BY <1>1 DEF vars, flagVars, eventVars, reportVars, pnpVars, plugVars, IInv,
     TypeOK, FlagTypes, EventTypes, GateTypes, ThreadsOwnTheSession, FreshStart,
     Listed, PlugSafe, StopLeads, GateHeld, OneRecord, EventsTell, StopTells,
     Reported, Gone, Live, Unloading
<1>2. QED
  BY <1>1, WorkerKeeps, MonitorKeeps, CallbacksKeep DEF Next

LEMMA InvariantHolds == Spec => []IInv
BY IInvInit, IInvNext, PTL DEF Spec

-----------------------------------------------------------------------------
\* No thread outlives the claim of its session, so that no two workers share
\* the UART and no monitor cancels or reports a later session.
THEOREM ClaimIsOwned == Spec => []ThreadsOwnTheSession
<1>1. IInv => ThreadsOwnTheSession
  BY DEF IInv
<1>2. QED
  BY <1>1, InvariantHolds, PTL

\* A session that gave up its claim left its own final record, and one that
\* was stopped gracefully is not reported abandoned.
THEOREM SessionsAreReported == Spec => []EverySessionReported
<1>1. IInv => EverySessionReported
  BY DEF IInv, OneRecord, Reported, StopTells, EverySessionReported
<1>2. QED
  BY <1>1, InvariantHolds, PTL

\* The worker never leaves a child behind a release (DeckBtPublishUartDevice
\* against DeckBtEvtDeviceReleaseHardware).
THEOREM ReleaseLeavesNoChild == Spec => []NoChildBehindRelease
<1>1. IInv => NoChildBehindRelease
  BY DEF IInv, PlugSafe, Gone, Unloading, NoChildBehindRelease
<1>2. QED
  BY <1>1, InvariantHolds, PTL

\* Unload returns when every thread has ended (DeckBtEvtDriverUnload).
THEOREM UnloadIsLast == Spec => []NoThreadBehindUnload
<1>1. IInv => NoThreadBehindUnload
  <2> SUFFICES ASSUME IInv, pnp = "unloaded", NEW s \in Session
               PROVE  ~Live(wrk[s]) /\ ~Live(mon[s])
    BY DEF NoThreadBehindUnload
  <2>1. threads = {}
    BY DEF IInv, Listed
  <2>2. ~Live(mon[s])
    BY <2>1 DEF IInv, Listed
  <2>3. mon[s] # "insert"
    BY <2>2 DEF Live
  <2>4. QED
    BY <2>1, <2>2, <2>3 DEF IInv, Listed
<1>2. QED
  BY <1>1, InvariantHolds, PTL

\* No record is written over a final one of the same session: not by the
\* cancellation, not by a late progress report (QcaUartPublishProbe and
\* QcaUartProbeMonitor under RecordGate).
THEOREM FinalIsFinal == Spec => FinalRecordStands
<1> DEFINE Stands == registry.completion \in Final
                       /\ registry'.session = registry.session
                         => registry' = registry
<1>1. ASSUME IInv, [Next]_vars PROVE Stands
  <2> USE SessionsAssumption
  <2> USE DEF IInv, FlagTypes, Reported, Final, Session
  <2>1. ASSUME NEW s \in Session, PublishEnd(s) PROVE Stands
    BY <1>1, <2>1 DEF PublishEnd, Report, GateHeld, OneRecord, TypeOK,
       ThreadsOwnTheSession, Live
  <2>2. ASSUME NEW s \in Session, MonitorCannotCreate(s) PROVE Stands
    BY <1>1, <2>2 DEF MonitorCannotCreate, MonitorMoves, Report, FreshStart,
       OneRecord, TypeOK, ThreadsOwnTheSession, Live
  <2>3. ASSUME NEW s \in Session, MonitorReports(s) PROVE Stands
    BY <1>1, <2>3 DEF MonitorReports, MonitorMoves, Report, OneRecord, TypeOK,
       ThreadsOwnTheSession, Live
  <2>4. CASE PrepareHardware \/ D0Entry
    BY <1>1, <2>4 DEF PrepareHardware, D0Entry, ArmProbe, ArmSucceeds,
       ArmWithoutSerial, ArmFails, ArmFlags, Report, Untouched, reportVars,
       OneRecord, TypeOK
  <2>5. ASSUME NEW s \in Session, WorkerStep(s), ~PublishEnd(s)
        PROVE  registry' = registry
    BY <2>5 DEF WorkerStep, PublishBegin, PublishSkipped, WorkerAnswered,
       WorkerFails, WorkerDeadline, WorkerReady, PlugBegin, PlugEnd, WorkerWoken,
       WorkerHandsBack, WorkerReleases, WorkerSignals, WorkerDone, WorkerRetires,
       reportVars
  <2>6. ASSUME NEW s \in Session, MonitorStep(s), ~MonitorCannotCreate(s),
               ~MonitorReports(s)
        PROVE  registry' = registry
    BY <2>6 DEF MonitorStep, MonitorCreates, MonitorInserts, MonitorWakes,
       MonitorTimesOut, MonitorJudges, MonitorCancels, reportVars
  <2>7. CASE CallbackStep \/ Unload \/ UnloadStep
    BY <2>7 DEF CallbackStep, StopNotNeeded, StopHard, StopGracefully,
       StopConfirmed, StopEscalates, ReleaseHardware, Unload, UnloadStep,
       UnloadWaits, UnloadJoins, UnloadReturns, Untouched, reportVars
  <2>8. CASE D0Exit("dx") \/ D0Exit("final") \/ RemoveAsleep \/ SurpriseRemoval
             \/ Cleanup
    BY <2>8 DEF D0Exit, RemoveAsleep, SurpriseRemoval, Cleanup, Untouched,
       reportVars
  <2>9. CASE UNCHANGED vars
    BY <2>9 DEF vars, reportVars
  <2>10. QED
    BY <1>1, <2>1, <2>2, <2>3, <2>4, <2>5, <2>6, <2>7, <2>8, <2>9
       DEF Next, PowerStep
<1>2. QED
  BY <1>1, InvariantHolds, PTL DEF Spec, FinalRecordStands
=============================================================================
