---------------------------- MODULE TimeoutProofs ----------------------------
(***************************************************************************)
(* Theorems about Timeout, for any signal of -s, any durations and any     *)
(* number of signals and stops.                                            *)
(***************************************************************************)
EXTENDS Timeout, TLAPS

-----------------------------------------------------------------------------
(* The inductive invariants. *)

\* There is a command once fork() has made it, and main() returns once it is reaped.
ChildKnown ==
    /\ phase = "prefork" => child = None
    /\ child = None => phase \in {"prefork", "err"}
    /\ child = "reaped" => phase = "done"

\* The last wait() is entered only after a signal has been sent.
StatusKnown ==
    /\ phase = "final" => sent # {}
    /\ phase = "done" => (status = "child" /\ child = "reaped")
                            \/ (status = "other" /\ other # None /\ sent # {})

\* The time is up only when the command has been sent a signal for it.
AlarmSent == timedout => \E s \in KillSigs \cup {"KILL"} : <<s, "alrm">> \in sent

(* While nobody has sent timeout a terminating signal, the only one that   *)
(* may be pending is the one that timeout has sent to its own group, which *)
(* the handler will ignore, and with which killsig has become SIGKILL.     *)
OwnSignalKnown ==
    /\ flags.ign # None => killsig = "KILL"
    /\ signals = 0 =>
         /\ flags.term = None
         /\ opt.foreground => pending \cap TermSigs = {}
         /\ phase \notin {"final"} \cup ended => pending \cap TermSigs \subseteq {flags.ign}

-----------------------------------------------------------------------------
(* Type correctness. *)

Flags == [chld : BOOLEAN, alrm : BOOLEAN, term : TermSigs \cup {None},
          ign : TermSigs \cup {"USR1", "KILL", None}]
Opts == [foreground : BOOLEAN, again : BOOLEAN, sig : KillSigs,
         first : Durations, second : Durations]
Sents == SUBSET ((KillSigs \cup TermSigs \cup {"KILL"}) \X {"alrm", "term"})
Phases == {"prefork", "preblock", "arm", "suspend", "woke", "wait", "final"} \cup ended

\* TypeOK, with names for the ranges that most steps need not look into.
Typed ==
    /\ opt \in Opts /\ flags \in Flags /\ sent \in Sents
    /\ phase \in Phases
    /\ pending \in SUBSET Signals
    /\ timer \in BOOLEAN /\ timedout \in BOOLEAN
    /\ killsig \in KillSigs \cup {"KILL"}
    /\ second \in Durations \cup {0}
    /\ child \in Live \cup {"zombie", "reaped", None}
    /\ other \in {"running", "zombie", "reaped", None}
    /\ status \in {"child", "other", None}
    /\ signals \in 0..MaxSignals /\ stops \in 0..MaxStops

\* The typing in the form the provers use is that of the model.
LEMMA TypedOK == Typed <=> TypeOK
  BY Zenon DEF Typed, TypeOK, Opts, Flags, Sents, Phases

\* What the handler makes of the flags: only a signal that is not ignored is noted.
LEMMA HandleFacts ==
    ASSUME NEW f \in Flags, NEW s \in Signals
    PROVE  /\ Handle(f, s) \in Flags
           /\ f.chld \/ s = "CHLD" => Handle(f, s).chld
           /\ Handle(f, s).term # f.term => s \in TermSigs /\ s # f.ign
           /\ Handle(f, s).ign = IF s = f.ign THEN None ELSE f.ign
  <1> DEFINE g == [f EXCEPT !.chld = @ \/ s = "CHLD", !.alrm = @ \/ s = "ALRM",
                            !.term = IF s \in TermSigs THEN s ELSE @]
  <1>1. CASE f.ign # None /\ s = f.ign
    <2>1. Handle(f, s) = [f EXCEPT !.ign = None] /\ s # "CHLD"
      BY <1>1, SMT DEF Handle, Flags, TermSigs, None
    <2>2. [f EXCEPT !.ign = None] \in Flags
      BY Zenon DEF Flags
    <2>3. [f EXCEPT !.ign = None].chld = f.chld /\ [f EXCEPT !.ign = None].term = f.term
          /\ [f EXCEPT !.ign = None].ign = None
      BY Zenon DEF Flags
    <2> QED
      BY <1>1, <2>1, <2>2, <2>3
  <1>2. CASE ~(f.ign # None /\ s = f.ign)
    <2>1. Handle(f, s) = g
      BY <1>2, Zenon DEF Handle
    <2>2. g \in Flags
      BY Zenon DEF Flags
    <2>3. /\ g.chld = (f.chld \/ s = "CHLD")
          /\ g.term = IF s \in TermSigs THEN s ELSE f.term
          /\ g.ign = f.ign
      BY Zenon DEF Flags
    <2>4. s # f.ign
      BY <1>2, SMT DEF Signals, TermSigs, None
    <2> QED
      BY <2>1, <2>2, <2>3, <2>4, Zenon
  <1> QED
    BY <1>1, <1>2

\* A signal that reaches timeout stays pending or runs the handler.
LEMMA DeliverType ==
    ASSUME Typed, NEW s \in Signals, Deliver(s)
    PROVE  flags' \in Flags /\ pending' \in SUBSET Signals
  <1>1. Handle(flags, s) \in Flags
    BY HandleFacts DEF Typed
  <1> QED
    BY <1>1, Zenon DEF Deliver, Typed

(* A duration is a number of seconds times that of its unit, so that it is *)
(* negative only if a negative number was given.                           *)
LEMMA DurationFacts ==
    ASSUME NEW d \in Durations
    PROVE  d \in Int /\ (Numbers \subseteq Nat => d >= 0)
  <1>1. PICK n \in Numbers, u \in Units : d \in ParseDuration(n, u)
    BY SMT DEF Durations
  <1>2. d = n * Scale(u)
    BY <1>1, Zenon DEF ParseDuration
  <1>3. Scale(u) \in {1, 60, 3600, 86400}
    BY SMT DEF Scale
  <1>4. n \in Int /\ (Numbers \subseteq Nat => n \in Nat)
    BY TimeoutAssumption, SMT
  <1> QED
    BY <1>2, <1>3, <1>4, SMT

\* A timer runs or does not.
LEMMA TimerForType == ASSUME NEW d \in Durations \cup {0} PROVE TimerFor(d) \in BOOLEAN
  <1>1. d \in Int
    BY DurationFacts
  <1> QED
    BY <1>1, SMT DEF TimerFor

\* So do the command and timeout when a signal is sent to them.
LEMMA KillType ==
    ASSUME Typed, NEW s \in KillSigs \cup TermSigs \cup {"KILL"}, NEW why \in {"alrm", "term"},
           NEW f \in Flags, KillAndGoOn(s, why, f)
    PROVE  /\ child' \in Live \cup {"zombie", "reaped", None}
           /\ pending' \in SUBSET Signals
           /\ sent' \in Sents /\ flags' \in Flags /\ timer' \in BOOLEAN
           /\ second' \in Durations \cup {0}
           /\ killsig' \in KillSigs \cup {"KILL"}
           /\ phase' \in Phases
  <1>1. child' \in Live \cup {"zombie", "reaped", None}
    BY Zenon DEF KillAndGoOn, After, Typed
  <1>2. pending' \in SUBSET Signals
    <2>1. s # "KILL" => s \in Signals
      BY TimeoutAssumption, SMT DEF Signals, TermSigs
    <2>2. "CHLD" \in Signals
      BY DEF Signals
    <2> QED
      BY <2>1, <2>2, SMT DEF KillAndGoOn, Typed
  <1>3. sent' \in Sents
    BY SMT DEF KillAndGoOn, Typed, Sents
  <1>4. flags' \in Flags
    <2>1. killsig \in TermSigs \cup {"USR1", "KILL", None}
      BY TimeoutAssumption, SMT DEF Typed
    <2>2. [f EXCEPT !.ign = killsig] \in Flags
      BY <2>1, Zenon DEF Flags
    <2> QED
      BY <2>2, Zenon DEF KillAndGoOn
  <1>5. timer' \in BOOLEAN
    BY TimerForType, Zenon DEF KillAndGoOn, Typed
  <1>6. second' \in Durations \cup {0} /\ killsig' \in KillSigs \cup {"KILL"} /\ phase' \in Phases
    BY SMT DEF KillAndGoOn, Typed, Phases, ended
  <1> QED
    BY <1>1, <1>2, <1>3, <1>4, <1>5, <1>6

\* It holds when main() has parsed its arguments.
LEMMA TypeInit == Init => Typed
  <1> SUFFICES ASSUME Init PROVE Typed
    OBVIOUS
  <1>1. flags \in Flags /\ timer \in BOOLEAN /\ timedout \in BOOLEAN
    BY DEF Init, Flags
  <1>2. opt \in Opts /\ killsig \in KillSigs /\ second \in Durations
    BY DEF Init, Opts
  <1>3. sent \in Sents /\ pending \in SUBSET Signals
    BY DEF Init, Sents
  <1>4. other \in {"running", "zombie", "reaped", None}
    BY DEF Init
  <1> QED
    BY <1>1, <1>2, <1>3, <1>4, TimeoutAssumption, SMT DEF Init, Typed, Phases

\* Every step of main() and of its surroundings keeps it.
LEMMA TypeStep == Typed /\ [Next]_vars => Typed'
  <1> SUFFICES ASSUME Typed, [Next]_vars PROVE Typed'
    OBVIOUS
  <1> USE TimeoutAssumption DEF Typed, Phases, ended, Live, None
  <1>1. CASE Fork
    BY <1>1, SMT DEF Fork
  <1>2. CASE Block
    BY <1>2, SMT DEF Block
  <1>3. CASE Arm
    <2>1. timer' \in BOOLEAN
      BY <1>3, TimerForType, Zenon DEF Arm, Opts
    <2> QED
      BY <1>3, <2>1, SMT DEF Arm
  <1>4. CASE Sigsuspend
    <2>1. flags' \in Flags /\ pending' \in SUBSET Signals
      <3>1. PICK s \in pending : pending' = pending \ {s} /\ flags' = Handle(flags, s)
        BY <1>4 DEF Sigsuspend
      <3>2. s \in Signals
        BY <3>1
      <3> QED
        BY <3>1, <3>2, HandleFacts, Zenon
    <2> QED
      BY <1>4, <2>1, SMT DEF Sigsuspend
  <1>5. CASE DispatchChld
    <2>1. flags' \in Flags
      BY <1>5, Zenon DEF DispatchChld, Flags
    <2> QED
      BY <1>5, <2>1, SMT DEF DispatchChld
  <1>6. CASE WaitChld
    BY <1>6, SMT DEF WaitChld
  <1>7. CASE DispatchAlrm
    <2>1. [flags EXCEPT !.alrm = FALSE] \in Flags
      BY Zenon DEF Flags
    <2>2. timedout' \in BOOLEAN
      BY <1>7 DEF DispatchAlrm
    <2> HIDE DEF Typed
    <2>3. /\ KillAndGoOn(killsig, "alrm", [flags EXCEPT !.alrm = FALSE])
          /\ killsig \in KillSigs \cup {"KILL"}
      BY <1>7 DEF DispatchAlrm, Typed
    <2> QED
      BY <1>7, <2>1, <2>2, <2>3, KillType, Zenon DEF DispatchAlrm, Typed
  <1>8. CASE DispatchTerm
    <2> DEFINE k == IF opt.foreground THEN flags.term ELSE killsig
    <2>1. k \in KillSigs \cup TermSigs \cup {"KILL"}
      BY <1>8, SMT DEF DispatchTerm, Flags
    <2>2. KillAndGoOn(k, "term", flags)
      BY <1>8 DEF DispatchTerm
    <2> HIDE DEF Typed, k
    <2> QED
      BY <1>8, <2>1, <2>2, KillType, Zenon DEF DispatchTerm, Typed
  <1>9. CASE DispatchNone
    BY <1>9, SMT DEF DispatchNone
  <1>10. CASE FinalWait
    BY <1>10, SMT DEF FinalWait
  <1>11. CASE Expire
    <2>1. flags' \in Flags /\ pending' \in SUBSET Signals
      BY <1>11, DeliverType DEF Expire, Signals
    <2>2. timer' \in BOOLEAN
      BY <1>11 DEF Expire
    <2> QED
      BY <1>11, <2>1, <2>2, SMT DEF Expire
  <1>12. CASE Exec
    BY <1>12, SMT DEF Exec
  <1>13. CASE ChildExit
    <2>1. flags' \in Flags /\ pending' \in SUBSET Signals
      BY <1>13, DeliverType DEF ChildExit, Signals
    <2> QED
      BY <1>13, <2>1, SMT DEF ChildExit
  <1>14. CASE ChildStop
    <2>1. flags' \in Flags /\ pending' \in SUBSET Signals
      BY <1>14, DeliverType DEF ChildStop, Signals
    <2> QED
      BY <1>14, <2>1, SMT DEF ChildStop
  <1>15. CASE ChildCont
    <2>1. flags' \in Flags /\ pending' \in SUBSET Signals
      BY <1>15, DeliverType DEF ChildCont, Signals
    <2> QED
      BY <1>15, <2>1, SMT DEF ChildCont
  <1>16. CASE OtherExit
    <2>1. flags' \in Flags /\ pending' \in SUBSET Signals
      BY <1>16, DeliverType DEF OtherExit, Signals
    <2> QED
      BY <1>16, <2>1, SMT DEF OtherExit
  <1>17. ASSUME NEW s \in TermSigs, Signal(s) PROVE Typed'
    <2>1. flags' \in Flags /\ pending' \in SUBSET Signals
      BY <1>17, DeliverType DEF Signal, Signals
    <2> QED
      BY <1>17, <2>1, SMT DEF Signal
  <1>18. CASE UNCHANGED vars
    BY <1>18, SMT DEF vars
  <1> QED
    BY <1>1, <1>2, <1>3, <1>4, <1>5, <1>6, <1>7, <1>8, <1>9,
       <1>10, <1>11, <1>12, <1>13, <1>14, <1>15, <1>16, <1>17, <1>18, Zenon
    DEF Next, Main, Environment

\* Every state that timeout reaches is well typed.
THEOREM TypeCorrect == Spec => []TypeOK
  BY TypeInit, TypeStep, TypedOK, PTL DEF Spec
-----------------------------------------------------------------------------
(* The command and what main() knows of it. *)

\* There is a command once fork() has made it, and nothing has been sent before.
LEMMA KnownInit == Init => ChildKnown /\ StatusKnown /\ AlarmSent
  BY SMT DEF Init, ChildKnown, StatusKnown, AlarmSent, None

\* Every step keeps that.
LEMMA ChildStep == Typed /\ ChildKnown /\ [Next]_vars => ChildKnown'
  <1> SUFFICES ASSUME Typed, ChildKnown, [Next]_vars PROVE ChildKnown'
    OBVIOUS
  <1> USE DEF Typed, Phases, ended, Live, None, ChildKnown
  <1>1. CASE Fork
    BY <1>1, SMT DEF Fork
  <1>2. CASE Block
    BY <1>2, SMT DEF Block
  <1>3. CASE Arm
    BY <1>3, SMT DEF Arm
  <1>4. CASE Sigsuspend
    BY <1>4, SMT DEF Sigsuspend
  <1>5. CASE DispatchChld
    BY <1>5, SMT DEF DispatchChld
  <1>6. CASE WaitChld
    BY <1>6, SMT DEF WaitChld
  <1>7. CASE DispatchAlrm
    BY <1>7, SMT DEF DispatchAlrm, KillAndGoOn, After
  <1>8. CASE DispatchTerm
    BY <1>8, SMT DEF DispatchTerm, KillAndGoOn, After
  <1>9. CASE DispatchNone
    BY <1>9, SMT DEF DispatchNone
  <1>10. CASE FinalWait
    BY <1>10, SMT DEF FinalWait
  <1>11. CASE Expire
    BY <1>11, SMT DEF Expire
  <1>12. CASE Exec
    BY <1>12, SMT DEF Exec
  <1>13. CASE ChildExit
    BY <1>13, SMT DEF ChildExit
  <1>14. CASE ChildStop
    BY <1>14, SMT DEF ChildStop
  <1>15. CASE ChildCont
    BY <1>15, SMT DEF ChildCont
  <1>16. CASE OtherExit
    BY <1>16, SMT DEF OtherExit
  <1>17. ASSUME NEW s \in TermSigs, Signal(s) PROVE ChildKnown'
    BY <1>17, SMT DEF Signal
  <1>18. CASE UNCHANGED vars
    BY <1>18, SMT DEF vars
  <1> QED
    BY <1>1, <1>2, <1>3, <1>4, <1>5, <1>6, <1>7, <1>8, <1>9,
       <1>10, <1>11, <1>12, <1>13, <1>14, <1>15, <1>16, <1>17, <1>18, Zenon
    DEF Next, Main, Environment

\* So does it keep what is known of the status that main() returns.
LEMMA StatusStep == Typed /\ ChildKnown /\ StatusKnown /\ [Next]_vars => StatusKnown'
  <1> SUFFICES ASSUME Typed, ChildKnown, StatusKnown, [Next]_vars PROVE StatusKnown'
    OBVIOUS
  <1> USE DEF Typed, Phases, ended, Live, None, ChildKnown, StatusKnown
  <1>1. CASE Fork
    BY <1>1, SMT DEF Fork
  <1>2. CASE Block
    BY <1>2, SMT DEF Block
  <1>3. CASE Arm
    BY <1>3, SMT DEF Arm
  <1>4. CASE Sigsuspend
    BY <1>4, SMT DEF Sigsuspend
  <1>5. CASE DispatchChld
    BY <1>5, SMT DEF DispatchChld
  <1>6. CASE WaitChld
    BY <1>6, SMT DEF WaitChld
  <1>7. CASE DispatchAlrm
    <2>1. sent' # {}
      BY <1>7, Zenon DEF DispatchAlrm, KillAndGoOn
    <2>2. phase' # "done"
      BY <1>7, Zenon DEF DispatchAlrm, KillAndGoOn
    <2> QED
      BY <2>1, <2>2
  <1>8. CASE DispatchTerm
    <2>1. sent' # {}
      BY <1>8, Zenon DEF DispatchTerm, KillAndGoOn
    <2>2. phase' # "done"
      BY <1>8, Zenon DEF DispatchTerm, KillAndGoOn
    <2> QED
      BY <2>1, <2>2
  <1>9. CASE DispatchNone
    BY <1>9, SMT DEF DispatchNone
  <1>10. CASE FinalWait
    BY <1>10, SMT DEF FinalWait
  <1>11. CASE Expire
    BY <1>11, SMT DEF Expire
  <1>12. CASE Exec
    BY <1>12, SMT DEF Exec
  <1>13. CASE ChildExit
    BY <1>13, SMT DEF ChildExit
  <1>14. CASE ChildStop
    BY <1>14, SMT DEF ChildStop
  <1>15. CASE ChildCont
    BY <1>15, SMT DEF ChildCont
  <1>16. CASE OtherExit
    BY <1>16, SMT DEF OtherExit
  <1>17. ASSUME NEW s \in TermSigs, Signal(s) PROVE StatusKnown'
    BY <1>17, SMT DEF Signal
  <1>18. CASE UNCHANGED vars
    BY <1>18, SMT DEF vars
  <1> QED
    BY <1>1, <1>2, <1>3, <1>4, <1>5, <1>6, <1>7, <1>8, <1>9,
       <1>10, <1>11, <1>12, <1>13, <1>14, <1>15, <1>16, <1>17, <1>18, Zenon
    DEF Next, Main, Environment
\* The signal is recorded in the step that finds the time up, and stays so.
LEMMA AlarmStep == Typed /\ AlarmSent /\ [Next]_vars => AlarmSent'
  <1> SUFFICES ASSUME Typed, AlarmSent, [Next]_vars PROVE AlarmSent'
    OBVIOUS
  <1>1. CASE DispatchAlrm
    <2>1. sent' = sent \cup {<<killsig, "alrm">>}
      BY <1>1, Zenon DEF DispatchAlrm, KillAndGoOn
    <2>2. killsig \in KillSigs \cup {"KILL"}
      BY DEF Typed
    <2> QED
      BY <2>1, <2>2 DEF AlarmSent
  <1>2. CASE DispatchTerm
    BY <1>2, Zenon DEF DispatchTerm, KillAndGoOn, AlarmSent
  <1>3. CASE ~DispatchAlrm /\ ~DispatchTerm
    <2>1. UNCHANGED <<timedout, sent>>
      BY <1>3, Zenon
      DEF Next, Main, Environment, Fork, Block, Arm, Sigsuspend, DispatchChld, WaitChld,
          DispatchNone, FinalWait, Expire, Exec, ChildExit, ChildStop, ChildCont, OtherExit,
          Signal, vars
    <2> QED
      BY <2>1 DEF AlarmSent
  <1> QED
    BY <1>1, <1>2, <1>3
(* When timeout has returned its command has been reaped, and its status   *)
(* is the command's own, or 124 after an alarm; excepted is the last       *)
(* wait(), which may take the end of an inherited child for the command's. *)
THEOREM ReturnsChild == Spec => []ReturnsForChild
  <1>1. Typed /\ StatusKnown /\ AlarmSent => ReturnsForChild
    <2> SUFFICES ASSUME Typed, StatusKnown, AlarmSent, phase = "done", other = None \/ sent = {}
                 PROVE  /\ child = "reaped"
                        /\ \A preserve \in BOOLEAN :
                             /\ ExitStatus(preserve) \in {"124", "child"}
                             /\ ExitStatus(preserve) = "124" =>
                                  \E s \in KillSigs \cup {"KILL"} : <<s, "alrm">> \in sent
      BY DEF ReturnsForChild
    <2>1. child = "reaped" /\ status = "child"
      BY DEF StatusKnown
    <2> QED
      BY <2>1 DEF AlarmSent, ExitStatus
  <1>2. Spec => [](Typed /\ ChildKnown /\ StatusKnown /\ AlarmSent)
    BY TypeInit, TypeStep, KnownInit, ChildStep, StatusStep, AlarmStep, PTL DEF Spec
  <1> QED
    BY <1>1, <1>2, PTL

\* The hypothesis of the next theorem: parse_duration() was given no negative number.
NonNegative == Numbers \subseteq Nat

\* main() ends by return, by its own SIGKILL, or by err() when fork() fails.
LEMMA AbandonStep ==
    NonNegative /\ Typed /\ ChildKnown /\ NeverAbandons /\ [Next]_vars => NeverAbandons'
  <1> SUFFICES ASSUME NonNegative, Typed, ChildKnown, NeverAbandons, [Next]_vars
               PROVE  NeverAbandons'
    OBVIOUS
  <1>a. ~SetitimerFails(opt.first) /\ ~SetitimerFails(second)
    <2>1. opt.first \in Durations /\ second \in Durations \cup {0}
      BY Zenon DEF Typed, Opts
    <2>2. opt.first >= 0 /\ second >= 0 /\ opt.first \in Int /\ second \in Int
      BY <2>1, DurationFacts DEF NonNegative
    <2> QED
      BY <2>2, SMT DEF SetitimerFails
  <1> USE <1>a DEF Typed, Phases, ended, Live, None, ChildKnown, NeverAbandons
  <1>1. CASE Fork
    BY <1>1, SMT DEF Fork
  <1>2. CASE Block
    BY <1>2, SMT DEF Block
  <1>3. CASE Arm
    BY <1>3, SMT DEF Arm
  <1>4. CASE Sigsuspend
    BY <1>4, SMT DEF Sigsuspend
  <1>5. CASE DispatchChld
    BY <1>5, SMT DEF DispatchChld
  <1>6. CASE WaitChld
    BY <1>6, SMT DEF WaitChld
  <1>7. CASE DispatchAlrm
    BY <1>7, SMT DEF DispatchAlrm, KillAndGoOn, After
  <1>8. CASE DispatchTerm
    BY <1>8, SMT DEF DispatchTerm, KillAndGoOn, After
  <1>9. CASE DispatchNone
    BY <1>9, SMT DEF DispatchNone
  <1>10. CASE FinalWait
    BY <1>10, SMT DEF FinalWait
  <1>11. CASE Expire
    BY <1>11, SMT DEF Expire
  <1>12. CASE Exec
    BY <1>12, SMT DEF Exec
  <1>13. CASE ChildExit
    BY <1>13, SMT DEF ChildExit
  <1>14. CASE ChildStop
    BY <1>14, SMT DEF ChildStop
  <1>15. CASE ChildCont
    BY <1>15, SMT DEF ChildCont
  <1>16. CASE OtherExit
    BY <1>16, SMT DEF OtherExit
  <1>17. ASSUME NEW s \in TermSigs, Signal(s) PROVE NeverAbandons'
    BY <1>17, SMT DEF Signal
  <1>18. CASE UNCHANGED vars
    BY <1>18, SMT DEF vars
  <1> QED
    BY <1>1, <1>2, <1>3, <1>4, <1>5, <1>6, <1>7, <1>8, <1>9,
       <1>10, <1>11, <1>12, <1>13, <1>14, <1>15, <1>16, <1>17, <1>18, Zenon
    DEF Next, Main, Environment

(* timeout is not gone while its command still runs, whichever way main()  *)
(* ends: return, err() or being killed along with its own group; only the  *)
(* end of an inherited child may be mistaken for the command's.            *)
THEOREM NotAbandoned == NonNegative => (Spec => []NeverAbandons)
  <1> SUFFICES ASSUME NonNegative PROVE Spec => []NeverAbandons
    OBVIOUS
  <1>1. Init => NeverAbandons
    BY DEF Init, NeverAbandons, ended
  <1>2. Typed /\ ChildKnown /\ NeverAbandons /\ [Next]_vars => NeverAbandons'
    BY AbandonStep
  <1> QED
    BY <1>1, <1>2, TypeInit, TypeStep, KnownInit, ChildStep, PTL DEF Spec

-----------------------------------------------------------------------------
(* What main() is told. *)

\* A death of the command that main() has not seen is pending or noted.
LEMMA DeathStep ==
    Typed /\ ChildKnown /\ ChildDeathRemembered /\ [Next]_vars => ChildDeathRemembered'
  <1> SUFFICES ASSUME Typed, ChildKnown, ChildDeathRemembered, [Next]_vars
               PROVE  ChildDeathRemembered'
    OBVIOUS
  <1>a. "CHLD" \in Signals
    BY DEF Signals
  <1>b. ASSUME NEW s \in Signals, Deliver(s), phase' = phase,
               child' = child \/ s = "CHLD" \/ child' # "zombie", other' = other \/ other' # None
        PROVE  ChildDeathRemembered'
    <2>1. CASE phase \in {"prefork", "preblock"}
      BY <1>b, <2>1, HandleFacts, Zenon DEF Deliver, Typed, ChildDeathRemembered
    <2>2. CASE phase \notin {"prefork", "preblock"}
      BY <1>b, <2>2, Zenon DEF Deliver, ChildDeathRemembered
    <2> QED
      BY <2>1, <2>2
  <1>c. ASSUME NEW s, NEW why, NEW f, KillAndGoOn(s, why, f), phase = "woke", ~flags.chld,
               other' = other
        PROVE  ChildDeathRemembered'
    <2>1. child' = "zombie" => child = "zombie" \/ child \in Live
      BY <1>c, SMT DEF KillAndGoOn, After, Live
    <2>2. /\ pending \subseteq pending'
          /\ child \in Live /\ child' = "zombie" => "CHLD" \in pending'
      BY <1>c, Zenon DEF KillAndGoOn
    <2> QED
      BY <1>c, <2>1, <2>2, Zenon DEF ChildDeathRemembered
  <1> USE DEF ChildDeathRemembered
  <1>1. CASE Fork
    BY <1>1, SMT DEF Fork
  <1>2. CASE Block
    BY <1>2, SMT DEF Block
  <1>3. CASE Arm
    BY <1>3, SMT DEF Arm
  <1>4. CASE Sigsuspend
    <2>1. PICK s \in pending : pending' = pending \ {s} /\ flags' = Handle(flags, s)
      BY <1>4 DEF Sigsuspend
    <2>2. s \in Signals /\ flags \in Flags
      BY <2>1 DEF Typed
    <2>3. child' = child /\ other' = other /\ phase = "suspend"
      BY <1>4 DEF Sigsuspend
    <2> QED
      BY <2>1, <2>2, <2>3, HandleFacts, Zenon
  <1>5. CASE DispatchChld
    BY <1>5, SMT DEF DispatchChld
  <1>6. CASE WaitChld
    BY <1>6, SMT DEF WaitChld, None
  <1>7. CASE DispatchAlrm
    BY <1>7, <1>c DEF DispatchAlrm
  <1>8. CASE DispatchTerm
    BY <1>8, <1>c DEF DispatchTerm
  <1>9. CASE DispatchNone
    BY <1>9, SMT DEF DispatchNone
  <1>10. CASE FinalWait
    BY <1>10, SMT DEF FinalWait
  <1>11. CASE Expire
    BY <1>11, <1>b DEF Expire, Signals
  <1>12. CASE Exec
    BY <1>12, SMT DEF Exec
  <1>13. CASE ChildExit
    BY <1>13, <1>b DEF ChildExit, Signals
  <1>14. CASE ChildStop
    BY <1>14, <1>b DEF ChildStop, Signals
  <1>15. CASE ChildCont
    BY <1>15, SMT DEF ChildCont
  <1>16. CASE OtherExit
    BY <1>16, <1>b DEF OtherExit, Signals, None
  <1>17. ASSUME NEW s \in TermSigs, Signal(s) PROVE ChildDeathRemembered'
    BY <1>17, <1>b DEF Signal, Signals
  <1>18. CASE UNCHANGED vars
    BY <1>18, SMT DEF vars
  <1> QED
    BY <1>1, <1>2, <1>3, <1>4, <1>5, <1>6, <1>7, <1>8, <1>9,
       <1>10, <1>11, <1>12, <1>13, <1>14, <1>15, <1>16, <1>17, <1>18, Zenon
    DEF Next, Main, Environment

(* The end of the command is never forgotten: until main() has seen it,    *)
(* SIGCHLD is pending or sig_chld is set, if there is no inherited child.  *)
THEOREM DeathRemembered == Spec => []ChildDeathRemembered
  <1>1. Init => ChildDeathRemembered
    <2>1. Init => phase = "prefork"
      BY DEF Init
    <2> QED
      BY <2>1 DEF ChildDeathRemembered
  <1> QED
    BY <1>1, DeathStep, TypeInit, TypeStep, KnownInit, ChildStep, PTL DEF Spec
\* A signal that is not a user's leaves what is known of the own one.
LEMMA OwnStep == Typed /\ OwnSignalKnown /\ [Next]_vars => OwnSignalKnown'
  <1> SUFFICES ASSUME Typed, OwnSignalKnown, [Next]_vars PROVE OwnSignalKnown'
    OBVIOUS
  <1>t. /\ flags \in Flags /\ pending \subseteq Signals /\ signals \in Nat
        /\ flags.ign \in TermSigs \cup {"USR1", "KILL", None}
        /\ {"CHLD", "ALRM"} \subseteq Signals /\ TermSigs \subseteq Signals
        /\ \A s \in {"CHLD", "ALRM"} : s \notin TermSigs /\ s # flags.ign
    BY TimeoutAssumption, SMT DEF Typed, Flags, Signals, TermSigs, None
  <1>b. ASSUME NEW s \in {"CHLD", "ALRM"}, Deliver(s), UNCHANGED <<opt, phase, killsig, signals>>
        PROVE  OwnSignalKnown'
    <2>1. /\ Handle(flags, s).ign = flags.ign /\ Handle(flags, s).term = flags.term
      BY <1>t, <1>b, HandleFacts, Zenon
    <2>2. /\ flags'.ign = flags.ign /\ flags'.term = flags.term
          /\ pending' \cap TermSigs = pending \cap TermSigs
      BY <1>t, <1>b, <2>1, Zenon DEF Deliver
    <2> QED
      BY <1>b, <2>2, SMT DEF OwnSignalKnown
  <1>c. ASSUME NEW s, NEW why, NEW f, KillAndGoOn(s, why, f), UNCHANGED <<opt, signals>>,
               f \in Flags, f.ign = flags.ign, f.term = flags.term,
               phase = "woke", signals = 0 => s = killsig
        PROVE  OwnSignalKnown'
    <2>1. flags'.term = flags.term /\ flags'.ign = IF opt.again THEN killsig ELSE flags.ign
      BY <1>c, Zenon DEF KillAndGoOn, Flags
    <2>2. /\ killsig' = IF opt.again THEN "KILL" ELSE killsig
          /\ ~opt.foreground /\ s = "KILL" => phase' = "killed"
          /\ ~opt.again => phase' \in {"killed", "final"}
      BY <1>c, Zenon DEF KillAndGoOn
    <2>3. pending' \cap TermSigs \subseteq
            (pending \cap TermSigs) \cup (IF ~opt.foreground /\ s # "KILL" THEN {s} ELSE {})
      BY <1>c, <1>t, SMT DEF KillAndGoOn
    <2>4. (flags'.ign # None => killsig' = "KILL")
      BY <2>1, <2>2 DEF OwnSignalKnown
    <2>5. ASSUME signals' = 0
          PROVE  /\ flags'.term = None
                 /\ opt'.foreground => pending' \cap TermSigs = {}
      BY <1>c, <2>1, <2>3, <2>5, SMT DEF OwnSignalKnown
    <2>6. ASSUME signals' = 0, phase' \notin {"final"} \cup ended
          PROVE  pending' \cap TermSigs \subseteq {flags'.ign}
      <3>1. opt.again /\ flags'.ign = killsig /\ s = killsig /\ signals = 0
        BY <1>c, <2>1, <2>2, <2>6 DEF ended
      <3>2. CASE opt.foreground
        BY <1>c, <2>5, <2>6, <3>2
      <3>3. CASE ~opt.foreground
        <4>1. killsig # "KILL" /\ flags.ign = None
          BY <2>2, <2>6, <3>1, <3>3 DEF OwnSignalKnown, ended
        <4>2. pending \cap TermSigs = {}
          BY <1>c, <3>1, <4>1, SMT DEF OwnSignalKnown, None, TermSigs, ended
        <4> QED
          BY <2>3, <3>1, <4>2
      <3> QED
        BY <3>2, <3>3
    <2> QED
      BY <2>4, <2>5, <2>6 DEF OwnSignalKnown
  <1>1. CASE Fork
    BY <1>1, Zenon DEF Fork, OwnSignalKnown, ended
  <1>2. CASE Block
    BY <1>2, Zenon DEF Block, OwnSignalKnown, ended
  <1>3. CASE Arm
    BY <1>3, Zenon DEF Arm, OwnSignalKnown, ended
  <1>4. CASE Sigsuspend
    <2>1. PICK s \in pending : pending' = pending \ {s} /\ flags' = Handle(flags, s)
      BY <1>4 DEF Sigsuspend
    <2>2. /\ flags'.term # flags.term => s \in TermSigs /\ s # flags.ign
          /\ flags'.ign = IF s = flags.ign THEN None ELSE flags.ign
      BY <1>t, <2>1, HandleFacts, Zenon
    <2>3. UNCHANGED <<opt, killsig, signals>> /\ phase = "suspend"
      BY <1>4 DEF Sigsuspend
    <2>4. ASSUME signals = 0
          PROVE  flags'.term = flags.term /\ pending' \cap TermSigs \subseteq {flags'.ign}
      <3>1. pending \cap TermSigs \subseteq {flags.ign}
        BY <2>3, <2>4, Zenon DEF OwnSignalKnown, ended
      <3> QED
        BY <2>1, <2>2, <3>1
    <2> QED
      BY <2>1, <2>2, <2>3, <2>4, Zenon DEF OwnSignalKnown
  <1>5. CASE DispatchChld
    <2>1. flags'.term = flags.term /\ flags'.ign = flags.ign
      BY <1>5, <1>t, Zenon DEF DispatchChld, Flags
    <2> QED
      BY <1>5, <2>1, Zenon DEF DispatchChld, OwnSignalKnown, ended
  <1>6. CASE WaitChld
    BY <1>6, Zenon DEF WaitChld, OwnSignalKnown, ended
  <1>7. CASE DispatchAlrm
    <2> DEFINE f == [flags EXCEPT !.alrm = FALSE]
    <2>1. f \in Flags /\ f.ign = flags.ign /\ f.term = flags.term
      BY <1>t, Zenon DEF Flags
    <2> QED
      BY <1>7, <1>c, <2>1 DEF DispatchAlrm
  <1>8. CASE DispatchTerm
    <2>1. signals # 0
      BY <1>8, Zenon DEF DispatchTerm, OwnSignalKnown
    <2> QED
      BY <1>8, <1>c, <1>t, <2>1 DEF DispatchTerm
  <1>9. CASE DispatchNone
    BY <1>9, Zenon DEF DispatchNone, OwnSignalKnown, ended
  <1>10. CASE FinalWait
    BY <1>10, Zenon DEF FinalWait, OwnSignalKnown, ended
  <1>11. CASE Expire
    BY <1>11, <1>b DEF Expire
  <1>12. CASE Exec
    BY <1>12, Zenon DEF Exec, OwnSignalKnown, ended
  <1>13. CASE ChildExit
    BY <1>13, <1>b DEF ChildExit
  <1>14. CASE ChildStop
    BY <1>14, <1>b DEF ChildStop
  <1>15. CASE ChildCont
    BY <1>15, <1>b DEF ChildCont
  <1>16. CASE OtherExit
    BY <1>16, <1>b DEF OtherExit
  <1>17. ASSUME NEW s \in TermSigs, Signal(s) PROVE OwnSignalKnown'
    <2>1. signals' # 0
      BY <1>17, <1>t, SMT DEF Signal
    <2>2. flags'.ign = flags.ign \/ flags'.ign = None
      <3>1. s \in Signals /\ Deliver(s)
        BY <1>17, <1>t DEF Signal
      <3>2. Handle(flags, s).ign = flags.ign \/ Handle(flags, s).ign = None
        BY <1>t, <3>1, HandleFacts
      <3> QED
        BY <3>1, <3>2, Zenon DEF Deliver
    <2> QED
      BY <1>17, <2>1, <2>2, Zenon DEF Signal, OwnSignalKnown
  <1>18. CASE UNCHANGED vars
    BY <1>18, SMT DEF vars, OwnSignalKnown
  <1> QED
    BY <1>1, <1>2, <1>3, <1>4, <1>5, <1>6, <1>7, <1>8, <1>9,
       <1>10, <1>11, <1>12, <1>13, <1>14, <1>15, <1>16, <1>17, <1>18, Zenon
    DEF Next, Main, Environment

(* The signal that timeout sends to its own process group is not mistaken  *)
(* for a user's: sig_term is set only if somebody sent timeout a signal.   *)
THEOREM OwnIgnored == Spec => []OwnSignalIgnored
  <1>1. Init => OwnSignalKnown
    BY DEF Init, OwnSignalKnown
  <1>2. Typed /\ OwnSignalKnown => OwnSignalIgnored
    BY TimeoutAssumption, SMT DEF Typed, OwnSignalKnown, OwnSignalIgnored
  <1> QED
    BY <1>1, <1>2, OwnStep, TypeInit, TypeStep, PTL DEF Spec
==============================================================================
