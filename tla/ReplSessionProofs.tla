-------------------------- MODULE ReplSessionProofs -------------------------
(***************************************************************************)
(* Machine-checked proofs about ReplSession, for every value of its        *)
(* constants: what a session keeps from turn to turn, where it starts      *)
(* from, and what its reports say.                                         *)
(***************************************************************************)
EXTENDS ReplSession, TLAPS

\* A step is one of the actions, whatever group Next puts it in.
LEMMA NextDisjuncts ==
  ASSUME Next
  PROVE  \/ Setup \/ LoadContext \/ Cleanup \/ Start \/ Finish \/ Raise \/ Exit \/ Truncate
         \/ Dump \/ Report \/ Kill \/ ContainerDies \/ Refuse
         \/ \E n \in Names, v \in Values \cup {Unset} : Bind(n, v)
         \/ \E c \in Contents \cup {NoContent}, ready \in BOOLEAN : WriteAnswer(c, ready)
         \/ \E a \in {FreshAnswer, NotDict, Deleted} : RebindAnswer(a)
BY DEF Next, Block, Code

\* The values the script starts from have their types.
LEMMA StartTypes ==
  /\ Nothing \in Namespaces /\ FreshAnswer \in Dicts /\ {NotDict, Deleted} \cap Dicts = {}
  /\ Deleted # NotDict
  /\ \A a \in Dicts \cup {NotDict} : Final(a) \in Contents \cup {NoContent}
<1>1. Nothing \in Namespaces
  BY DEF Nothing, Namespaces
<1>2. FreshAnswer \in Dicts
  BY DEF FreshAnswer, Dicts
<1>3. {NotDict, Deleted} \cap Dicts = {} /\ Deleted # NotDict
  <2>1. \A a \in Dicts : a.dict
    BY DEF Dicts
  <2>2. ~NotDict.dict /\ ~Deleted.dict /\ ~NotDict.ready /\ Deleted.ready
    BY DEF NotDict, Deleted
  <2> QED
    BY <2>1, <2>2
<1>4. \A a \in Dicts \cup {NotDict} : Final(a) \in Contents \cup {NoContent}
  <2>1. \A a \in Dicts : a.content \in Contents \cup {NoContent}
    BY DEF Dicts
  <2>2. Final(NotDict) = NoContent
    BY DEF Final, NotDict
  <2> QED
    BY <2>1, <2>2 DEF Final
<1> QED
  BY <1>1, <1>2, <1>3, <1>4

Files == [state : {"absent", "broken", "saved"}, names : Namespaces,
          answer : Dicts \cup {NotDict}]
Reports == [failed : BOOLEAN, final : Contents \cup {NoContent}]

\* The initial state is well typed.
LEMMA InitType == Init => TypeOK
<1> SUFFICES ASSUME Init PROVE TypeOK
  OBVIOUS
<1>1. NoFile \in Files
  BY StartTypes DEF NoFile, Files
<1>2. /\ container = "none" /\ workspace = FALSE /\ files = {} /\ phase = "idle" /\ turn = 0
      /\ ran = FALSE /\ raised = FALSE /\ same = TRUE
  BY DEF Init
<1>3. file \in Files /\ {locals, combined, left} \subseteq Namespaces
  BY <1>1, StartTypes DEF Init
<1>4. mine \in Dicts /\ mine = seen /\ torn = FALSE
  BY StartTypes DEF Init
<1>5. result \in Reports
  BY DEF Init, Reports
<1>6. turn \in 0..TurnsBound
  BY <1>2, TurnsAssumption
<1> QED
  BY <1>2, <1>3, <1>4, <1>5, <1>6 DEF TypeOK, Files, Reports

\* A process that ends leaves nothing behind in memory.
LEMMA EndTypes ==
  ASSUME ProcessEnds
  PROVE  /\ phase' = "idle" /\ raised' = FALSE /\ same' = TRUE /\ mine' = seen'
         /\ {locals', combined'} \subseteq Namespaces
         /\ mine' \in Dicts /\ seen' \in Dicts
BY StartTypes DEF ProcessEnds

\* So does one that ends without a report, and the host takes it for a failure.
LEMMA NoReportTypes ==
  ASSUME NoReport
  PROVE  ProcessEnds /\ result' \in Reports /\ result'.failed
BY DEF NoReport, Reports

\* Every step keeps the types.
LEMMA TypeStep == TypeOK /\ [Next]_vars => TypeOK'
<1> SUFFICES ASSUME TypeOK, [Next]_vars PROVE TypeOK'
  OBVIOUS
<1>a. /\ container \in {"none", "up", "dead"} /\ workspace \in BOOLEAN
      /\ ran \in BOOLEAN /\ files \subseteq {"context", "csv"}
      /\ phase # "idle" => container = "up"
      /\ container # "none" => workspace
      /\ phase \in {"idle", "running", "saving", "dumping", "reporting"} /\ turn \in 0..TurnsBound
      /\ file \in Files /\ {locals, combined, left} \subseteq Namespaces
      /\ mine \in Dicts \cup {NotDict} /\ seen \in Dicts \cup {NotDict, Deleted}
      /\ torn \in BOOLEAN
      /\ same \in BOOLEAN /\ raised \in BOOLEAN /\ (same => mine = seen)
      /\ result \in Reports
  BY DEF TypeOK, Files, Reports
<1> USE <1>a DEF session, namespace, kept
<1>1. CASE Setup
  BY <1>1 DEF Setup, TypeOK, Files, Reports
<1>2. CASE LoadContext
  <2>1. files' \subseteq {"context", "csv"}
    BY <1>2 DEF LoadContext
  <2> QED
    BY <1>2, <2>1 DEF LoadContext, TypeOK, Files, Reports
<1>3. CASE Cleanup
  <2>1. file' \in Files /\ left' \in Namespaces /\ files' \subseteq {"context", "csv"}
    BY <1>3, StartTypes DEF Cleanup, NoFile, Files
  <2> QED
    BY <1>3, <2>1 DEF Cleanup, TypeOK, Files, Reports
<1>4. CASE Start
  <2>1. PICK got \in Contexts : locals' = Loaded(got) /\ combined' = Loaded(got)
    BY <1>4 DEF Start
  <2>2. Loaded(got) \in Namespaces
    BY DEF Loaded, Namespaces, Files
  <2>3. LoadedAnswer \in Dicts \cup {NotDict}
    BY StartTypes DEF LoadedAnswer, Files
  <2>4. turn + 1 \in 0..TurnsBound
    BY <1>4, TurnsAssumption DEF Start
  <2> QED
    BY <1>4, <2>1, <2>2, <2>3, <2>4 DEF Start, TypeOK, Files, Reports
<1>5. CASE \E n \in Names, v \in Values \cup {Unset} : Bind(n, v)
  <2>1. PICK n \in Names, v \in Values \cup {Unset} : Bind(n, v)
    BY <1>5
  <2>2. combined' \in Namespaces
    BY <2>1 DEF Bind, Namespaces
  <2> QED
    BY <2>1, <2>2 DEF Bind, TypeOK, Files, Reports
<1>6. CASE \E c \in Contents \cup {NoContent}, ready \in BOOLEAN : WriteAnswer(c, ready)
  <2>1. PICK c \in Contents \cup {NoContent}, ready \in BOOLEAN : WriteAnswer(c, ready)
    BY <1>6
  <2>2. seen \in Dicts
    BY <2>1 DEF WriteAnswer, NotDict, Deleted
  <2>3. seen' \in Dicts
    BY <2>1, <2>2 DEF WriteAnswer, Dicts
  <2> QED
    BY <2>1, <2>3 DEF WriteAnswer, TypeOK, Files, Reports
<1>7. CASE \E a \in {FreshAnswer, NotDict, Deleted} : RebindAnswer(a)
  <2>1. seen' \in Dicts \cup {NotDict, Deleted}
    BY <1>7, StartTypes DEF RebindAnswer
  <2>2. /\ UNCHANGED <<phase, session, file, locals, combined, mine, raised, result, kept, ran>>
        /\ same' = FALSE
    BY <1>7 DEF RebindAnswer
  <2>3. same' \in BOOLEAN /\ (same' => mine' = seen')
    BY <2>2
  <2> QED
    BY <2>1, <2>2, <2>3 DEF TypeOK, Files, Reports
<1>8. CASE Finish
  <2>1. locals' \in Namespaces
    BY <1>8 DEF Finish, Namespaces
  <2>2. mine' \in Dicts \cup {NotDict} /\ (same => mine' = seen)
    BY <1>8 DEF Finish
  <2> QED
    BY <1>8, <2>1, <2>2 DEF Finish, TypeOK, Files, Reports
<1>9. CASE Raise
  BY <1>9 DEF Raise, TypeOK, Files, Reports
<1>10. CASE Exit
  BY <1>10, NoReportTypes, EndTypes DEF Exit, TypeOK, Files, Reports
<1>11. CASE Kill
  <2>1. left' \in Namespaces /\ torn' \in BOOLEAN
    BY <1>11 DEF Kill
  <2> QED
    BY <1>11, <2>1, NoReportTypes, EndTypes DEF Kill, TypeOK, Files, Reports
<1>12. CASE ContainerDies
  BY <1>12 DEF ContainerDies, TypeOK, Files, Reports
<1>13. CASE Refuse
  <2>1. turn + 1 \in 0..TurnsBound
    BY <1>13, TurnsAssumption DEF Refuse
  <2> QED
    BY <1>13, <2>1, NoReportTypes, EndTypes DEF Refuse, TypeOK, Files, Reports
<1>14. CASE Truncate
  <2>1. file' \in Files
    BY <1>14, StartTypes DEF Truncate, Broken, Files
  <2> QED
    BY <1>14, <2>1 DEF Truncate, TypeOK, Files, Reports
<1>15. CASE Dump
  <2>1. Written \in Namespaces
    BY DEF Written, Namespaces
  <2>2. Left \in Namespaces
    BY StartTypes DEF Left, Namespaces
  <2>3. [state |-> "saved", names |-> Written, answer |-> mine] \in Files
    BY <2>1 DEF Files
  <2>4. CASE phase' = "reporting"
    <3>1. ~NoReport
      BY <2>4, NoReportTypes, EndTypes
    <3> QED
      <4>1. /\ UNCHANGED <<session, ran, namespace, raised, result>>
            /\ file' \in Files /\ left' \in Namespaces /\ torn' = FALSE
        BY <1>15, <2>2, <2>3, <3>1 DEF Dump
      <4>2. container = "up"
        BY <1>15 DEF Dump
      <4> QED
        BY <2>4, <4>1, <4>2 DEF TypeOK, Files, Reports
  <2>5. CASE phase' # "reporting"
    <3>1. NoReport /\ torn' = TRUE /\ UNCHANGED <<file, left, session, ran>>
      BY <1>15, <2>5 DEF Dump
    <3> QED
      BY <1>15, <3>1, NoReportTypes, EndTypes, StartTypes DEF TypeOK, Files, Reports
  <2> QED
    BY <2>4, <2>5
<1>16. CASE Report
  <2>1. result' \in Reports
    BY <1>16, StartTypes DEF Report, Reports
  <2> QED
    BY <1>16, <2>1, EndTypes DEF Report, TypeOK, Files, Reports
<1>17. CASE UNCHANGED vars
  BY <1>17 DEF vars, TypeOK, Files, Reports
<1> QED
  BY <1>1, <1>2, <1>3, <1>4, <1>5, <1>6, <1>7, <1>8, <1>9, <1>10, <1>11, <1>12, <1>13, <1>14,
     <1>15, <1>16, <1>17, NextDisjuncts

\* The state of a session is well typed, and a process has a container and a workspace.
THEOREM Typing == Spec => []TypeOK
BY InitType, TypeStep, PTL DEF Spec

----------------------------------------------------------------------------
\* What makes FreshSession inductive: before the first block there is no state file.
FreshInv == (phase # "idle" => ran) /\ (~ran => file = NoFile)

\* A process that ends leaves the REPL idle.
LEMMA Ends == ProcessEnds => phase' = "idle"
BY DEF ProcessEnds

\* No step but a block's puts anything into the state file.
LEMMA FreshStep == FreshInv /\ [Next]_vars => FreshInv'
<1> SUFFICES ASSUME FreshInv, [Next]_vars PROVE FreshInv'
  OBVIOUS
<1> USE DEF FreshInv, session, namespace, kept
<1>1. CASE Setup \/ LoadContext \/ ContainerDies \/ Cleanup
  BY <1>1 DEF Setup, LoadContext, ContainerDies, Cleanup
<1>2. CASE Start \/ Finish \/ Raise \/ Truncate
  BY <1>2 DEF Start, Finish, Raise, Truncate
<1>3. CASE Exit \/ Kill \/ Refuse \/ Report
  BY <1>3, Ends DEF Exit, Kill, Refuse, Report, NoReport
<1>4. CASE Dump
  <2>1. phase = "dumping" /\ ran' = ran
    BY <1>4 DEF Dump
  <2> QED
    BY <2>1
<1>5. CASE \E n \in Names, v \in Values \cup {Unset} : Bind(n, v)
  BY <1>5 DEF Bind
<1>6. CASE \E c \in Contents \cup {NoContent}, ready \in BOOLEAN : WriteAnswer(c, ready)
  BY <1>6 DEF WriteAnswer
<1>7. CASE \E a \in {FreshAnswer, NotDict, Deleted} : RebindAnswer(a)
  BY <1>7 DEF RebindAnswer
<1>8. CASE UNCHANGED vars
  BY <1>8 DEF vars
<1> QED
  BY <1>1, <1>2, <1>3, <1>4, <1>5, <1>6, <1>7, <1>8, NextDisjuncts

\* A process begins in no other way than Start.
LEMMA OnlyStart == [Next]_vars /\ phase = "idle" /\ phase' = "running" => Start
<1> SUFFICES ASSUME [Next]_vars, phase = "idle", phase' = "running" PROVE Start
  OBVIOUS
<1>1. ~(Setup \/ LoadContext \/ Cleanup \/ Finish \/ Raise \/ Truncate \/ Dump \/ ContainerDies)
  BY DEF Setup, LoadContext, Cleanup, Finish, Raise, Truncate, Dump, ContainerDies
<1>2. ~(Exit \/ Kill \/ Refuse \/ Report)
  BY DEF Exit, Kill, Refuse, Report, NoReport, ProcessEnds
<1>3. ~(\E n \in Names, v \in Values \cup {Unset} : Bind(n, v))
  BY DEF Bind
<1>4. ~(\E c \in Contents \cup {NoContent}, ready \in BOOLEAN : WriteAnswer(c, ready))
  BY DEF WriteAnswer
<1>5. ~(\E a \in {FreshAnswer, NotDict, Deleted} : RebindAnswer(a))
  BY DEF RebindAnswer
<1>6. ~UNCHANGED vars
  BY DEF vars
<1> QED
  BY <1>1, <1>2, <1>3, <1>4, <1>5, <1>6, NextDisjuncts

\* A session begins with its context alone: nothing that code of an earlier session on the same
\* REPL left in the workspace is found again after Cleanup.
THEOREM Fresh == Spec => FreshSession
<1>1. Init => FreshInv
  BY DEF Init, FreshInv
<1>2. FreshInv /\ [Next]_vars =>
        [phase = "idle" /\ phase' = "running" /\ ~ran
         => (\A n \in Names : locals'[n] \in {Injected, Unset}) /\ mine' = FreshAnswer]_vars
  <2> SUFFICES ASSUME FreshInv, [Next]_vars, phase = "idle", phase' = "running", ~ran
               PROVE  (\A n \in Names : locals'[n] \in {Injected, Unset}) /\ mine' = FreshAnswer
    OBVIOUS
  <2>1. Start /\ file = NoFile
    BY OnlyStart DEF FreshInv
  <2>2. PICK got \in Contexts : locals' = Loaded(got)
    BY <2>1 DEF Start
  <2>3. \A n \in Names : file.names[n] = Unset
    BY <2>1 DEF NoFile, Nothing
  <2>4. \A n \in Names : locals'[n] \in {Injected, Unset}
    BY <2>2, <2>3 DEF Loaded
  <2>5. mine' = FreshAnswer
    BY <2>1 DEF Start, LoadedAnswer, NoFile
  <2> QED
    BY <2>4, <2>5
<1> QED
  BY <1>1, <1>2, FreshStep, PTL DEF Spec, FreshSession

----------------------------------------------------------------------------
\* What makes ReportMatchesCode inductive: while the two answers are one they agree, and once code
\* has ended, and not by an exception, the answer to be saved and reported is the one the code
\* saw, unless it deleted it.
AnswerInv ==
  /\ same => mine = seen
  /\ phase \in {"saving", "dumping", "reporting"} /\ ~raised => mine = seen \/ seen = Deleted

\* Only Finish leads there without an exception, and nothing after it touches the two.
LEMMA AnswerStep == AnswerInv /\ [Next]_vars => AnswerInv'
<1> SUFFICES ASSUME AnswerInv, [Next]_vars PROVE AnswerInv'
  OBVIOUS
<1> USE DEF AnswerInv, session, namespace
<1>1. CASE Setup \/ LoadContext \/ ContainerDies \/ Cleanup
  BY <1>1 DEF Setup, LoadContext, ContainerDies, Cleanup
<1>2. CASE Start \/ Finish \/ Raise \/ Truncate
  BY <1>2 DEF Start, Finish, Raise, Truncate
<1>3. CASE Exit \/ Kill \/ Refuse \/ Report
  BY <1>3, EndTypes, NoReportTypes DEF Exit, Kill, Refuse, Report
<1>4. CASE Dump
  <2>1. CASE NoReport
    BY <2>1, EndTypes, NoReportTypes
  <2>2. CASE phase' = "reporting" /\ UNCHANGED <<namespace, raised>>
    BY <1>4, <2>2 DEF Dump
  <2> QED
    BY <1>4, <2>1, <2>2 DEF Dump
<1>5. CASE \E n \in Names, v \in Values \cup {Unset} : Bind(n, v)
  BY <1>5 DEF Bind
<1>6. CASE \E c \in Contents \cup {NoContent}, ready \in BOOLEAN : WriteAnswer(c, ready)
  BY <1>6 DEF WriteAnswer
<1>7. CASE \E a \in {FreshAnswer, NotDict, Deleted} : RebindAnswer(a)
  BY <1>7 DEF RebindAnswer
<1>8. CASE UNCHANGED vars
  BY <1>8 DEF vars
<1> QED
  BY <1>1, <1>2, <1>3, <1>4, <1>5, <1>6, <1>7, <1>8, NextDisjuncts

\* The host is told the answer the code left: written into the dict it was given or bound to
\* another by code that ended normally, written into the dict it was given by code that raised.
THEOREM Reporting == Spec => ReportMatchesCode
<1>1. Init => AnswerInv
  BY DEF Init, AnswerInv
<1>2. AnswerInv /\ [Next]_vars =>
        [Report /\ seen # Deleted /\ (raised => same)
         => result'.final = IF seen.dict /\ seen.ready THEN seen.content ELSE NoContent]_vars
  <2> SUFFICES ASSUME AnswerInv, Report, seen # Deleted, raised => same
               PROVE  result'.final = IF seen.dict /\ seen.ready THEN seen.content ELSE NoContent
    OBVIOUS
  <2>1. mine = seen
    BY DEF Report, AnswerInv
  <2> QED
    BY <2>1 DEF Report, Final
<1> QED
  BY <1>1, <1>2, AnswerStep, PTL DEF Spec, ReportMatchesCode

----------------------------------------------------------------------------
\* What a turn may count on, read where it is: in the file, or in the memory of a process.
Promised(n, got) == IF torn THEN got = Unset ELSE left[n] # Unset => got = left[n]
InFile(n) == Promised(n, file.names[n])
InMemory(n) == Promised(n, locals[n])

\* What makes StatePersists inductive: what was left is in the file, but while the file is being
\* rewritten and nothing is in it, and in the memory of a process that has not changed it; what a
\* process that ended will write is what its code left; and what was left can be written.
PersistInv ==
  /\ phase # "dumping" => \A n \in Own : InFile(n)
  /\ phase = "dumping" => file = Broken
  /\ phase = "running" \/ (phase \in {"saving", "dumping"} /\ raised) => \A n \in Own : InMemory(n)
  /\ phase \in {"saving", "dumping"} /\ ~raised =>
       \A n \in Names : Kept(n) => locals[n] = combined[n]
  /\ \A n \in Names : left[n] # Unset => n \notin Unkept /\ left[n] \notin Unpicklable
  /\ phase = "running" => ~raised

\* While nothing was left the invariant asks nothing of the idle REPL.
LEMMA NothingLeft == left = Nothing /\ ~torn /\ phase = "idle" => PersistInv
BY DEF Nothing, PersistInv, InFile, Promised, Own

\* More files leave fewer names to count on.
LEMMA OwnShrinks == files \subseteq files' => Own' \subseteq Own
<1> SUFFICES ASSUME files \subseteq files' PROVE UNION Contexts \subseteq (UNION Contexts)'
  BY DEF Own
<1>1. ASSUME NEW got \in Contexts, NEW n \in got PROVE n \in (UNION Contexts)'
  <2> DEFINE context == {Context : f \in files \cap {"context"}}
             late == {Context : f \in files' \cap {"context"}}
  <2>1. context \subseteq late
    OBVIOUS
  <2>2. /\ Contexts = {context} \cup {context \cup {DataFrame} : f \in files \cap {"csv"}}
        /\ Contexts' = {late} \cup {late \cup {DataFrame} : f \in files' \cap {"csv"}}
    BY DEF Contexts
  <2> HIDE DEF context, late
  <2>3. CASE n \in context
    <3>1. n \in late /\ late \in Contexts'
      BY <2>1, <2>2, <2>3
    <3> QED
      BY <3>1
  <2>4. CASE n \notin context
    <3>1. "csv" \in files /\ n = DataFrame
      BY <2>2, <2>4, <1>1
    <3>2. (late \cup {DataFrame}) \in Contexts' /\ n \in late \cup {DataFrame}
      BY <2>2, <3>1
    <3> QED
      BY <3>2
  <2> QED
    BY <2>3, <2>4
<1> QED
  BY <1>1

\* A step that touches neither what was left nor the file, and no name in memory but those of
\* the running code, keeps it.
LEMMA PersistKept ==
  ASSUME PersistInv, UNCHANGED <<left, torn, file, locals, files>>,
         \/ phase' = phase /\ raised' = raised /\ combined' = combined
         \/ phase = "running" /\ phase' = "running" /\ raised' = raised
         \/ phase = "running" /\ phase' = "saving" /\ raised'
         \/ phase # "dumping" /\ phase' = "idle"
  PROVE  PersistInv'
<1>1. Own' = Own
  BY DEF Own, Contexts
<1> QED
  BY <1>1 DEF PersistInv, InFile, InMemory, Promised, Kept

\* A process that ends before it rewrites the file, or after, leaves what was left in the file.
LEMMA PersistEnds ==
  ASSUME PersistInv, ProcessEnds, UNCHANGED <<left, torn, file, files>>, phase # "dumping"
  PROVE  PersistInv'
<1>1. Own' = Own /\ phase' = "idle"
  BY DEF Own, Contexts, ProcessEnds
<1> QED
  BY <1>1 DEF PersistInv, InFile, InMemory, Promised, Kept

\* A process that dies while it rewrites the file leaves a file without a name in it.
LEMMA TornAfter ==
  ASSUME PersistInv, phase = "dumping", phase' = "idle", torn', UNCHANGED <<left, file>>
  PROVE  PersistInv'
<1>1. \A n \in Names : file.names[n] = Unset
  BY DEF PersistInv, Broken, Nothing
<1>2. Own' \subseteq Names
  BY DEF Own
<1> QED
  BY <1>1, <1>2 DEF PersistInv, InFile, Promised

\* Every step keeps the invariant.
LEMMA PersistStep == TypeOK /\ PersistInv /\ [Next]_vars => PersistInv'
<1> SUFFICES ASSUME TypeOK, PersistInv, [Next]_vars PROVE PersistInv'
  OBVIOUS
<1> USE DEF session, namespace, kept
<1>1. CASE Setup \/ ContainerDies
  BY <1>1, PersistKept DEF Setup, ContainerDies
<1>2. CASE LoadContext
  <2>1. phase = "idle" /\ phase' = "idle" /\ UNCHANGED <<left, torn, file>> /\ files \subseteq files'
    BY <1>2 DEF LoadContext
  <2>2. Own' \subseteq Own
    BY <2>1, OwnShrinks
  <2> QED
    BY <2>1, <2>2 DEF PersistInv, InFile, Promised
<1>3. CASE Cleanup
  BY <1>3 DEF Cleanup, Nothing, PersistInv, InFile, Promised, Own
<1>4. CASE Start
  <2>1. PICK got \in Contexts : locals' = Loaded(got)
    BY <1>4 DEF Start
  <2>2. /\ phase = "idle" /\ phase' = "running" /\ UNCHANGED <<left, torn, file, files>>
        /\ raised' = FALSE
    BY <1>4 DEF Start
  <2>3. Own' = Own
    BY <2>2 DEF Own, Contexts
  <2>4. \A n \in Own : n \in Names /\ n \notin got
    BY DEF Own
  <2>5. \A n \in Own : locals'[n] = file.names[n]
    BY <2>1, <2>4 DEF Loaded
  <2>6. \A n \in Own : InFile(n)
    BY <2>2 DEF PersistInv
  <2> QED
    BY <2>2, <2>3, <2>5, <2>6 DEF PersistInv, InFile, InMemory, Promised
<1>5. CASE \E n \in Names, v \in Values \cup {Unset} : Bind(n, v)
  BY <1>5, PersistKept DEF Bind
<1>6. CASE \E c \in Contents \cup {NoContent}, ready \in BOOLEAN : WriteAnswer(c, ready)
  BY <1>6, PersistKept DEF WriteAnswer
<1>7. CASE \E a \in {FreshAnswer, NotDict, Deleted} : RebindAnswer(a)
  BY <1>7, PersistKept DEF RebindAnswer
<1>8. CASE Finish
  <2>1. /\ phase = "running" /\ phase' = "saving" 
        /\ UNCHANGED <<left, torn, file, files, combined, raised>>
        /\ locals' = [n \in Names |-> IF Kept(n) THEN combined[n] ELSE locals[n]]
    BY <1>8 DEF Finish
  <2>2. Own' = Own /\ \A n \in Own : InFile(n)'
    BY <2>1 DEF Own, Contexts, PersistInv, InFile, Promised
  <2>3. \A n \in Names : Kept(n)' => locals'[n] = combined'[n]
    BY <2>1 DEF Kept
  <2>4. \A n \in Names : left'[n] # Unset => n \notin Unkept /\ left'[n] \notin Unpicklable
    BY <2>1 DEF PersistInv
  <2>5. ~raised'
    BY <2>1 DEF PersistInv
  <2> QED
    BY <2>1, <2>2, <2>3, <2>4, <2>5 DEF PersistInv
<1>9. CASE Raise
  BY <1>9, PersistKept DEF Raise
<1>10. CASE Exit
  BY <1>10, PersistEnds, NoReportTypes DEF Exit
<1>11. CASE Kill
  <2>1. ProcessEnds /\ phase' = "idle"
    BY <1>11, NoReportTypes, EndTypes DEF Kill
  <2>2. CASE phase = "dumping"
    BY <1>11, <2>1, <2>2, TornAfter DEF Kill
  <2>3. CASE phase # "dumping"
    <3>1. torn' = torn
      BY <1>11, <2>3 DEF Kill, TypeOK
    <3> QED
      BY <1>11, <2>1, <2>3, <3>1, PersistEnds DEF Kill
  <2> QED
    BY <2>2, <2>3
<1>12. CASE Refuse
  <2>1. ProcessEnds /\ phase # "dumping"
    BY <1>12, NoReportTypes DEF Refuse
  <2> QED
    BY <1>12, <2>1, PersistEnds DEF Refuse
<1>13. CASE Truncate
  <2>1. /\ phase = "saving" /\ phase' = "dumping"
        /\ file' = Broken /\ UNCHANGED <<left, torn, files, locals, combined, raised>>
    BY <1>13 DEF Truncate
  <2>2. Own' = Own
    BY <2>1 DEF Own, Contexts
  <2> QED
    BY <2>1, <2>2 DEF PersistInv, InMemory, Promised, Kept
<1>14. CASE Dump
  <2>1. phase = "dumping" /\ files' = files
    BY <1>14 DEF Dump
  <2>2. CASE phase' = "reporting"
    <3>1. file'.names = Written /\ left' = Left /\ torn' = FALSE
      BY <1>14, <2>2, Ends DEF Dump, NoReport
    <3>2. Own' = Own /\ Own \subseteq Names
      BY <2>1 DEF Own, Contexts
    <3>3. ASSUME NEW n \in Own, raised PROVE InFile(n)'
      <4>1. left' = IF torn THEN Nothing ELSE left
        BY <3>1, <3>3 DEF Left
      <4>2. InMemory(n) /\ (left[n] # Unset => n \notin Unkept /\ left[n] \notin Unpicklable)
        BY <2>1, <3>2, <3>3 DEF PersistInv
      <4>3. locals[n] \notin Unpicklable /\ n \notin Unkept => Written[n] = locals[n]
        BY <3>2 DEF Written
      <4> QED
        BY <3>1, <3>2, <4>1, <4>2, <4>3 DEF InFile, InMemory, Promised, Nothing
    <3>4. ASSUME NEW n \in Own, ~raised PROVE InFile(n)'
      <4>1. n \in Names /\ left'[n] = IF Kept(n) /\ combined[n] \notin Unpicklable
                                      THEN combined[n] ELSE Unset
        BY <3>1, <3>2, <3>4 DEF Left
      <4>2. Kept(n) => locals[n] = combined[n]
        BY <2>1, <3>2, <3>4 DEF PersistInv
      <4>3. Kept(n) /\ locals[n] \notin Unpicklable => Written[n] = locals[n]
        BY <4>1 DEF Written, Kept
      <4> QED
        BY <3>1, <4>1, <4>2, <4>3 DEF InFile, Promised
    <3>5. \A n \in Own' : InFile(n)'
      BY <3>2, <3>3, <3>4
    <3>6. \A n \in Names : left'[n] # Unset => n \notin Unkept /\ left'[n] \notin Unpicklable
      <4>1. CASE raised
        BY <3>1, <4>1 DEF PersistInv, Left, Nothing
      <4>2. CASE ~raised
        BY <3>1, <4>2 DEF Left, Kept
      <4> QED
        BY <4>1, <4>2
    <3> QED
      BY <2>2, <3>5, <3>6 DEF PersistInv
  <2>3. CASE phase' # "reporting"
    BY <1>14, <2>1, <2>3, TornAfter, NoReportTypes, EndTypes DEF Dump
  <2> QED
    BY <2>2, <2>3
<1>15. CASE Report
  BY <1>15, PersistEnds DEF Report
<1>16. CASE UNCHANGED vars
  BY <1>16, PersistKept DEF vars
<1> QED
  BY <1>1, <1>2, <1>3, <1>4, <1>5, <1>6, <1>7, <1>8, <1>9, <1>10, <1>11, <1>12, <1>13, <1>14,
     <1>15, <1>16, NextDisjuncts

\* A turn starts with what the last completed save kept of what the code left, in the names the
\* script does not set, however many turns failed in between before they rewrote the state file;
\* after one that was cut off while it rewrote the file, with none of it.
THEOREM Persists == Spec => StatePersists
<1>1. Init => PersistInv
  BY NothingLeft DEF Init
<1>2. PersistInv /\ [Next]_vars =>
        [phase = "idle" /\ phase' = "running"
         => \A n \in Own : IF torn THEN locals'[n] = Unset
                          ELSE left[n] # Unset => locals'[n] = left[n]]_vars
  <2> SUFFICES ASSUME PersistInv, [Next]_vars, phase = "idle", phase' = "running", NEW n \in Own
               PROVE  IF torn THEN locals'[n] = Unset ELSE left[n] # Unset => locals'[n] = left[n]
    OBVIOUS
  <2>1. PICK got \in Contexts : locals' = Loaded(got)
    BY OnlyStart DEF Start
  <2>2. n \in Names /\ n \notin got
    BY DEF Own
  <2>3. Promised(n, file.names[n])
    BY DEF PersistInv, InFile
  <2> QED
    BY <2>1, <2>2, <2>3 DEF Loaded, Promised
<1> QED
  BY <1>1, <1>2, Typing, PersistStep, PTL DEF Spec, StatePersists
=============================================================================
