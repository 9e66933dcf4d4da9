---------------------------- MODULE ReplSession -----------------------------
(***************************************************************************)
(* The Python REPL one DockerREPL (internal/environment/docker.go) offers  *)
(* across turns: a container that mounts a workspace, in which each block  *)
(* runs in a process of its own (internal/environment/execscript.go) that  *)
(* loads a state file, runs the code in a copy of the namespace, copies    *)
(* the names back, saves the file and prints a JSON report for the host to *)
(* parse.                                                                  *)
(***************************************************************************)
EXTENDS Integers

CONSTANTS
  Names,                \* variables of the code, but for answer
  Context, DataFrame,   \* the two the script sets itself: context and df
  Unkept,               \* names that start with _ or are the script's own helpers
  Values, Unpicklable,  \* what code binds; the values dill cannot write
  Injected,             \* what the script binds to Context and DataFrame
  Unset,
  Contents, NoContent,  \* answers code submits; the empty string
  TurnsBound            \* bound: blocks in a session

ASSUME NamesAssumption == {Context, DataFrame} \subseteq Names \ Unkept /\ Context # DataFrame
ASSUME ValuesAssumption ==
  /\ Unpicklable \subseteq Values /\ {Injected, Unset} \cap Values = {} /\ Injected # Unset
  /\ NoContent \notin Contents
ASSUME TurnsAssumption == TurnsBound \in Nat

Namespaces == [Names -> Values \cup {Injected, Unset}]
Dicts == [dict : {TRUE}, content : Contents \cup {NoContent}, ready : BOOLEAN]
NotDict == [dict |-> FALSE, content |-> NoContent, ready |-> FALSE]
Deleted == [dict |-> FALSE, content |-> NoContent, ready |-> TRUE]   \* no name answer
FreshAnswer == [dict |-> TRUE, content |-> NoContent, ready |-> FALSE]
Nothing == [n \in Names |-> Unset]
NoFile == [state |-> "absent", names |-> Nothing, answer |-> FreshAnswer]
Broken == [state |-> "broken", names |-> Nothing, answer |-> FreshAnswer]

VARIABLES
  container,    \* the REPL's container: none, up, or dead, which the REPL does not know
  workspace,    \* the REPL has a workspace directory
  files,        \* the context files in it: a context (text, JSON or directory), a CSV
  phase, turn,  \* where the block's process is; ExecuteCode calls
  file,         \* the state file
  locals,       \* _locals, but for its answer
  combined,     \* the namespace the code runs in, but for its answer
  mine, seen,   \* the answer in _locals, and the one the code sees
  same,         \* the two are one object
  raised,       \* the code ended in an exception
  result,       \* the REPLResult: failed is a non-blank stderr
  left,         \* ghost: the names the last completed save kept of what the code left
  torn,         \* ghost: a later save was cut off
  ran           \* ghost: a block has run since the last Cleanup
namespace == <<locals, combined, mine, seen, same>>
session == <<turn, container, workspace, files>>
kept == <<left, torn>>
vars == <<phase, session, file, namespace, raised, result, kept, ran>>

Init ==
  /\ container = "none" /\ workspace = FALSE /\ files = {}
  /\ phase = "idle" /\ turn = 0 /\ file = NoFile
  /\ locals = Nothing /\ combined = Nothing
  /\ mine = FreshAnswer /\ seen = FreshAnswer /\ same = TRUE /\ raised = FALSE
  /\ result = [failed |-> FALSE, final |-> NoContent] /\ left = Nothing /\ torn = FALSE
  /\ ran = FALSE

\* Setup makes the directory, then starts the container; NewDockerREPL cleans up when it fails.
Setup ==
  /\ phase = "idle" /\ container = "none" /\ workspace' = TRUE
  /\ container' \in {"none", "up"}
  /\ UNCHANGED <<phase, turn, files, file, namespace, raised, result, kept, ran>>

\* A text that looks like a CSV is written twice; when a write fails there may be nothing.
LoadContext ==
  /\ phase = "idle" /\ workspace
  /\ files' \in {files \cup {"context"}, files \cup {"context", "csv"}}
  /\ UNCHANGED <<phase, turn, container, workspace, file, namespace, raised, result, kept, ran>>

\* Whether or not RemoveAll succeeds the REPL forgets its directory: Setup makes another.
CleanupKeepsWorkspace ==
  /\ phase = "idle" /\ workspace
  /\ container' = "none"
  /\ ran' = FALSE /\ left' = Nothing /\ torn' = FALSE
  /\ UNCHANGED <<phase, turn, workspace, files, file, namespace, raised, result>>
Cleanup ==
  /\ phase = "idle" /\ workspace
  /\ container' = "none" /\ workspace' = FALSE /\ files' = {} /\ file' = NoFile
  /\ ran' = FALSE /\ left' = Nothing /\ torn' = FALSE
  /\ UNCHANGED <<phase, turn, namespace, raised, result>>

\* load_state, the answer reset unless it is a dict, then the context over whatever was saved.
LoadedForgetful(got) == [n \in Names |-> IF n \in got THEN Injected ELSE Unset]
Loaded(got) == [n \in Names |-> IF n \in got THEN Injected ELSE file.names[n]]
LoadedAnswer == IF file.answer.dict THEN file.answer ELSE FreshAnswer

\* What the script binds of the files it finds; pandas may not read the CSV.
Contexts ==
  LET context == {Context : f \in files \cap {"context"}}
  IN  {context} \cup {context \cup {DataFrame} : f \in files \cap {"csv"}}

Start ==
  /\ phase = "idle" /\ container = "up" /\ turn < TurnsBound
  /\ phase' = "running" /\ turn' = turn + 1 /\ raised' = FALSE /\ ran' = TRUE
  /\ \E got \in Contexts : locals' = Loaded(got) /\ combined' = Loaded(got)
  /\ mine' = LoadedAnswer /\ seen' = LoadedAnswer /\ same' = TRUE
  /\ UNCHANGED <<container, workspace, files, file, result, kept>>

----------------------------------------------------------------------------
\* What code does: bind and delete names, write to the answer, put another in its place or
\* delete it.
Bind(n, v) ==
  /\ phase = "running" /\ combined' = [combined EXCEPT ![n] = v]
  /\ UNCHANGED <<phase, session, file, locals, mine, seen, same, raised, result, kept, ran>>

WriteAnswerToCopy(content, ready) ==
  /\ phase = "running" /\ seen.dict
  /\ seen' = [seen EXCEPT !.content = content, !.ready = ready]
  /\ UNCHANGED <<phase, session, file, locals, combined, mine, same, raised, result, kept, ran>>
WriteAnswer(content, ready) ==
  /\ phase = "running" /\ seen.dict
  /\ seen' = [seen EXCEPT !.content = content, !.ready = ready]
  /\ mine' = IF same THEN seen' ELSE mine
  /\ UNCHANGED <<phase, session, file, locals, combined, same, raised, result, kept, ran>>

RebindAnswer(a) ==
  /\ phase = "running" /\ seen' = a /\ same' = FALSE
  /\ UNCHANGED <<phase, session, file, locals, combined, mine, raised, result, kept, ran>>

\* The names go back to _locals; a name the code deleted, answer too, keeps its old value there.
Kept(n) == n \notin Unkept /\ combined[n] # Unset
FinishNamesOnly ==
  /\ phase = "running" /\ phase' = "saving"
  /\ locals' = [n \in Names |-> IF Kept(n) THEN combined[n] ELSE locals[n]]
  /\ UNCHANGED <<session, file, combined, mine, seen, same, raised, result, kept, ran>>
Finish ==
  /\ phase = "running" /\ phase' = "saving"
  /\ locals' = [n \in Names |-> IF Kept(n) THEN combined[n] ELSE locals[n]]
  /\ mine' = IF seen = Deleted THEN mine ELSE seen
  /\ UNCHANGED <<session, file, combined, seen, same, raised, result, kept, ran>>

\* An exception skips the copy: only what the code did to objects _locals holds stays.
Raise ==
  /\ phase = "running" /\ phase' = "saving" /\ raised' = TRUE
  /\ UNCHANGED <<session, file, namespace, result, kept, ran>>

ProcessEnds ==
  /\ phase' = "idle"
  /\ locals' = Nothing /\ combined' = Nothing
  /\ mine' = FreshAnswer /\ seen' = FreshAnswer /\ same' = TRUE /\ raised' = FALSE

\* The process is gone, and the host gets no report: parseExecOutput or docker exec fails.
NoReport == ProcessEnds /\ result' = [failed |-> TRUE, final |-> NoContent]

\* SystemExit is no Exception: the process ends before it saves.
Exit ==
  /\ phase = "running" /\ NoReport
  /\ UNCHANGED <<session, file, kept, ran>>

\* The process is killed, alone or with its container.
Kill ==
  /\ phase # "idle" /\ NoReport
  /\ torn' = (torn \/ phase = "dumping")
  /\ container' \in {"up", "dead"}
  /\ UNCHANGED <<turn, workspace, files, file, left, ran>>

ContainerDies ==
  /\ phase = "idle" /\ container = "up" /\ container' = "dead"
  /\ UNCHANGED <<phase, turn, workspace, files, file, namespace, raised, result, kept, ran>>

\* ExecuteCode without a container, or in one that is gone.
Refuse ==
  /\ phase = "idle" /\ container # "up" /\ turn < TurnsBound
  /\ turn' = turn + 1 /\ NoReport
  /\ UNCHANGED <<container, workspace, files, file, kept, ran>>

----------------------------------------------------------------------------
\* save_state: opening the file empties it before dill writes.
Truncate ==
  /\ phase = "saving" /\ phase' = "dumping"
  /\ file' = Broken
  /\ UNCHANGED <<session, namespace, raised, result, kept, ran>>

Written ==
  [n \in Names |-> IF locals[n] \in Unpicklable \/ n \in Unkept THEN Unset ELSE locals[n]]
Left ==
  IF raised THEN (IF torn THEN Nothing ELSE left)
  ELSE [n \in Names |-> IF Kept(n) /\ combined[n] \notin Unpicklable THEN combined[n] ELSE Unset]
Dump ==
  /\ phase = "dumping"
  /\ \/ /\ phase' = "reporting" /\ UNCHANGED <<namespace, raised, result>>
        /\ file' = [state |-> "saved", names |-> Written, answer |-> mine]
        /\ left' = Left /\ torn' = FALSE
     \/ NoReport /\ torn' = TRUE /\ UNCHANGED <<file, left>>
  /\ UNCHANGED <<session, ran>>

Final(a) == IF a.dict /\ a.ready THEN a.content ELSE NoContent
Report ==
  /\ phase = "reporting" /\ ProcessEnds
  /\ result' = [failed |-> raised, final |-> Final(mine)]
  /\ UNCHANGED <<session, file, kept, ran>>

Code ==
  \/ \E n \in Names, v \in Values \cup {Unset} : Bind(n, v)
  \/ \E c \in Contents \cup {NoContent}, ready \in BOOLEAN : WriteAnswer(c, ready)
  \/ \E a \in {FreshAnswer, NotDict, Deleted} : RebindAnswer(a)
Block == Start \/ Code \/ Finish \/ Raise \/ Exit \/ Truncate \/ Dump \/ Report
Next == Setup \/ LoadContext \/ Cleanup \/ Block \/ Kill \/ ContainerDies \/ Refuse

Spec == Init /\ [][Next]_vars

----------------------------------------------------------------------------
(* Properties *)

\* Every variable keeps its type; the two answers agree while they are one object, and the one
\* in _locals is never gone; a process has a container that is up on a workspace that is there.
TypeOK ==
  /\ container \in {"none", "up", "dead"} /\ workspace \in BOOLEAN
  /\ ran \in BOOLEAN /\ files \subseteq {"context", "csv"}
  /\ phase # "idle" => container = "up"
  /\ container # "none" => workspace
  /\ phase \in {"idle", "running", "saving", "dumping", "reporting"} /\ turn \in 0..TurnsBound
  /\ file \in [state : {"absent", "broken", "saved"}, names : Namespaces,
               answer : Dicts \cup {NotDict}]
  /\ {locals, combined, left} \subseteq Namespaces
  /\ mine \in Dicts \cup {NotDict} /\ seen \in Dicts \cup {NotDict, Deleted} /\ torn \in BOOLEAN
  /\ same \in BOOLEAN /\ raised \in BOOLEAN /\ (same => mine = seen)
  /\ result \in [failed : BOOLEAN, final : Contents \cup {NoContent}]

\* A turn starts with what the last completed save kept of what the code left, whatever turns
\* raised, exited or were killed before they saved in between; after a save that was cut off,
\* with nothing at all, and never with a part. It is of the names the script does not set itself,
\* until Cleanup.
Own == Names \ UNION Contexts
StatePersists ==
  [][phase = "idle" /\ phase' = "running"
     => \A n \in Own : IF torn THEN locals'[n] = Unset
                      ELSE left[n] # Unset => locals'[n] = left[n]]_vars

\* The first block of a session starts from its context alone: no variable, and no submitted
\* answer, of a session on the same REPL before its Cleanup.
FreshSession ==
  [][phase = "idle" /\ phase' = "running" /\ ~ran
     => (\A n \in Names : locals'[n] \in {Injected, Unset}) /\ mine' = FreshAnswer]_vars

\* The report carries the answer as the code left it, submitted or not: of a turn that ended
\* normally, in the dict it was given or in another; of one that raised, in the dict it was given.
\* Only the answer of code that deleted the name is not what the code left.
ReportMatchesCode ==
  [][Report /\ seen # Deleted /\ (raised => same)
     => result'.final = IF seen.dict /\ seen.ready THEN seen.content ELSE NoContent]_vars

=============================================================================
