------------------------------- MODULE Worker -------------------------------
(***************************************************************************)
(* One subtask and its worktree: the conversation of ImplementAgent.run    *)
(* with the model, the tools it dispatches, and the test run of            *)
(* workflow.py after it, round after round.  sandbox.py runs the tests of  *)
(* both.  FanOut.tla has the threads, the rows and the money.              *)
(*                                                                         *)
(* A path is a name as the model writes it: plain (also behind ./), with a *)
(* dot of its own (.name), or leading out of the worktree.                 *)
(***************************************************************************)
EXTENDS Sequences, Integers

CONSTANTS Names,      \* file names
          Scope,      \* subtask.files; empty means unrestricted
          MaxTurns,   \* models.implementer.max_turns
          MaxCalls,   \* bound: tool calls in one reply
          MaxRounds   \* --max-iter, and one

Paths == [kind : {"plain", "hidden", "outside"}, name : Names]
Files == [kind : {"plain", "hidden"}, name : Names]

ASSUME WorkerAssumption == /\ Scope \subseteq Files
                           /\ MaxTurns \in Nat /\ MaxCalls \in Nat /\ MaxRounds \in Nat

VARIABLES trust,     \* runtime.task_trust
          image,     \* PCIV_SANDBOX_IMAGE, or the default
          pc, round, turn,
          left,      \* tool calls of the reply still to be answered
          messages,  \* the conversation: roles, and what answers what
          files,     \* who last wrote each file of the worktree
          stray      \* tests that outlived a timeout and can write files

setting == <<trust, image>>
talk    == <<round, turn, left, messages>>
vars    == <<trust, image, pc, round, turn, left, messages, files, stray>>

Asked == <<[role |-> "user", n |-> 0]>>  \* the system message is left out

Init == /\ trust \in {"trusted", "untrusted"} /\ image \in {"slim", "sweb.eval"}
        /\ pc = "request" /\ round = 1 /\ turn = 0 /\ left = 0
        /\ messages = Asked
        /\ files = [f \in Files |-> "base"]
        /\ stray = FALSE

Say(who, m) == messages' = Append(messages, [role |-> who, n |-> m])

-----------------------------------------------------------------------------
(* sandbox.py                                                              *)

(* What code with write access may leave of the worktree.                  *)
Scribbled == {g \in [Files -> {"base", "worker", "tests"}] :
                \A f \in Files : g[f] \in {files[f], "tests"}}

(* A timeout kills the process started here, not what it has started.      *)
RunHost == files' \in Scribbled /\ stray' \in {stray, TRUE}

(* A timeout kills the client; the container may go on.  The worktree is   *)
(* mounted read-only, but for the evaluation images of the benchmark.      *)
RunContainer == IF image = "sweb.eval"
                THEN files' \in Scribbled /\ stray' \in {stray, TRUE}
                ELSE UNCHANGED <<files, stray>>

(* No container runtime on PATH, or none any more.                         *)
Unavailable == trust = "untrusted" /\ UNCHANGED <<files, stray>>

\* Faulty variant: without a container runtime the tests run on the host.
RunPytestFallback == RunHost \/ RunContainer

RunPytest == \/ trust = "trusted" /\ RunHost
             \/ trust = "untrusted" /\ RunContainer
             \/ Unavailable

(* What timed out runs on beside everything that follows.                  *)
StrayWrites == /\ stray /\ files' \in Scribbled
               /\ UNCHANGED <<setting, pc, talk, stray>>

-----------------------------------------------------------------------------
(* The tools.  Whatever a tool raises becomes its result.                  *)

(* _normalize_for_scope strips every leading dot and slash.                *)
InScope(p) == Scope = {} \/ \E s \in Scope : s.name = p.name

(* Refused for a path outside, the size, the scope or a secret; or written,*)
(* in full or in part.                                                     *)
WriteFile(p) == /\ \/ UNCHANGED files
                   \/ p \in Files /\ InScope(p) /\ files' = [files EXCEPT ![p] = "worker"]
                /\ UNCHANGED stray

Read == UNCHANGED <<files, stray>>

\* Faulty variant: arguments that are no JSON are skipped.
ToolSkipping == /\ pc = "tools" /\ left > 0
                /\ left' = left - 1
                /\ \/ UNCHANGED <<messages, files, stray>>
                   \/ /\ RunPytest
                      /\ Say("tool", left)
                /\ UNCHANGED <<setting, pc, round, turn>>

(* The next tool call of the reply: reading and listing, a name or         *)
(* arguments that are none, a write, a test run.                           *)
Tool == /\ pc = "tools" /\ left > 0
        /\ Read \/ RunPytest \/ \E p \in Paths : WriteFile(p)
        /\ Say("tool", left)
        /\ left' = left - 1
        /\ UNCHANGED <<setting, pc, round, turn>>

-----------------------------------------------------------------------------
(* ImplementAgent.run                                                      *)

(* A reply with its tool calls, counted down to 1.                         *)
Reply == /\ pc = "request" /\ turn < MaxTurns
         /\ \E m \in 0..MaxCalls : /\ Say("assistant", m)
                                   /\ left' = m
                                   /\ pc' = IF m > 0 THEN "tools" ELSE "completion"
         /\ UNCHANGED <<setting, round, turn, files, stray>>

(* max_turns exceeded; a request, a charge, a ledger write or a diff that  *)
(* raises.                                                                 *)
Raise == /\ pc \in {"request", "completion", "diff"}
         /\ pc' = "raised"
         /\ UNCHANGED <<setting, talk, files, stray>>

ToolsDone == /\ pc = "tools" /\ left = 0
             /\ turn' = turn + 1
             /\ pc' = "request"
             /\ UNCHANGED <<setting, round, left, messages, files, stray>>

(* A final message that is no completion, or claims files out of scope.    *)
Retry == /\ pc = "completion"
         /\ Say("user", 0)
         /\ turn' = turn + 1
         /\ pc' = "request"
         /\ UNCHANGED <<setting, round, left, files, stray>>

(* A completion, be its status "complete" or "failed".                     *)
Complete == /\ pc = "completion"
            /\ pc' = "diff"
            /\ UNCHANGED <<setting, talk, files, stray>>

-----------------------------------------------------------------------------
(* Pipeline.run after the implement phase                                  *)

(* The diff that is judged, taken before the tests: System.tla has what it *)
(* shows.                                                                  *)
Diff == /\ pc = "diff"
        /\ pc' = "tests"
        /\ UNCHANGED <<setting, talk, files, stray>>

(* Its failures are text for the verifier.                                 *)
Tests == /\ pc = "tests"
         /\ RunPytest
         /\ pc' = "judge"
         /\ UNCHANGED <<setting, talk>>

(* An iterate verdict: the subtask is re-queued, or only diffed again.     *)
NextRound == /\ pc = "judge" /\ round < MaxRounds
             /\ round' = round + 1
             /\ turn' = 0 /\ left' = 0 /\ messages' = Asked
             /\ pc' \in {"request", "diff"}
             /\ UNCHANGED <<setting, files, stray>>

Next == \/ StrayWrites \/ Tool \/ Reply \/ Raise \/ ToolsDone \/ Retry \/ Complete
        \/ Diff \/ Tests \/ NextRound

Spec == Init /\ [][Next]_vars

-----------------------------------------------------------------------------
Messages == [role : {"user", "assistant", "tool"}, n : Nat]

TypeOK ==
  /\ trust \in {"trusted", "untrusted"} /\ image \in {"slim", "sweb.eval"}
  /\ pc \in {"request", "tools", "completion", "raised", "diff", "tests", "judge"}
  /\ round \in Nat /\ turn \in Nat /\ left \in Nat
  /\ messages \in Seq(Messages) /\ Len(messages) > 0
  /\ files \in [Files -> {"base", "worker", "tests"}]
  /\ stray \in BOOLEAN

(* Tests can write the worktree on the host and in an evaluation image.    *)
Writable == trust = "trusted" \/ image = "sweb.eval"

(* What may follow a message; the calls of a reply are counted down to 1.  *)
Follows(m, next) ==
  CASE m.role = "assistant" /\ m.n > 0 -> next = [role |-> "tool", n |-> m.n]
    [] m.role = "assistant" /\ m.n = 0 -> next.role = "user"
    [] m.role = "tool" /\ m.n > 1 -> next = [role |-> "tool", n |-> m.n - 1]
    [] OTHER -> next.role = "assistant"

Final == messages[Len(messages)]

Orderly == \A i \in 1..Len(messages) - 1 : Follows(messages[i], messages[i + 1])

AllAnswered == Final.role = "user" \/ Final = [role |-> "tool", n |-> 1]

(* The API refuses a conversation in which a tool call has no answer, or   *)
(* an answer no call: whatever a reply asked for, and whatever became of   *)
(* it, each call has its one tool message before the next request.         *)
ConversationAnswered == pc = "request" => Orderly /\ AllAnswered

(* Whatever tools and tests a worker runs, it changes no file out of its   *)
(* subtask's scope, up to leading dots; other files change only where the  *)
(* sandbox lets tests write, and never otherwise, timeouts included.       *)
EditsInScope == \A f \in Files : /\ files[f] = "worker" => InScope(f)
                                 /\ files[f] = "tests" => Writable

(* The strengthening that makes the two inductive.                         *)
ConvInv == /\ Orderly
           /\ pc = "request" => AllAnswered
           /\ pc = "completion" => Final = [role |-> "assistant", n |-> 0]
           /\ pc = "tools" => \/ Final = [role |-> "tool", n |-> left + 1]
                              \/ left > 0 /\ Final = [role |-> "assistant", n |-> left]

IInv == /\ TypeOK /\ EditsInScope
        /\ stray => Writable
        /\ ConvInv
=============================================================================
