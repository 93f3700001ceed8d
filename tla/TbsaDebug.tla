------------------------------- MODULE TbsaDebug -------------------------------
(***************************************************************************)
(* The debug tests d001 to d004 and the debugger script they work with.    *)
(*                                                                         *)
(* The processor and the debugger share two words, the flag and the data.  *)
(* A watchpoint stops the processor when it writes the flag; the script    *)
(* then reads the request, answers in the two words and lets the processor *)
(* go on, but some of its accesses come after that.                        *)
(***************************************************************************)
EXTENDS Naturals, Sequences, FiniteSets

CONSTANTS
    Suite,      \* the tests, in their order
    Memories,   \* the targets: for each memory component its regions, "ns", "s", or "other" for
                \* one that is not read-write memory of the debug port
    Restricts,  \* whether the port keeps the debugger out where its state says so
    Lone        \* whether it is the only port

ASSUME SuiteAssumption ==
    /\ Suite \in Seq({"d001", "d002", "d003", "d004"}) \ {<<>>}
    /\ Restricts \subseteq BOOLEAN /\ Lone \subseteq BOOLEAN

\* A component that the configuration names has a region, and there is one.
ASSUME MemoriesAssumption ==
    Memories \subseteq Seq(Seq({"ns", "s", "other"}) \ {<<>>}) \ {<<>>}

Nowhere     == <<0, 0>>
Word(v)     == [v |-> v, r |-> Nowhere]           \* a datum ...
Address(r)  == [v |-> "address", r |-> r]         \* ... or the address of a region
Bits(seq, tx, rx, ready) == [seq |-> seq, tx |-> tx, rx |-> rx, ready |-> ready]
Zero        == Bits("none", FALSE, FALSE, FALSE)
Ready       == Bits("none", FALSE, FALSE, TRUE)
Served      == Bits("none", FALSE, TRUE, TRUE)    \* DBG_FLAG_READY|DBG_FLAG_RXFULL

VARIABLES
    memory, restricts, lone,  \* the target
    port, nsOnly,       \* the state of the debug port; whether it is for non-secure memory only
    mem,                \* what was last written to each region
    flag, data,         \* the two words
    script, addr, held, \* where the debugger is; the address and the datum it holds
    halted,             \* the watchpoint was hit
    test, pc, todo,     \* the test, where it is, what is left of the region
    at, visited,        \* the region; region_num
    taken,              \* the answer
    started,            \* g_debug_test_start
    cb, saved,          \* in NV memory: the request for a cold boot, the loop variables
    resumed,            \* reset_done
    result, verdict,    \* the status of the test; those of the tests so far
    met                 \* observer: the tests that began with the debugger there

target     == <<memory, restricts, lone>>
portVars   == <<port, nsOnly>>
words      == <<flag, data, halted>>
scriptVars == <<script, addr, held>>
loopVars   == <<at, visited>>
nvVars     == <<cb, saved>>
doneVars   == <<test, verdict, met>>
peVars     == <<pc, todo, loopVars, taken, started, nvVars, resumed, result, doneVars>>
vars       == <<target, portVars, mem, words, scriptVars, peVars>>

Regions == UNION {{<<c, i>> : i \in DOMAIN memory[c]} : c \in DOMAIN memory}
Kind(r) == memory[r[1]][r[2]]
Total   == Cardinality(Regions)

\* Whether the debugger gets at a region, and what it reads there.
Reaches(r) == restricts => port = "open" /\ (nsOnly => Kind(r) = "ns")
Content(r) == Word(IF Reaches(r) THEN mem[r] ELSE "refused")

-----------------------------------------------------------------------------
(* What the tests do for a region                                            *)

Step(op, arg, seq) == [op |-> op, arg |-> arg, seq |-> seq]
Put(v)      == Step("put", v, "none")
Ask(v, seq) == Step("ask", v, seq)
Set(state)  == Step("set", state, "none")
Judge(what) == Step("judge", what, "none")
Take        == Step("take", "none", "none")
Cold        == Step("cold", "none", "none")

OpenSteps ==
    <<Put("T"), Ask("address", "open_read"), Take, Judge("data"),
      Put("N"), Ask("address", "open_write"), Ask("T", "open_write"), Take, Judge("memory")>>

ClosedSteps ==
    <<Put("T"), Ask("address", "closed_read"), Set("closed"), Set("open"), Take, Judge("data"),
      Put("N"), Ask("address", "closed_write"), Ask("T", "closed_write"), Set("closed"), Set("open"),
      Take, Judge("memory")>>

\* test_d004 locks the port and resets, and looks at the answer after that.
Steps ==
    CASE Suite[test] \in {"d001", "d002"} -> OpenSteps
      [] Suite[test] = "d003" -> ClosedSteps
      [] Suite[test] = "d004" /\ resumed -> <<Take, Judge("data")>>
      [] Suite[test] = "d004" /\ ~resumed ->
            <<Put("T"), Ask("address", "locked_read")>>
            \o IF port = "locked" THEN <<Take, Judge("data")>> ELSE <<Set("locked"), Cold>>

StepsFor(r) == IF Kind(r) = "other" THEN <<>> ELSE Steps

\* The debugger should have got at the region.
Allowed == Suite[test] = "d001" \/ (Suite[test] = "d002" /\ Kind(at) = "ns")

Init ==
    /\ memory \in Memories /\ restricts \in Restricts /\ lone \in Lone
    /\ port \in {"open", "closed", "locked"} /\ nsOnly = FALSE
    /\ mem = [r \in Regions |-> "unknown"]
    /\ flag = Zero /\ data = Word("unknown") /\ halted = FALSE
    /\ script = "absent" /\ addr = Nowhere /\ held = Word("unknown")
    /\ test = 1 /\ pc = "check" /\ todo = <<>> /\ at = Nowhere /\ visited = 0
    /\ taken = Word("unknown") /\ started = FALSE /\ cb = FALSE /\ saved = <<Nowhere, 0>>
    /\ resumed = FALSE /\ result = "none" /\ verdict = <<>> /\ met = {}

-----------------------------------------------------------------------------
(* Slips: what a small mistake in the code would make of a definition. *)

\* The script acknowledges the end of a test without signing for the next.
ServeNextUnsigned ==
    /\ halted /\ script = "wait" /\ flag.seq = "next"
    /\ flag' = Ready /\ halted' = FALSE
    /\ UNCHANGED <<target, portVars, mem, data, scriptVars, peVars>>

\* The loop forgets to go on to the next component.
NextInstanceRepeats ==
    /\ ~halted /\ pc = "region" /\ todo = <<>>
    /\ at' = <<at[1], 1 + (at[2] % Len(memory[at[1]]))>> /\ todo' = StepsFor(at')
    /\ UNCHANGED <<target, portVars, mem, words, scriptVars, pc, visited, taken, started, nvVars,
                   resumed, result, doneVars>>

-----------------------------------------------------------------------------
(* The processor *)

Running     == ~halted
SetFlag(f)  == flag' = f /\ halted' = (script # "absent")
Conclude(v) ==
    /\ verdict' = Append(verdict, v) /\ test' = test + 1 /\ result' = "none"
    /\ pc' = IF test < Len(Suite) THEN "check" ELSE "over"

\* val_debug_get_status(DBG_INIT), left out when a cold boot was requested.
Check ==
    /\ Running /\ pc = "check"
    /\ met' = IF script = "absent" THEN met ELSE met \cup {test}
    /\ \/ /\ cb /\ Suite[test] = "d004"
          /\ resumed' = TRUE /\ pc' = "port" /\ UNCHANGED <<started, test, verdict, result>>
       \/ /\ ~(cb /\ Suite[test] = "d004")
          /\ resumed' = FALSE
          /\ IF data = Word(IF started THEN "next" ELSE "init")
             THEN started' = TRUE /\ pc' = "port" /\ UNCHANGED <<test, verdict, result>>
             ELSE Conclude("skip") /\ started' = started
    /\ UNCHANGED <<target, portVars, mem, words, scriptVars, todo, loopVars, taken, nvVars>>

\* What the test does with the state of the port before it visits the memory.
Port ==
    /\ Running /\ pc = "port"
    /\ at' = <<1, 1>> /\ visited' = 0
    /\ LET locked == port = "locked" IN
       CASE Suite[test] = "d003" /\ locked         -> pc' = "end" /\ UNCHANGED <<portVars, result>>
         [] Suite[test] = "d004" /\ locked /\ lone -> pc' = "end" /\ result' = "skip" /\ UNCHANGED portVars
         [] Suite[test] = "d004" /\ ~(locked /\ lone) -> pc' = "visit" /\ UNCHANGED <<portVars, result>>
         [] OTHER -> /\ port' = "open" /\ nsOnly' = (nsOnly \/ Suite[test] = "d002")
                     /\ pc' = "visit" /\ UNCHANGED result
    /\ UNCHANGED <<target, mem, words, scriptVars, todo, taken, started, nvVars, resumed, doneVars>>

\* One turn of the loop over the regions.  After the reset of test_d004 its variables are taken
\* from the NV memory, in every turn.
Visit ==
    /\ Running /\ pc = "visit"
    /\ LET where == IF resumed THEN saved ELSE <<at, visited>> IN
          at' = where[1] /\ visited' = where[2] /\ todo' = StepsFor(where[1])
    /\ pc' = "region"
    /\ UNCHANGED <<target, portVars, mem, words, scriptVars, taken, started, nvVars, resumed, result, doneVars>>

NextInstance ==
    /\ Running /\ pc = "region" /\ todo = <<>>
    /\ IF at[2] < Len(memory[at[1]])
       THEN /\ at' = <<at[1], at[2] + 1>> /\ todo' = StepsFor(at')
            /\ UNCHANGED <<visited, pc, resumed>>
       ELSE /\ visited' = visited + Len(memory[at[1]]) /\ at' = <<at[1] + 1, 1>> /\ todo' = todo
            /\ IF visited' < Total THEN pc' = "visit" /\ UNCHANGED resumed
               ELSE pc' = "end" /\ resumed' = FALSE
    /\ UNCHANGED <<target, portVars, mem, words, scriptVars, taken, started, nvVars, result, doneVars>>

Doing(op)   == Running /\ pc = "region" /\ todo # <<>> /\ Head(todo).op = op
GoOn        == todo' = Tail(todo) /\ UNCHANGED <<pc, result>>
CleanUp     == todo' = <<>> /\ pc' = "end" /\ result' = "fail"

PutDatum ==
    /\ Doing("put") /\ mem' = [mem EXCEPT ![at] = Head(todo).arg] /\ GoOn
    /\ UNCHANGED <<target, portVars, words, scriptVars, loopVars, taken, started, nvVars, resumed, doneVars>>

\* test_dbg_seq_write; a flag that is not as it should be now will not be when the time is out,
\* for the debugger writes it only while the processor is halted.
AskDebugger ==
    /\ Doing("ask")
    /\ IF flag.ready /\ ~flag.tx
       THEN /\ data' = IF Head(todo).arg = "address" THEN Address(at) ELSE Word(Head(todo).arg)
            /\ SetFlag(Bits(Head(todo).seq, TRUE, FALSE, FALSE)) /\ GoOn
       ELSE CleanUp /\ UNCHANGED words
    /\ UNCHANGED <<target, portVars, mem, scriptVars, loopVars, taken, started, nvVars, resumed, doneVars>>

\* test_dbg_seq_read
TakeAnswer ==
    /\ Doing("take")
    /\ IF flag.ready /\ flag.rx
       THEN taken' = data /\ SetFlag(Zero) /\ GoOn
       ELSE CleanUp /\ UNCHANGED <<taken, flag, halted>>
    /\ UNCHANGED <<target, portVars, mem, data, scriptVars, loopVars, started, nvVars, resumed, doneVars>>

JudgeAnswer ==
    /\ Doing("judge")
    /\ LET right == IF Head(todo).arg = "data" THEN Allowed <=> taken = Word("T")
                    ELSE mem[at] = IF Allowed THEN "T" ELSE "N"
       IN  IF right THEN GoOn ELSE CleanUp
    /\ UNCHANGED <<target, portVars, mem, words, scriptVars, loopVars, taken, started, nvVars, resumed, doneVars>>

\* val_dpm_set_state
SetPort ==
    /\ Doing("set") /\ port' = Head(todo).arg /\ GoOn
    /\ UNCHANGED <<target, nsOnly, mem, words, scriptVars, loopVars, taken, started, nvVars, resumed, doneVars>>

\* The reset of test_d004; the shared words outlive it, the memory of the program does not.
ColdReset ==
    /\ Doing("cold")
    /\ cb' = TRUE /\ saved' = <<at, visited>>
    /\ started' = FALSE /\ pc' = "check" /\ todo' = <<>>
    /\ UNCHANGED <<target, portVars, mem, words, scriptVars, loopVars, taken, resumed, result, doneVars>>

\* test_env_reset, and what d001 does in its place.
End ==
    /\ Running /\ pc = "end"
    /\ nsOnly' = (nsOnly \/ Suite[test] = "d002") /\ cb' = (cb /\ Suite[test] # "d004")
    /\ IF flag.ready
       THEN SetFlag(Bits("next", FALSE, FALSE, FALSE)) /\ Conclude(IF result = "none" THEN "pass" ELSE result)
       ELSE Conclude("fail") /\ UNCHANGED <<flag, halted>>
    /\ UNCHANGED <<target, port, mem, data, scriptVars, todo, loopVars, taken, started, saved, resumed, met>>

Over == pc = "over" /\ UNCHANGED vars

Processor ==
    \/ Check \/ Port \/ Visit \/ NextInstance \/ PutDatum \/ AskDebugger \/ TakeAnswer
    \/ JudgeAnswer \/ SetPort \/ ColdReset \/ End

-----------------------------------------------------------------------------
(* debugger_script.py *)

Resume(f)    == flag' = f /\ halted' = FALSE
Stopped(s)   == halted /\ script = s
Store        == mem' = IF Reaches(addr) THEN [mem EXCEPT ![addr] = held'.v] ELSE mem

Attach ==
    /\ script = "absent" /\ script' = "wait" /\ flag' = Ready /\ data' = Word("init")
    /\ UNCHANGED <<target, portVars, mem, halted, addr, held, peVars>>

ServeZero ==
    /\ Stopped("wait") /\ flag = Zero /\ Resume(Ready)
    /\ UNCHANGED <<target, portVars, mem, data, scriptVars, peVars>>

ServeOpenRead ==
    /\ Stopped("wait") /\ flag.seq = "open_read"
    /\ data' = Content(data.r) /\ Resume(Served)
    /\ UNCHANGED <<target, portVars, mem, scriptVars, peVars>>

\* The other requests begin with an address; what comes next is for the next stop, or done
\* while the processor runs.
ServeAddress ==
    /\ Stopped("wait") /\ flag.seq \in {"open_write", "closed_read", "closed_write", "locked_read"}
    /\ addr' = data.r /\ script' = flag.seq /\ Resume(Served)
    /\ UNCHANGED <<target, portVars, mem, data, held, peVars>>

ServeNext ==
    /\ Stopped("wait") /\ flag.seq = "next"
    /\ data' = Word("next") /\ Resume(Ready)
    /\ UNCHANGED <<target, portVars, mem, scriptVars, peVars>>

StoreDatum ==
    /\ halted /\ script \in {"open_write", "closed_write"}
    /\ held' = data /\ Store /\ Resume(Served)
    /\ script' = IF script = "open_write" THEN "wait" ELSE "closed_again"
    /\ UNCHANGED <<target, portVars, data, addr, peVars>>

\* What is read here goes nowhere.
ReadClosed ==
    /\ script = "closed_read" /\ script' = "wait" /\ held' = Content(addr)
    /\ UNCHANGED <<target, portVars, mem, words, addr, peVars>>

StoreAgain ==
    /\ script = "closed_again" /\ script' = "wait" /\ held' = held /\ Store
    /\ UNCHANGED <<target, portVars, words, addr, peVars>>

ReadLocked ==
    /\ script = "locked_read" /\ script' = "hand_over" /\ held' = Content(addr)
    /\ UNCHANGED <<target, portVars, mem, words, addr, peVars>>

HandOver ==
    /\ Stopped("hand_over") /\ script' = "wait" /\ data' = held /\ Resume(Served)
    /\ UNCHANGED <<target, portVars, mem, addr, held, peVars>>

Script ==
    \/ ServeZero \/ ServeOpenRead \/ ServeAddress \/ ServeNext \/ StoreDatum
    \/ ReadClosed \/ StoreAgain \/ ReadLocked \/ HandOver

Next == Processor \/ Attach \/ Script \/ Over

Spec == Init /\ [][Next]_vars

\* The processor runs while it is not halted; the script goes on once it was started.
FairSpec == Spec /\ WF_vars(Processor) /\ WF_vars(Script)

-----------------------------------------------------------------------------
(* Properties *)

HasSecure == \E r \in Regions : Kind(r) = "s"
HasMemory == \E r \in Regions : Kind(r) # "other"

\* A test that begins with the debugger there is not skipped, whatever came before it, and no
\* request or answer is lost: d001 passes, and d002 passes just when the port keeps the debugger
\* out of secure memory.  Only a lone port that is locked makes d004 skip.
DebuggerIsUsed ==
    \A t \in met \cap DOMAIN verdict :
        /\ verdict[t] = "skip" => Suite[t] = "d004" /\ lone
        /\ Suite[t] = "d001" => verdict[t] = "pass"
        /\ Suite[t] = "d002" => (verdict[t] = "pass" <=> restricts \/ ~HasSecure)

\* Neither side waits for the other for ever: every test gets its verdict.
Concludes == <>(pc = "over")

\* "Read the data returned by debugger and compare to get the results": d004 does not pass where
\* the debugger reads memory that the locked port should keep from it.
LockedCaught ==
    \A t \in DOMAIN verdict :
        Suite[t] = "d004" /\ t \in met /\ verdict[t] = "pass" /\ HasMemory => restricts
-----------------------------------------------------------------------------
(* What a suite has to be for the theorems of TbsaDebugProofs. *)

\* The tests come in the order of the pool.  Nothing follows test_d004, after whose reset the
\* program looks for the first word of the debugger again, and test_d001 does not follow
\* test_d002, which leaves the port to non-secure memory.
InOrder ==
    \A i, j \in DOMAIN Suite : i < j =>
        Suite[i] # "d004" /\ (Suite[j] = "d001" => Suite[i] # "d002")
=============================================================================
