---------------------------- MODULE SecureDispatch ----------------------------
(***************************************************************************)
(* How one test of the framework suite runs its checks: the non-secure     *)
(* side ("ns") and the client partition ("cp") each go through the list of *)
(* checks, and for each check ask the server partition ("sp") to run its   *)
(* server half, run the client half themselves and collect the result of   *)
(* the other.  The non-secure side asks the client partition to start in   *)
(* the same way.  The two halves of a check run concurrently and meet in   *)
(* the requests they exchange over the service under test.                 *)
(*                                                                         *)
(* Any request may be refused, and either half may give up, when the       *)
(* implementation under test does not do what the check expects.           *)
(***************************************************************************)
EXTENDS Naturals, Sequences

\* The tests: for each the list of its checks, that is the scripts of both halves
\* of each, and the check at which each driver enters the list.
CONSTANT Tests

Drivers    == {"ns", "cp"}
Partitions == {"cp", "sp"}
Status     == {"ok", "fail", "skip"}

\* What the client half requests of the service under test, and what its server
\* half waits for.  "denied" is a connection that the partition manager refuses
\* without telling the service.
Requests   == {"connect", "call", "close"}
CheckType  == [client : Seq(Requests \cup {"denied"}), server : Seq(Requests)]

ASSUME TestsAssumption ==
    Tests \subseteq [checks : Seq(CheckType), first : [Drivers -> Nat \ {0}]]

VARIABLES
    test,       \* the test being run
    pc,         \* where each of "ns", "cp" and "sp" is
    chk,        \* i: the check a driver is at
    op,         \* position in the script of a half
    half,       \* status of the half being run: the drivers' client halves, the server half
    status,     \* status of the driver
    req,        \* the request each driver is blocked in
    busy,       \* test_data # 0: a partition has a dispatcher connection
    result,     \* test_status of the main loop of a partition
    block,      \* the server half being run, and for whom
    okHalves,   \* observer: the halves that returned success
    disturbed   \* observer: the implementation under test misbehaved

vars == <<test, pc, chk, op, half, status, req, busy, result, block, okHalves, disturbed>>

Checks        == test.checks
First         == test.first
NoRequest     == [to |-> "nobody", type |-> "none", arg |-> 0, answer |-> "none"]
Pending(d)    == {p \in Drivers : req[p].to = d /\ req[p].answer = "none"}
Answered(p)   == req[p].answer # "none"
Ask(p, d, t, n) == req' = [req EXCEPT ![p] = [to |-> d, type |-> t, arg |-> n, answer |-> "none"]]
Answer(p, a)    == req' = [req EXCEPT ![p].answer = a]
Goto(p, l)      == pc' = [pc EXCEPT ![p] = l]
Script(p)       == IF p = "sp" THEN Checks[block.chk].server ELSE Checks[chk[p]].client

\* (A slip, see below: the status of the client half hides that of the server.)
CombineForgetsServer(c, s) == c

Combine(c, s) == IF c # "ok" THEN c ELSE s

Init ==
    /\ test \in Tests
    /\ pc = [p \in {"ns", "cp", "sp"} |-> IF p = "ns" THEN "next" ELSE "idle"]
    /\ chk = First
    /\ op = [p \in {"ns", "cp", "sp"} |-> 1]
    /\ half = [p \in {"ns", "cp", "sp"} |-> "ok"] /\ status = [p \in Drivers |-> "ok"]
    /\ req = [p \in Drivers |-> NoRequest]
    /\ busy = [d \in Partitions |-> FALSE]
    /\ result \in [Partitions -> Status]          \* not initialised
    /\ block = [by |-> "ns", chk |-> 1]
    /\ okHalves = {} /\ disturbed = FALSE

-----------------------------------------------------------------------------
(* Slips of the kind a change to the code could bring in; not part of the    *)
(* specification.                                                            *)

\* A disconnect leaves test_data as it is.
DisconnectKeeps(d) ==
    \E p \in Pending(d) :
        /\ pc[d] = "idle" /\ req[p].type = "close"
        /\ result' = [result EXCEPT ![d] = "ok"]
        /\ Answer(p, "ok")
        /\ UNCHANGED <<test, pc, chk, op, half, status, busy, block, okHalves, disturbed>>

\* The call that collects a result fails and its status is taken for the result.
GotResultRaw(p) ==
    /\ pc[p] \in {"result", "swResult"} /\ Answered(p)
    /\ status' = [status EXCEPT ![p] = req[p].answer]
    /\ Ask(p, req[p].to, "close", 0)
    /\ Goto(p, IF pc[p] = "result" THEN "close" ELSE "swClose")
    /\ UNCHANGED <<test, chk, op, half, busy, result, block, okHalves, disturbed>>

\* The result of the client partition is asked of the server partition.
StartedWrongHandle(p) ==
    /\ pc[p] \in {"exec", "swExec"} /\ Answered(p)
    /\ \/ /\ req[p].answer = "ok" /\ pc[p] = "exec"
          /\ Goto(p, "client") /\ op' = [op EXCEPT ![p] = 1] /\ half' = [half EXCEPT ![p] = "ok"]
          /\ req' = [req EXCEPT ![p] = NoRequest]
       \/ /\ req[p].answer = "ok" /\ pc[p] = "swExec"
          /\ Ask(p, "sp", "result", 0) /\ Goto(p, "swResult") /\ UNCHANGED <<op, half>>
       \/ /\ req[p].answer = "refused"
          /\ Ask(p, req[p].to, "close", 0) /\ Goto(p, "abandon") /\ UNCHANGED <<op, half>>
    /\ UNCHANGED <<test, chk, status, busy, result, block, okHalves, disturbed>>

\* test_info.block_num does not follow the loop.
ConnectedForgetsBlock(p) ==
    /\ pc[p] \in {"connect", "swConnect"} /\ req[p].answer = "ok"
    /\ Ask(p, req[p].to, "exec", First[p])
    /\ Goto(p, IF pc[p] = "connect" THEN "exec" ELSE "swExec")
    /\ UNCHANGED <<test, chk, op, half, status, busy, result, block, okHalves, disturbed>>

\* A server half does not wait for the last request of its client.
ServerReturnEarly ==
    /\ pc["sp"] = "server" /\ op["sp"] >= Len(Script("sp"))
    /\ result' = [result EXCEPT !["sp"] = "ok"] /\ Goto("sp", "idle")
    /\ UNCHANGED <<test, chk, op, half, status, req, busy, block, okHalves, disturbed>>

\* A server half does not notice the dispatcher while it waits for its client.
ServerDeaf == FALSE /\ UNCHANGED vars

-----------------------------------------------------------------------------
(* The loop of val_execute_non_secure_tests and val_execute_secure_tests     *)

\* The head of the loop: the server half of the next check, or the end of the
\* list.  After its own list the non-secure side turns to the client partition.
NextCheck(p) ==
    /\ pc[p] = "next"
    /\ \/ /\ chk[p] <= Len(Checks)
          /\ Ask(p, "sp", "connect", 0) /\ Goto(p, "connect")
          /\ UNCHANGED result
       \/ /\ chk[p] > Len(Checks)
          /\ IF p = "ns"
             THEN Ask(p, "cp", "connect", 0) /\ Goto(p, "swConnect") /\ UNCHANGED result
             ELSE /\ Goto(p, "idle") /\ UNCHANGED req
                  /\ result' = [result EXCEPT !["cp"] = status["cp"]]
    /\ UNCHANGED <<test, chk, op, half, status, busy, block, okHalves, disturbed>>

\* How a driver returns: the non-secure side is done with the test, the client
\* partition leaves the status for its main loop.
Return(p, st) ==
    /\ status' = [status EXCEPT ![p] = st]
    /\ Goto(p, IF p = "ns" THEN "done" ELSE "idle")
    /\ result' = IF p = "cp" THEN [result EXCEPT !["cp"] = st] ELSE result

\* val_execute_secure_test_func: connected.  When the connection is refused the
\* non-secure side reports it; the secure one calls on the invalid handle,
\* which makes the partition manager stop it.
Connected(p) ==
    /\ pc[p] \in {"connect", "swConnect"} /\ Answered(p)
    /\ \/ /\ req[p].answer = "ok"
          /\ Ask(p, req[p].to, "exec", IF pc[p] = "connect" THEN chk[p] ELSE First["cp"])
          /\ Goto(p, IF pc[p] = "connect" THEN "exec" ELSE "swExec")
          /\ UNCHANGED <<status, result>>
       \/ /\ req[p].answer = "refused" /\ UNCHANGED req
          /\ IF p = "ns" THEN Return(p, "fail")
             ELSE Goto(p, "panicked") /\ UNCHANGED <<status, result>>
    /\ UNCHANGED <<test, chk, op, half, busy, block, okHalves, disturbed>>

\* ... and the partition has started.  A refused call closes the connection.
Started(p) ==
    /\ pc[p] \in {"exec", "swExec"} /\ Answered(p)
    /\ \/ /\ req[p].answer = "ok" /\ pc[p] = "exec"
          /\ Goto(p, "client") /\ op' = [op EXCEPT ![p] = 1] /\ half' = [half EXCEPT ![p] = "ok"]
          /\ req' = [req EXCEPT ![p] = NoRequest]
       \/ /\ req[p].answer = "ok" /\ pc[p] = "swExec"
          /\ Ask(p, "cp", "result", 0) /\ Goto(p, "swResult") /\ UNCHANGED <<op, half>>
       \/ /\ req[p].answer = "refused"
          /\ Ask(p, req[p].to, "close", 0) /\ Goto(p, "abandon") /\ UNCHANGED <<op, half>>
    /\ UNCHANGED <<test, chk, status, busy, result, block, okHalves, disturbed>>

Abandoned(p) ==
    /\ pc[p] = "abandon" /\ Answered(p) /\ Return(p, "fail")
    /\ UNCHANGED <<test, chk, op, half, req, busy, block, okHalves, disturbed>>

-----------------------------------------------------------------------------
(* The client half of a check                                                *)

ClientRequest(p) ==
    /\ pc[p] = "client" /\ op[p] <= Len(Script(p)) /\ ~Answered(p)
    /\ req[p].to = "nobody"
    /\ \/ /\ Script(p)[op[p]] # "denied"
          /\ Ask(p, "test", Script(p)[op[p]], 0) /\ UNCHANGED <<pc, op>>
       \/ /\ Script(p)[op[p]] = "denied" /\ UNCHANGED req
          /\ IF p = "ns" THEN op' = [op EXCEPT ![p] = @ + 1] /\ UNCHANGED pc
             ELSE Goto(p, "panicked") /\ UNCHANGED op
    /\ UNCHANGED <<test, chk, half, status, busy, result, block, okHalves, disturbed>>

\* After a call that fails some client halves close the connection and then
\* return the failure, others return at once.
ClientAnswered(p) ==
    /\ pc[p] = "client"
    /\ \/ req[p].answer = "ok" /\ UNCHANGED half
       \/ /\ req[p].answer = "refused" /\ req[p].type = "call"
          /\ half' = [half EXCEPT ![p] = "fail"]
    /\ op' = [op EXCEPT ![p] = @ + 1] /\ req' = [req EXCEPT ![p] = NoRequest]
    /\ UNCHANGED <<test, pc, chk, status, busy, result, block, okHalves, disturbed>>

\* val_get_secure_test_result follows whatever the client half returns: it got
\* to its end, a request of its was refused, or it gave up before one.
ClientReturn(p) ==
    /\ pc[p] = "client"
    /\ \/ /\ op[p] > Len(Script(p)) /\ req[p].to = "nobody" /\ UNCHANGED <<half, disturbed>>
          /\ okHalves' = IF half[p] = "ok" THEN okHalves \cup {<<p, chk[p], "client">>}
                         ELSE okHalves
       \/ /\ req[p].answer = "refused" /\ half' = [half EXCEPT ![p] = "fail"]
          /\ UNCHANGED <<okHalves, disturbed>>
       \/ /\ req[p].to = "nobody" /\ half[p] = "ok" /\ disturbed' = TRUE
          /\ \E s \in {"fail", "skip"} : half' = [half EXCEPT ![p] = s]
          /\ UNCHANGED okHalves
    /\ Ask(p, "sp", "result", 0) /\ Goto(p, "result")
    /\ UNCHANGED <<test, chk, op, status, busy, result, block>>

\* The result of the partition has come; close the connection.  A refused call
\* counts as a failure of the other side.
GotResult(p) ==
    /\ pc[p] \in {"result", "swResult"} /\ Answered(p)
    /\ status' = [status EXCEPT ![p] = IF req[p].answer = "refused" THEN "fail"
                                       ELSE req[p].answer]
    /\ Ask(p, req[p].to, "close", 0)
    /\ Goto(p, IF pc[p] = "result" THEN "close" ELSE "swClose")
    /\ UNCHANGED <<test, chk, op, half, busy, result, block, okHalves, disturbed>>

Closed(p) ==
    /\ pc[p] \in {"close", "swClose"} /\ Answered(p)
    /\ LET st == IF pc[p] = "close" THEN Combine(half[p], status[p]) ELSE status[p]
       IN  IF st = "ok" /\ pc[p] = "close"
           THEN /\ chk' = [chk EXCEPT ![p] = @ + 1] /\ Goto(p, "next")
                /\ status' = [status EXCEPT ![p] = st] /\ UNCHANGED result
           ELSE Return(p, st) /\ UNCHANGED chk
    /\ UNCHANGED <<test, op, half, req, busy, block, okHalves, disturbed>>

-----------------------------------------------------------------------------
(* client_main and server_main: the dispatcher connection                    *)

\* A connection is accepted when the last one was closed, unless the
\* implementation under test has none to give.
Accept(d) ==
    \E p \in Pending(d) :
        /\ pc[d] = "idle" /\ req[p].type = "connect"
        /\ \/ Answer(p, IF busy[d] THEN "refused" ELSE "ok") /\ UNCHANGED disturbed
           \/ Answer(p, "refused") /\ disturbed' = TRUE
        /\ UNCHANGED <<test, pc, chk, op, half, status, busy, result, block, okHalves>>

\* TEST_EXECUTE_FUNC: reply first, then run the list or the server half.
Execute(d) ==
    \E p \in Pending(d) :
        /\ pc[d] = "idle" /\ req[p].type = "exec"
        /\ \/ /\ Answer(p, "ok") /\ busy' = [busy EXCEPT ![d] = TRUE]
              /\ IF d = "cp"
                 THEN /\ Goto("cp", "next") /\ chk' = [chk EXCEPT !["cp"] = req[p].arg]
                      /\ status' = [status EXCEPT !["cp"] = "ok"] /\ UNCHANGED <<op, half, block>>
                 ELSE /\ Goto("sp", "server") /\ op' = [op EXCEPT !["sp"] = 1]
                      /\ half' = [half EXCEPT !["sp"] = "ok"]
                      /\ block' = [by |-> p, chk |-> req[p].arg] /\ UNCHANGED <<chk, status>>
              /\ UNCHANGED disturbed
           \/ /\ Answer(p, "refused") /\ disturbed' = TRUE       \* payload not read
              /\ UNCHANGED <<pc, chk, op, half, status, busy, block>>
        /\ UNCHANGED <<test, result, okHalves>>

\* TEST_RETURN_RESULT.
ReturnResult(d) ==
    \E p \in Pending(d) :
        /\ pc[d] = "idle" /\ req[p].type = "result"
        /\ \/ Answer(p, result[d]) /\ busy' = [busy EXCEPT ![d] = TRUE] /\ UNCHANGED disturbed
           \/ Answer(p, "refused") /\ disturbed' = TRUE /\ UNCHANGED busy
        /\ UNCHANGED <<test, pc, chk, op, half, status, result, block, okHalves>>

Disconnect(d) ==
    \E p \in Pending(d) :
        /\ pc[d] = "idle" /\ req[p].type = "close"
        /\ busy' = [busy EXCEPT ![d] = FALSE] /\ result' = [result EXCEPT ![d] = "ok"]
        /\ Answer(p, "ok")
        /\ UNCHANGED <<test, pc, chk, op, half, status, block, okHalves, disturbed>>

\* A request of a client half that no server half waits for ends in TEST_PANIC.
ServerPanic ==
    /\ pc["sp"] = "idle" /\ Pending("sp") = {} /\ Pending("test") # {}
    /\ Goto("sp", "panicked")
    /\ UNCHANGED <<test, chk, op, half, status, req, busy, result, block, okHalves, disturbed>>

-----------------------------------------------------------------------------
(* The server half of a check: val_process_connect_request and its siblings  *)

\* The request it waits for is answered, unless it is not what the check expects:
\* its type, its contents or the answer of the partition manager.  Then ...
ServerTakes(p) ==
    /\ pc["sp"] = "server" /\ op["sp"] <= Len(Script("sp"))
    /\ p \in Pending("test")
    /\ \/ /\ req[p].type = Script("sp")[op["sp"]]
          /\ op' = [op EXCEPT !["sp"] = @ + 1] /\ Answer(p, "ok")
          /\ UNCHANGED <<pc, half, result, disturbed>>
       \* ... the half ends at once, a disconnection staying without an answer,
       \/ /\ result' = [result EXCEPT !["sp"] = "fail"] /\ Goto("sp", "idle")
          /\ Answer(p, IF req[p].type = "close" THEN "never" ELSE "refused")
          /\ disturbed' = TRUE /\ UNCHANGED <<op, half>>
       \* ... or it sees the connection to its end (exit_graceful) and fails then.
       \/ /\ req[p].type # "connect"
          /\ half' = [half EXCEPT !["sp"] = "fail"]
          /\ \/ /\ req[p].type = "close" /\ Answer(p, "ok")
                /\ op' = [op EXCEPT !["sp"] = Len(Script("sp")) + 1]
             \/ /\ req[p].type = "call" /\ Answer(p, "refused")
                /\ op' = [op EXCEPT !["sp"] = Len(Script("sp"))]
          /\ disturbed' = TRUE /\ UNCHANGED <<pc, result>>
    /\ UNCHANGED <<test, chk, status, busy, block, okHalves>>

\* psa_wait(PSA_WAIT_ANY) also returns for the dispatcher's signal: the client
\* half is over.  The message stays for the main loop.  Some server halves first
\* reply to the message they did not get, which stops the partition.
ServerOutlived ==
    /\ pc["sp"] = "server" /\ op["sp"] <= Len(Script("sp"))
    /\ Pending("sp") # {} /\ Pending("test") = {}
    /\ \/ result' = [result EXCEPT !["sp"] = "fail"] /\ Goto("sp", "idle")
       \/ Goto("sp", "panicked") /\ UNCHANGED result
    /\ UNCHANGED <<test, chk, op, half, status, req, busy, block, okHalves, disturbed>>

ServerReturn ==
    /\ pc["sp"] = "server" /\ op["sp"] > Len(Script("sp"))
    /\ result' = [result EXCEPT !["sp"] = half["sp"]]
    /\ okHalves' = IF half["sp"] = "ok" THEN okHalves \cup {<<block.by, block.chk, "server">>}
                   ELSE okHalves
    /\ Goto("sp", "idle")
    /\ UNCHANGED <<test, chk, op, half, status, req, busy, block, disturbed>>

Driver(p) ==
    \/ NextCheck(p) \/ Connected(p) \/ Started(p) \/ Abandoned(p)
    \/ ClientRequest(p) \/ ClientAnswered(p) \/ ClientReturn(p)
    \/ GotResult(p) \/ Closed(p)

Partition(d) == Accept(d) \/ Execute(d) \/ ReturnResult(d) \/ Disconnect(d)

ServerHalf == (\E p \in Drivers : ServerTakes(p)) \/ ServerOutlived \/ ServerReturn \/ ServerPanic

Next ==
    (\E p \in Drivers : Driver(p)) \/ (\E d \in Partitions : Partition(d)) \/ ServerHalf

Spec == Init /\ [][Next]_vars

\* The partition manager runs whatever can run.
FairSpec == Spec /\ WF_vars(Next)

-----------------------------------------------------------------------------
(* Properties *)

Idle == {"idle", "panicked"}

TypeOK ==
    /\ test \in Tests
    /\ pc \in [{"ns", "cp", "sp"} ->
               {"next", "connect", "exec", "client", "result", "close", "abandon", "swConnect",
                "swExec", "swResult", "swClose", "done", "server"} \cup Idle]
    /\ chk \in [Drivers -> Nat \ {0}] /\ op \in [{"ns", "cp", "sp"} -> Nat \ {0}]
    /\ half \in [{"ns", "cp", "sp"} -> Status] /\ status \in [Drivers -> Status]
    /\ req \in [Drivers -> [to : {"nobody", "cp", "sp", "test"},
                            type : {"none", "exec", "result"} \cup Requests,
                            arg : Nat, answer : {"none", "refused", "never"} \cup Status]]
    /\ busy \in [Partitions -> BOOLEAN] /\ result \in [Partitions -> Status]
    /\ block \in [by : Drivers, chk : Nat \ {0}]
    /\ okHalves \subseteq Drivers \X (Nat \ {0}) \X {"client", "server"}
    /\ disturbed \in BOOLEAN

\* A dispatcher connection is never refused for want of closing the one before:
\* every way out of a check closes what it opened.
NeverStillBusy ==
    \A d \in Partitions, p \in Drivers :
        p \in Pending(d) /\ req[p].type = "connect" => ~busy[d]

\* A service has at most one request to answer: the drivers take turns, and the
\* server partition never has to choose between its dispatcher and a client half.
OneAtATime ==
    /\ Pending("sp") = {} \/ Pending("test") = {}
    /\ \A d \in {"cp", "sp", "test"} : \A p, q \in Pending(d) : p = q

\* Success is earned: both halves of every check, from both worlds, returned
\* success; no result is lost, stale or that of another check.
SuccessEarned ==
    pc["ns"] = "done" /\ status["ns"] = "ok" =>
        \A p \in Drivers : \A i \in First[p]..Len(Checks) :
            {<<p, i, "client">>, <<p, i, "server">>} \subseteq okHalves

\* An implementation that does what every check allows passes the test.
UndisturbedPasses ==
    pc["ns"] = "done" /\ ~disturbed => status["ns"] = "ok"

\* A request of a client half that its server half left without an answer.
Forsaken == pc["sp"] = "panicked" \/ \E p \in Drivers : req[p].answer = "never"

\* The server partition stops, or leaves a request without an answer, only when
\* the implementation under test misbehaved: the scripts of the two halves never
\* let one leave the other alone.
ForsakenOnlyWhenDisturbed == Forsaken => disturbed

\* The drivers and partitions never wait for each other in a circle: the test
\* ends, or it stops at a partition that was stopped, which the watchdog ends.
Ends == <>(pc["ns"] = "done" \/ pc["cp"] = "panicked" \/ Forsaken)

-----------------------------------------------------------------------------
(* What a list of checks must be for the halves never to miss each other     *)

\* How the requests that a server half waits for are those that its client half
\* makes, in the same order, but for the denied ones.
Pairings(c) ==
    {f \in [1..Len(c.server) -> 1..Len(c.client)] :
        /\ \A i, j \in DOMAIN f : i < j => f[i] < f[j]
        /\ \A j \in DOMAIN f : c.client[f[j]] = c.server[j]
        /\ \A i \in 1..Len(c.client) :
              c.client[i] # "denied" => \E j \in DOMAIN f : f[j] = i}

\* The halves of every check fit.  Not so in ff/ipc/test_i005 and others, whose server
\* half waits for a connection that may be denied.
HalvesFit == \A t \in Tests : \A i \in 1..Len(t.checks) : Pairings(t.checks[i]) # {}

=============================================================================
