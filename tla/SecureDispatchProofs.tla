------------------------- MODULE SecureDispatchProofs -------------------------
(***************************************************************************)
(* The drivers of a test take turns, for every list of checks and whatever *)
(* the halves of a check do: a partition has at most one request to        *)
(* answer, and never refuses a connection because the one before it was    *)
(* left open.                                                              *)
(*                                                                         *)
(* Success of a test is earned, for every list of checks: both halves of   *)
(* every check, from both worlds, returned success, and each result was    *)
(* collected by the driver that asked for it. And for every list of checks *)
(* whose halves fit each other, an implementation that does what every     *)
(* check allows passes the test, with neither half ever left alone.        *)
(***************************************************************************)
EXTENDS SecureDispatch, TLAPS

Parties == {"ns", "cp", "sp"}
Places  == {"next", "connect", "exec", "client", "result", "close", "abandon", "swConnect",
            "swExec", "swResult", "swClose", "done", "server"} \cup Idle
RequestType == [to : {"nobody", "cp", "sp", "test"},
                type : {"none", "exec", "result"} \cup Requests, arg : Nat,
                answer : {"none", "refused", "never"} \cup Status]

\* Where the three are: the client partition is awake only while the non-secure
\* side waits for its result.
TurnInv ==
    /\ pc["ns"] \in {"next", "connect", "exec", "client", "result", "close", "abandon",
                     "swConnect", "swExec", "swResult", "swClose", "done"}
    /\ pc["cp"] \in {"next", "connect", "exec", "client", "result", "close", "abandon"}
                     \cup Idle
    /\ pc["sp"] \in {"server"} \cup Idle
    /\ pc["cp"] # "idle" => \/ pc["ns"] = "swExec" /\ req["ns"].answer = "ok"
                            \/ pc["ns"] = "swResult" /\ req["ns"].answer = "none"

\* A driver waits for the request that belongs to its place in the loop.
Waits(p, d, t) == req[p].to = d /\ req[p].type = t
RequestInv ==
    \A p \in Drivers :
        /\ pc[p] = "connect"   => Waits(p, "sp", "connect")
        /\ pc[p] = "exec"      => Waits(p, "sp", "exec") /\ req[p].arg = chk[p]
        /\ pc[p] = "result"    => Waits(p, "sp", "result")
        /\ pc[p] = "close"     => Waits(p, "sp", "close")
        /\ pc[p] = "swConnect" => Waits(p, "cp", "connect")
        /\ pc[p] = "swExec"    => Waits(p, "cp", "exec") /\ req[p].arg \in Nat \ {0}
        /\ pc[p] = "swResult"  => Waits(p, "cp", "result")
        /\ pc[p] = "swClose"   => Waits(p, "cp", "close")
        /\ pc[p] = "abandon"   => Waits(p, "sp", "close") \/ (p = "ns" /\ Waits(p, "cp", "close"))
        /\ pc[p] = "client"    => req[p].to \in {"nobody", "test"}
        /\ pc[p] \in {"next", "done"} \cup Idle => Answered(p) \/ req[p].to = "nobody"
        /\ req[p].answer = "never" => pc[p] = "client"

\* A half that runs is one of the test.
ScriptInv ==
    /\ \A p \in Drivers : pc[p] \in {"connect", "exec", "client"} => chk[p] <= Len(Checks)
    /\ pc["sp"] = "server" => block.chk <= Len(Checks)

\* A connection that is open has a driver that is yet to close it, or a stopped one.
HoldsServer(p) == \/ pc[p] = "exec" /\ req[p].answer = "ok"
                  \/ pc[p] \in {"client", "result"}
                  \/ pc[p] = "close" /\ ~Answered(p)
HoldsClient    == \/ pc["ns"] = "swExec" /\ req["ns"].answer = "ok"
                  \/ pc["ns"] = "swResult"
                  \/ pc["ns"] = "swClose" /\ ~Answered("ns")
BusyInv ==
    /\ busy["sp"] => HoldsServer("ns") \/ HoldsServer("cp") \/ pc["cp"] = "panicked"
    /\ busy["cp"] => HoldsClient

IInv == TypeOK /\ TurnInv /\ RequestInv /\ ScriptInv /\ BusyInv
\* The type of what is inside a test.
LEMMA TestType ==
    ASSUME TypeOK
    PROVE  /\ Checks \in Seq(CheckType) /\ First \in [Drivers -> Nat \ {0}]
           /\ \A i \in 1..Len(Checks) : /\ Checks[i].client \in Seq(Requests \cup {"denied"})
                                       /\ Checks[i].server \in Seq(Requests)
  <1>1. test \in [checks : Seq(CheckType), first : [Drivers -> Nat \ {0}]]
    BY TestsAssumption DEF TypeOK
  <1>2. Checks \in Seq(CheckType) /\ First \in [Drivers -> Nat \ {0}]
    BY <1>1 DEF Checks, First
  <1>3. \A i \in 1..Len(Checks) : Checks[i] \in CheckType
    BY <1>2
  <1> QED BY <1>2, <1>3 DEF CheckType

\* The initial states have the type ...
LEMMA InitType == Init => TypeOK
  <1> SUFFICES ASSUME Init PROVE TypeOK
    OBVIOUS
  <1>1. test \in [checks : Seq(CheckType), first : [Drivers -> Nat \ {0}]]
    BY TestsAssumption DEF Init
  <1>2. chk \in [Drivers -> Nat \ {0}]
    BY <1>1 DEF Init, First
  <1>3. req \in [Drivers -> RequestType]
    BY DEF Init, NoRequest, RequestType
  <1>4. pc \in [Parties -> Places]
    BY DEF Init, Parties, Places, Idle
  <1>5. /\ half \in [Parties -> Status] /\ status \in [Drivers -> Status]
        /\ op \in [Parties -> Nat \ {0}]
    BY DEF Init, Status, Parties
  <1>6. busy \in [Partitions -> BOOLEAN] /\ block \in [by : Drivers, chk : Nat \ {0}]
    BY DEF Init, Drivers
  <1>7. test \in Tests /\ result \in [Partitions -> Status] /\ disturbed \in BOOLEAN
        /\ okHalves \subseteq Drivers \X (Nat \ {0}) \X {"client", "server"}
    BY DEF Init
  <1> QED BY <1>2, <1>3, <1>4, <1>5, <1>6, <1>7 DEF TypeOK, Parties, Places, RequestType

\* ... and satisfy the invariant.
LEMMA InitInv == Init => IInv
  <1> SUFFICES ASSUME Init PROVE IInv
    OBVIOUS
  <1>1. TypeOK
    BY InitType
  <1>2. TurnInv
    BY DEF Init, TurnInv, Idle
  <1>3. RequestInv
    BY DEF Init, RequestInv, Drivers, NoRequest, Idle, Answered, Waits
  <1>4. ScriptInv
    BY DEF Init, ScriptInv, Drivers
  <1>5. BusyInv
    BY DEF Init, BusyInv, Partitions
  <1> QED BY <1>1, <1>2, <1>3, <1>4, <1>5 DEF IInv

\* Every step preserves the invariant. First the loop over the checks: the head of the
\* loop asks for a connection that is not open.
LEMMA NextCheckInv ==
    ASSUME IInv, NEW p \in Drivers, NextCheck(p)
    PROVE  IInv'
  <1> USE DEF Drivers, Answered, Ask, Goto
  <1>1. TypeOK'
    <2>1. /\ req' = req \/ \E d \in {"sp", "cp"} : Ask(p, d, "connect", 0)
          /\ \E l \in {"connect", "swConnect", "idle", "done"} : Goto(p, l)
          /\ result' = result \/ result' = [result EXCEPT !["cp"] = status["cp"]]
      BY DEF NextCheck, IInv, TypeOK
    <2>2. req' \in [Drivers -> RequestType]
      BY <2>1 DEF IInv, TypeOK, RequestType, Requests
    <2>3. pc' \in [Parties -> Places]
      BY <2>1 DEF IInv, TypeOK, Parties, Places, Idle
    <2>4. result' \in [Partitions -> Status]
      BY <2>1 DEF IInv, TypeOK
    <2> QED BY <2>2, <2>3, <2>4 DEF NextCheck, IInv, TypeOK, Parties, Places, RequestType
  <1>2. TurnInv'
    BY DEF NextCheck, IInv, TurnInv, TypeOK, Idle
  <1>3. RequestInv'
    BY DEF NextCheck, IInv, RequestInv, TypeOK, Waits, Idle
  <1>4. ScriptInv'
    BY DEF NextCheck, IInv, ScriptInv, TypeOK, Checks
  <1>5. BusyInv'
    BY DEF NextCheck, IInv, BusyInv, TypeOK, HoldsServer, HoldsClient
  <1> QED BY <1>1, <1>2, <1>3, <1>4, <1>5 DEF IInv

\* The call that starts a half, or the end of the loop.
LEMMA ConnectedInv ==
    ASSUME IInv, NEW p \in Drivers, Connected(p)
    PROVE  IInv'
  <1> USE DEF Drivers, Answered, Ask, Goto, Return
  <1>1. TypeOK'
    BY TestType DEF Connected, IInv, TypeOK, Idle, Status
  <1>2. TurnInv'
    BY DEF Connected, IInv, TurnInv, TypeOK, Idle
  <1>3. RequestInv'
    BY TestType DEF Connected, IInv, RequestInv, TypeOK, TurnInv, Waits, Idle
  <1>4. ScriptInv'
    BY DEF Connected, IInv, ScriptInv, TypeOK, Checks
  <1>5. BusyInv'
    BY DEF Connected, IInv, BusyInv, TypeOK, HoldsServer, HoldsClient
  <1> QED BY <1>1, <1>2, <1>3, <1>4, <1>5 DEF IInv

\* A call that was accepted leaves the connection open, one that was refused closes it.
LEMMA StartedInv ==
    ASSUME IInv, NEW p \in Drivers, Started(p)
    PROVE  IInv'
  <1> USE DEF Drivers, Answered, Ask, Goto, NoRequest
  <1>1. TypeOK'
    <2>1. pc' \in [Parties -> Places]
      BY DEF Started, IInv, TypeOK, Parties, Places
    <2>2. req' \in [Drivers -> RequestType]
      BY DEF Started, IInv, TypeOK, RequestType, Requests
    <2>3. op' \in [Parties -> Nat \ {0}] /\ half' \in [Parties -> Status]
      BY DEF Started, IInv, TypeOK, Parties
    <2> QED BY <2>1, <2>2, <2>3 DEF Started, IInv, TypeOK, Parties, Places, RequestType
  <1>2. TurnInv'
    BY DEF Started, IInv, TurnInv, TypeOK, Idle
  <1>3. RequestInv'
    BY DEF Started, IInv, RequestInv, TypeOK, TurnInv, Waits, Idle
  <1>4. ScriptInv'
    BY DEF Started, IInv, ScriptInv, TypeOK, Checks
  <1>5. BusyInv'
    BY DEF Started, IInv, BusyInv, TypeOK, HoldsServer, HoldsClient
  <1> QED BY <1>1, <1>2, <1>3, <1>4, <1>5 DEF IInv

\* The loop ends after a refused call.
LEMMA AbandonedInv ==
    ASSUME IInv, NEW p \in Drivers, Abandoned(p)
    PROVE  IInv'
  <1> USE DEF Answered, Goto, Return
  <1>1. TypeOK'
    BY DEF Abandoned, IInv, TypeOK, Idle, Status
  <1>2. TurnInv'
    BY DEF Abandoned, IInv, TurnInv, Idle
  <1>3. RequestInv'
    BY DEF Abandoned, IInv, RequestInv, Waits
  <1>4. ScriptInv'
    BY DEF Abandoned, IInv, ScriptInv, Checks
  <1>5. BusyInv'
    BY DEF Abandoned, IInv, BusyInv, HoldsServer, HoldsClient
  <1> QED BY <1>1, <1>2, <1>3, <1>4, <1>5 DEF IInv

\* A client half makes its next request, which is one of its script.
LEMMA ClientRequestInv ==
    ASSUME IInv, NEW p \in Drivers, ClientRequest(p)
    PROVE  IInv'
  <1> USE DEF Drivers, Partitions, Answered, Ask, Goto
  <1>1. TypeOK'
    <2>1. pc' \in [Parties -> Places]
      BY DEF ClientRequest, IInv, TypeOK, Parties, Places, Idle
    <2>2. pc[p] = "client" /\ Script(p) \in Seq(Requests \cup {"denied"})
      <3>1. pc[p] = "client" /\ p # "sp"
        BY DEF ClientRequest
      <3>2. chk[p] \in Nat \ {0} /\ chk[p] <= Len(Checks)
        BY <3>1 DEF IInv, TypeOK, ScriptInv
      <3>3. Checks \in Seq(CheckType)
        BY TestType DEF IInv
      <3>4. chk[p] \in 1..Len(Checks)
        BY <3>2, <3>3
      <3> QED BY <3>1, <3>4, TestType DEF IInv, Script
    <2>3. op[p] \in 1..Len(Script(p))
      BY <2>2 DEF ClientRequest, IInv, TypeOK
    <2>4. Script(p)[op[p]] \in Requests \cup {"denied"}
      BY <2>2, <2>3
    <2>5. req' \in [Drivers -> RequestType]
      BY <2>4 DEF ClientRequest, IInv, TypeOK, RequestType
    <2>6. op' \in [Parties -> Nat \ {0}]
      BY DEF ClientRequest, IInv, TypeOK, Parties
    <2> QED BY <2>1, <2>5, <2>6 DEF ClientRequest, IInv, TypeOK, Parties, Places,
       RequestType
  <1>2. TurnInv'
    BY DEF ClientRequest, IInv, TurnInv, TypeOK, Idle
  <1>3. RequestInv'
    <2>1. pc[p] = "client" /\ pc' \in {pc, [pc EXCEPT ![p] = "panicked"]}
      BY DEF ClientRequest
    <2>2. /\ req'[p].to \in {"nobody", "test"} /\ req'[p].answer = "none"
          /\ \A q \in Drivers \ {p} : req'[q] = req[q]
      BY DEF ClientRequest, IInv, TypeOK
    <2>3. pc' # pc => req'[p].to = "nobody"
      BY DEF ClientRequest
    <2>4. chk' = chk
      BY DEF ClientRequest
    <2> QED BY <2>1, <2>2, <2>3, <2>4 DEF IInv, TypeOK, RequestInv, Waits, Idle
  <1>4. ScriptInv'
    BY DEF ClientRequest, IInv, ScriptInv, TypeOK, Checks
  <1>5. BusyInv'
    BY DEF ClientRequest, IInv, BusyInv, TypeOK, HoldsServer, HoldsClient
  <1> QED BY <1>1, <1>2, <1>3, <1>4, <1>5 DEF IInv

\* A client half goes on after an answer.
LEMMA ClientAnsweredInv ==
    ASSUME IInv, NEW p \in Drivers, ClientAnswered(p)
    PROVE  IInv'
  <1> USE DEF Drivers, Answered, NoRequest
  <1>1. TypeOK'
    BY DEF ClientAnswered, IInv, TypeOK, Status
  <1>2. TurnInv'
    BY DEF ClientAnswered, IInv, TurnInv
  <1>3. RequestInv'
    BY DEF ClientAnswered, IInv, RequestInv, Waits
  <1>4. ScriptInv'
    BY DEF ClientAnswered, IInv, ScriptInv, Checks
  <1>5. BusyInv'
    BY DEF ClientAnswered, IInv, BusyInv, HoldsServer, HoldsClient
  <1> QED BY <1>1, <1>2, <1>3, <1>4, <1>5 DEF IInv

\* A client half is over: the connection stays open for its result.
LEMMA ClientReturnInv ==
    ASSUME IInv, NEW p \in Drivers, ClientReturn(p)
    PROVE  IInv'
  <1> USE DEF Drivers, Answered, Ask, Goto
  <1>1. TypeOK'
    <2>1. pc' \in [Parties -> Places]
      BY DEF ClientReturn, IInv, TypeOK, Parties, Places
    <2>2. req' \in [Drivers -> RequestType]
      BY DEF ClientReturn, IInv, TypeOK, RequestType
    <2>3. half' \in [Parties -> Status]
      BY DEF ClientReturn, IInv, TypeOK, Parties, Status
    <2>4. okHalves' \subseteq Drivers \X (Nat \ {0}) \X {"client", "server"}
      BY DEF ClientReturn, IInv, TypeOK
    <2>5. disturbed' = disturbed \/ disturbed' = TRUE
      BY DEF ClientReturn
    <2> QED BY <2>1, <2>2, <2>3, <2>4, <2>5 DEF ClientReturn, IInv, TypeOK, Parties,
       Places, RequestType
  <1>2. TurnInv'
    BY DEF ClientReturn, IInv, TurnInv
  <1>3. RequestInv'
    BY DEF ClientReturn, IInv, RequestInv, TypeOK, Waits, Idle
  <1>4. ScriptInv'
    BY DEF ClientReturn, IInv, ScriptInv, Checks
  <1>5. BusyInv'
    BY DEF ClientReturn, IInv, BusyInv, HoldsServer, HoldsClient
  <1> QED BY <1>1, <1>2, <1>3, <1>4, <1>5 DEF IInv

\* The result has come, and the connection is closed next.
LEMMA GotResultInv ==
    ASSUME IInv, NEW p \in Drivers, GotResult(p)
    PROVE  IInv'
  <1> USE DEF Drivers, Answered, Ask, Goto
  <1>1. TypeOK'
    BY DEF GotResult, IInv, TypeOK, RequestInv, Status, Requests
  <1>2. TurnInv'
    BY DEF GotResult, IInv, TurnInv, Idle
  <1>3. RequestInv'
    BY DEF GotResult, IInv, RequestInv, TypeOK, Waits, Idle
  <1>4. ScriptInv'
    BY DEF GotResult, IInv, ScriptInv, Checks
  <1>5. BusyInv'
    BY DEF GotResult, IInv, BusyInv, TypeOK, HoldsServer, HoldsClient
  <1> QED BY <1>1, <1>2, <1>3, <1>4, <1>5 DEF IInv

\* The connection is closed, and the next check or the end of the loop follows.
LEMMA ClosedInv ==
    ASSUME IInv, NEW p \in Drivers, Closed(p)
    PROVE  IInv'
  <1> USE DEF Drivers, Answered, Goto, Return
  <1>1. TypeOK'
    <2>1. pc' \in [Parties -> Places]
      BY DEF Closed, IInv, TypeOK, Parties, Places, Idle
    <2>2. status' \in [Drivers -> Status] /\ result' \in [Partitions -> Status]
      BY DEF Closed, IInv, TypeOK, Combine
    <2>3. chk' \in [Drivers -> Nat \ {0}]
      BY DEF Closed, IInv, TypeOK
    <2> QED BY <2>1, <2>2, <2>3 DEF Closed, IInv, TypeOK, Parties, Places, RequestType
  <1>2. TurnInv'
    BY DEF Closed, IInv, TurnInv, TypeOK, Idle
  <1>3. RequestInv'
    BY DEF Closed, IInv, RequestInv, TypeOK, Waits
  <1>4. ScriptInv'
    BY DEF Closed, IInv, ScriptInv, TypeOK, Checks
  <1>5. BusyInv'
    BY DEF Closed, IInv, BusyInv, TypeOK, HoldsServer, HoldsClient
  <1> QED BY <1>1, <1>2, <1>3, <1>4, <1>5 DEF IInv

\* Then the partitions: a connection is accepted or refused, ...
LEMMA AcceptInv ==
    ASSUME IInv, NEW d \in Partitions, Accept(d)
    PROVE  IInv'
  <1> USE DEF Drivers, Answered, Answer
  <1>1. TypeOK'
    <2>1. req' \in [Drivers -> RequestType]
      BY DEF Accept, IInv, TypeOK, RequestType, Status
    <2>2. disturbed' \in BOOLEAN
      BY DEF Accept, IInv, TypeOK
    <2> QED BY <2>1, <2>2 DEF Accept, IInv, TypeOK, Parties, Places, RequestType
  <1>2. TurnInv'
    BY DEF Accept, IInv, TurnInv, TypeOK, RequestInv, Waits
  <1>3. RequestInv'
    BY DEF Accept, IInv, RequestInv, TypeOK, Waits
  <1>4. ScriptInv'
    BY DEF Accept, IInv, ScriptInv, Checks
  <1>5. BusyInv'
    BY DEF Accept, IInv, BusyInv, TypeOK, RequestInv, HoldsServer, HoldsClient, Waits
  <1> QED BY <1>1, <1>2, <1>3, <1>4, <1>5 DEF IInv

\* ... the half asked for is started: here the client partition wakes up, ...
LEMMA ExecuteInv ==
    ASSUME IInv, NEW d \in Partitions, Execute(d)
    PROVE  IInv'
  <1> USE DEF Drivers, Partitions, Answered, Answer, Goto, Pending
  <1>1. TypeOK'
    <2>1. req' \in [Drivers -> RequestType]
      BY DEF Execute, IInv, TypeOK, RequestType, Status
    <2>2. pc' \in [Parties -> Places]
      BY DEF Execute, IInv, TypeOK, Parties, Places
    <2>3. chk' \in [Drivers -> Nat \ {0}] /\ block' \in [by : Drivers, chk : Nat \ {0}]
      BY DEF Execute, IInv, TypeOK, TurnInv, RequestInv, Waits
    <2>4. /\ half' \in [Parties -> Status] /\ status' \in [Drivers -> Status]
          /\ op' \in [Parties -> Nat \ {0}]
      BY DEF Execute, IInv, TypeOK, Parties, Status
    <2>5. busy' \in [Partitions -> BOOLEAN]
      <3>1. busy' = busy \/ busy' = [busy EXCEPT ![d] = TRUE]
        BY DEF Execute
      <3> QED BY <3>1 DEF IInv, TypeOK
    <2>6. disturbed' = disturbed \/ disturbed' = TRUE
      BY DEF Execute
    <2> QED BY <2>1, <2>2, <2>3, <2>4, <2>5, <2>6 DEF Execute, IInv, TypeOK, Parties,
       Places, RequestType
  <1>2. TurnInv'
    BY DEF Execute, IInv, TurnInv, TypeOK, RequestInv, Waits
  <1>3. RequestInv'
    BY DEF Execute, IInv, RequestInv, TypeOK, Waits
  <1>4. ScriptInv'
    BY DEF Execute, IInv, ScriptInv, TypeOK, TurnInv, RequestInv, Checks, Waits
  <1>5. BusyInv'
    BY DEF Execute, IInv, BusyInv, TypeOK, TurnInv, RequestInv, HoldsServer, HoldsClient,
       Waits
  <1> QED BY <1>1, <1>2, <1>3, <1>4, <1>5 DEF IInv

\* ... a result is handed over, ...
LEMMA ReturnResultInv ==
    ASSUME IInv, NEW d \in Partitions, ReturnResult(d)
    PROVE  IInv'
  <1> USE DEF Drivers, Partitions, Answered, Answer, Pending
  <1>1. TypeOK'
    <2>1. req' \in [Drivers -> RequestType]
      BY DEF ReturnResult, IInv, TypeOK, RequestType
    <2>2. busy' \in [Partitions -> BOOLEAN]
      <3>1. busy' = busy \/ busy' = [busy EXCEPT ![d] = TRUE]
        BY DEF ReturnResult
      <3> QED BY <3>1 DEF IInv, TypeOK
    <2>3. disturbed' = disturbed \/ disturbed' = TRUE
      BY DEF ReturnResult
    <2> QED BY <2>1, <2>2, <2>3 DEF ReturnResult, IInv, TypeOK, Parties, Places, RequestType
  <1>2. TurnInv'
    BY DEF ReturnResult, IInv, TurnInv, TypeOK, RequestInv, Waits
  <1>3. RequestInv'
    <2>1. PICK p \in Pending(d) :
             \E a \in {"refused"} \cup Status : req' = [req EXCEPT ![p].answer = a]
      BY DEF ReturnResult, IInv, TypeOK
    <2>2. pc' = pc /\ chk' = chk
      BY DEF ReturnResult
    <2> QED BY <2>1, <2>2 DEF IInv, RequestInv, Waits, Status
  <1>4. ScriptInv'
    BY DEF ReturnResult, IInv, ScriptInv, Checks
  <1>5. BusyInv'
    BY DEF ReturnResult, IInv, BusyInv, TypeOK, TurnInv, RequestInv, HoldsServer,
       HoldsClient, Waits
  <1> QED BY <1>1, <1>2, <1>3, <1>4, <1>5 DEF IInv

\* ... and the connection is forgotten.
LEMMA DisconnectInv ==
    ASSUME IInv, NEW d \in Partitions, Disconnect(d)
    PROVE  IInv'
  <1> USE DEF Answered, Answer, Pending
  <1>1. TypeOK'
    BY DEF Disconnect, IInv, TypeOK, Status
  <1>2. TurnInv'
    BY DEF Disconnect, IInv, TurnInv, RequestInv, Waits
  <1>3. RequestInv'
    BY DEF Disconnect, IInv, RequestInv, Waits
  <1>4. ScriptInv'
    BY DEF Disconnect, IInv, ScriptInv, Checks
  <1>5. BusyInv'
    BY DEF Disconnect, IInv, BusyInv, TypeOK, RequestInv, HoldsServer, HoldsClient, Waits
  <1> QED BY <1>1, <1>2, <1>3, <1>4, <1>5 DEF IInv

\* Last the server half: it answers a request, ...
LEMMA ServerTakesInv ==
    ASSUME IInv, NEW p \in Drivers, ServerTakes(p)
    PROVE  IInv'
  <1> USE DEF Drivers, Answered, Answer, Goto, Pending
  <1>1. TypeOK'
    <2>1. req' \in [Drivers -> RequestType]
      <3>1. \E a \in {"ok", "never", "refused"} : Answer(p, a)
        BY DEF ServerTakes
      <3> QED BY <3>1 DEF IInv, TypeOK, RequestType, Status
    <2>2. pc' \in [Parties -> Places]
      BY DEF ServerTakes, IInv, TypeOK, Parties, Places, Idle
    <2>3. Script("sp") \in Seq(Requests)
      BY TestType DEF ServerTakes, IInv, TypeOK, ScriptInv, Script
    <2>4. Len(Script("sp")) \in Nat /\ Len(Script("sp")) # 0
      BY <2>3 DEF ServerTakes, IInv, TypeOK
    <2>5. op' \in [Parties -> Nat \ {0}]
      BY <2>4 DEF ServerTakes, IInv, TypeOK, Parties
    <2>6. half' \in [Parties -> Status] /\ result' \in [Partitions -> Status]
      BY DEF ServerTakes, IInv, TypeOK, Parties, Status
    <2>7. disturbed' = disturbed \/ disturbed' = TRUE
      BY DEF ServerTakes
    <2> QED BY <2>1, <2>2, <2>5, <2>6, <2>7 DEF ServerTakes, IInv, TypeOK, Parties, Places,
       RequestType
  <1>2. TurnInv'
    BY DEF ServerTakes, IInv, TurnInv, TypeOK, RequestInv, Waits, Idle
  <1>3. RequestInv'
    BY DEF ServerTakes, IInv, RequestInv, TypeOK, TurnInv, Waits
  <1>4. ScriptInv'
    BY DEF ServerTakes, IInv, ScriptInv, TypeOK, Checks
  <1>5. BusyInv'
    <2>1. pc[p] \notin {"close", "swExec", "swClose"} /\ req[p].answer = "none"
      BY DEF ServerTakes, IInv, TypeOK, RequestInv, Waits
    <2>2. PICK a \in {"ok", "never", "refused"} : Answer(p, a)
      BY DEF ServerTakes
    <2>3. /\ busy' = busy /\ (pc' = pc \/ Goto("sp", "idle"))
          /\ req \in [Drivers -> RequestType]
      BY DEF ServerTakes, IInv, TypeOK, RequestType
    <2>4. \A q \in {"ns", "cp"} : pc'[q] = pc[q] /\ (q # p => req'[q] = req[q])
      BY <2>2, <2>3 DEF IInv, TypeOK
    <2> QED BY <2>1, <2>3, <2>4 DEF IInv, BusyInv, HoldsServer, HoldsClient
  <1> QED BY <1>1, <1>2, <1>3, <1>4, <1>5 DEF IInv

\* ... notices that its client half is over, ...
LEMMA ServerOutlivedInv ==
    ASSUME IInv, ServerOutlived
    PROVE  IInv'
  <1> USE DEF Drivers, Answered, Goto
  <1>1. TypeOK'
    BY DEF ServerOutlived, IInv, TypeOK, Idle, Status
  <1>2. TurnInv'
    BY DEF ServerOutlived, IInv, TurnInv, TypeOK, Idle
  <1>3. RequestInv'
    BY DEF ServerOutlived, IInv, RequestInv, TypeOK, Waits
  <1>4. ScriptInv'
    BY DEF ServerOutlived, IInv, ScriptInv, TypeOK, Checks
  <1>5. BusyInv'
    BY DEF ServerOutlived, IInv, BusyInv, TypeOK, HoldsServer, HoldsClient
  <1> QED BY <1>1, <1>2, <1>3, <1>4, <1>5 DEF IInv

\* ... or comes to its end.
LEMMA ServerReturnInv ==
    ASSUME IInv, ServerReturn
    PROVE  IInv'
  <1> USE DEF Drivers, Partitions, Answered, Goto
  <1>1. TypeOK'
    BY DEF ServerReturn, IInv, TypeOK, Idle
  <1>2. TurnInv'
    BY DEF ServerReturn, IInv, TurnInv, Idle
  <1>3. RequestInv'
    BY DEF ServerReturn, IInv, RequestInv, Waits
  <1>4. ScriptInv'
    BY DEF ServerReturn, IInv, ScriptInv, Checks
  <1>5. BusyInv'
    BY DEF ServerReturn, IInv, BusyInv, HoldsServer, HoldsClient
  <1> QED BY <1>1, <1>2, <1>3, <1>4, <1>5 DEF IInv

\* The server partition is stopped by a request nobody waits for.
LEMMA ServerPanicInv ==
    ASSUME IInv, ServerPanic
    PROVE  IInv'
  <1> USE DEF Drivers, Answered, Goto
  <1>1. TypeOK'
    BY DEF ServerPanic, IInv, TypeOK, Idle
  <1>2. TurnInv'
    BY DEF ServerPanic, IInv, TurnInv, Idle
  <1>3. RequestInv'
    BY DEF ServerPanic, IInv, RequestInv, Waits
  <1>4. ScriptInv'
    BY DEF ServerPanic, IInv, ScriptInv, Checks
  <1>5. BusyInv'
    BY DEF ServerPanic, IInv, BusyInv, HoldsServer, HoldsClient
  <1> QED BY <1>1, <1>2, <1>3, <1>4, <1>5 DEF IInv

\* Nothing changes.
LEMMA StutterInv ==
    ASSUME IInv, UNCHANGED vars
    PROVE  IInv'
  BY DEF vars, IInv, TypeOK, TurnInv, RequestInv, ScriptInv, BusyInv, Checks, Waits,
     Answered, HoldsServer, HoldsClient

\* The invariant is inductive.
LEMMA StepInv == IInv /\ [Next]_vars => IInv'
  <1> SUFFICES ASSUME IInv, [Next]_vars PROVE IInv'
    OBVIOUS
  <1>1. ASSUME NEW p \in Drivers, Driver(p) PROVE IInv'
    BY <1>1, NextCheckInv, ConnectedInv, StartedInv, AbandonedInv, ClientRequestInv,
       ClientAnsweredInv, ClientReturnInv, GotResultInv, ClosedInv DEF Driver
  <1>2. ASSUME NEW d \in Partitions, Partition(d) PROVE IInv'
    BY <1>2, AcceptInv, ExecuteInv, ReturnResultInv, DisconnectInv DEF Partition
  <1>3. CASE ServerHalf
    BY <1>3, ServerTakesInv, ServerOutlivedInv, ServerReturnInv,
       ServerPanicInv DEF ServerHalf
  <1>4. CASE UNCHANGED vars
    BY <1>4, StutterInv
  <1> QED BY <1>1, <1>2, <1>3, <1>4 DEF Next

(* ------------------------------- Theorems ------------------------------ *)

\* The inductive invariant holds in every reachable state.
THEOREM Invariance == Spec => []IInv
  BY InitInv, StepInv, PTL DEF Spec

\* Every variable keeps its type: no status, request or position of a check is
\* ever one that the drivers and partitions do not know.
THEOREM TypeCorrect == Spec => []TypeOK
  <1>1. IInv => TypeOK
    BY DEF IInv
  <1> QED BY <1>1, Invariance, PTL

\* At no time does a partition have two requests to answer, or the server
\* partition one of its dispatcher and one of a client half
\* (val_execute_non_secure_tests and val_execute_secure_tests take turns).
THEOREM DriversTakeTurns == Spec => []OneAtATime
  <1>1. ASSUME IInv PROVE OneAtATime
    <2>1. \A p \in Drivers : req[p].to # "nobody" /\ ~Answered(p)
                              => pc[p] \notin {"next", "done"} \cup Idle
      BY <1>1 DEF IInv, RequestInv
    <2>2. \A p, q \in Drivers : p # q => ~(p \in Pending("sp") /\ q \in Pending("test"))
      BY <1>1, <2>1 DEF IInv, TurnInv, RequestInv, Waits, Idle, Pending, Drivers, Answered
    <2>3. \A d \in {"cp", "sp", "test"} : \A p, q \in Pending(d) : p = q
      BY <1>1, <2>1 DEF IInv, TurnInv, RequestInv, Waits, Idle, Pending, Drivers, Answered
    <2>4. Pending("sp") = {} \/ Pending("test") = {}
      BY <2>2 DEF Pending
    <2> QED BY <2>3, <2>4 DEF OneAtATime
  <1> QED BY <1>1, Invariance, PTL

\* A connection is asked for only by a driver that has closed the one before.
LEMMA AskedWhenClosed ==
    ASSUME IInv
    PROVE  NeverStillBusy
  <1> SUFFICES ASSUME NEW d \in Partitions, NEW p \in Drivers,
                      p \in Pending(d), req[p].type = "connect"
               PROVE  ~busy[d]
    BY DEF NeverStillBusy
  <1>1. pc[p] = IF d = "sp" THEN "connect" ELSE "swConnect"
    BY DEF IInv, TypeOK, TurnInv, RequestInv, Waits, Idle, Pending, Drivers, Partitions,
       Answered
  <1>2. CASE d = "sp"
    BY <1>1, <1>2 DEF IInv, TurnInv, BusyInv, HoldsServer, Drivers, Idle
  <1>3. CASE d = "cp"
    BY <1>1, <1>3 DEF IInv, TurnInv, BusyInv, HoldsClient, Drivers, Idle, Pending
  <1> QED BY <1>2, <1>3 DEF Partitions

\* A connection to the dispatcher of a partition is asked for only when the one
\* before it is closed: no way out of a check leaves test_data behind.
THEOREM ConnectionsAreClosed == Spec => []NeverStillBusy
  BY AskedWhenClosed, Invariance, PTL

-----------------------------------------------------------------------------
(* Success is earned *)

\* Both halves of check i of p's list, and of all its checks, returned success.
Both(p, i)  == {<<p, i, "client">>, <<p, i, "server">>} \subseteq okHalves
Complete(p) == \A i \in First[p]..Len(Checks) : Both(p, i)

\* The checks that a driver has behind it.
BehindInv == \A p \in Drivers : \A i \in Nat : First[p] <= i /\ i < chk[p] => Both(p, i)

\* A result waits to be collected by the driver whose check it is of.
Awaits(p) == \/ pc[p] = "exec" /\ req[p].answer = "ok"
             \/ pc[p] = "client"
             \/ pc[p] = "result" /\ ~Answered(p)

HalvesInv ==
    \A p \in Drivers :
        /\ Awaits(p) =>
              /\ block = [by |-> p, chk |-> chk[p]]
              /\ pc["sp"] = "idle" /\ result["sp"] = "ok" => <<p, chk[p], "server">> \in okHalves
        /\ \/ pc[p] = "result" /\ req[p].answer = "ok"
           \/ pc[p] = "close" /\ status[p] = "ok"
           => <<p, chk[p], "server">> \in okHalves
        /\ pc[p] \in {"result", "close"} /\ half[p] = "ok" => <<p, chk[p], "client">> \in okHalves

\* What the non-secure side knows of its own list and of that of the client partition.
WorldsInv ==
    /\ pc["ns"] \in {"swConnect", "swExec", "swResult", "swClose"} => Complete("ns")
    /\ pc["ns"] = "swExec" => req["ns"].arg = First["cp"]
    /\ \/ pc["cp"] = "idle" /\ result["cp"] = "ok"
          /\ \/ pc["ns"] = "swExec" /\ req["ns"].answer = "ok"
             \/ pc["ns"] = "swResult" /\ ~Answered("ns")
       \/ pc["ns"] = "swResult" /\ req["ns"].answer = "ok"
       \/ pc["ns"] = "swClose" /\ status["ns"] = "ok"
       => Complete("cp")
    /\ pc["ns"] = "done" /\ status["ns"] = "ok" => Complete("ns") /\ Complete("cp")

\* What makes SuccessEarned inductive, with IInv.
EarnedInv == BehindInv /\ HalvesInv /\ WorldsInv

\* What was earned stays earned.
LEMMA CompleteStays ==
    ASSUME NEW p \in Drivers, Complete(p), test' = test, okHalves \subseteq okHalves'
    PROVE  Complete(p)'
  BY DEF Complete, Both, First, Checks

\* Nothing is behind a driver at first, and no result waits.
LEMMA EarnedInit == Init => EarnedInv
  <1> SUFFICES ASSUME Init PROVE EarnedInv
    OBVIOUS
  <1>1. First \in [Drivers -> Nat \ {0}]
    BY InitType, TestType
  <1>2. BehindInv
    BY <1>1 DEF Init, BehindInv
  <1>3. HalvesInv
    BY DEF Init, HalvesInv, Awaits, Drivers
  <1>4. WorldsInv
    BY DEF Init, WorldsInv
  <1> QED BY <1>2, <1>3, <1>4 DEF EarnedInv

\* The next check starts only when the one before succeeded, and a list ends after its last check.
LEMMA NextCheckEarned ==
    ASSUME IInv, EarnedInv, NEW p \in Drivers, NextCheck(p)
    PROVE  EarnedInv'
  <1>1. test' = test /\ okHalves \subseteq okHalves'
    BY DEF NextCheck
  <1>2. BehindInv'
    BY <1>1 DEF NextCheck, EarnedInv, BehindInv, HalvesInv, First, Both
  <1>3. HalvesInv'
    BY <1>1
    DEF NextCheck, IInv, TypeOK, TurnInv, EarnedInv, HalvesInv, Awaits, Drivers, Goto
  <1>4. WorldsInv'
    <2>1. chk[p] \in Nat /\ Len(Checks) \in Nat /\ First \in [Drivers -> Nat \ {0}]
      BY TestType DEF IInv, TypeOK, Checks
    <2>2. chk[p] > Len(Checks) => Complete(p)
      BY <2>1 DEF EarnedInv, BehindInv, Complete
    <2> QED BY <1>1, <2>2, CompleteStays
            DEF NextCheck, IInv, TypeOK, EarnedInv, WorldsInv, First, Drivers, Ask, Goto
  <1> QED BY <1>2, <1>3, <1>4 DEF EarnedInv

\* The driver has its connection, and no result yet.
LEMMA ConnectedEarned ==
    ASSUME IInv, EarnedInv, NEW p \in Drivers, Connected(p)
    PROVE  EarnedInv'
  <1>1. test' = test /\ okHalves \subseteq okHalves'
    BY DEF Connected
  <1>2. BehindInv'
    BY <1>1 DEF Connected, EarnedInv, BehindInv, HalvesInv, First, Both
  <1>3. HalvesInv'
    BY <1>1
    DEF Connected, IInv, TypeOK, EarnedInv, HalvesInv, Awaits, Answered, Drivers, Ask,
        Goto, Return
  <1>4. WorldsInv'
    BY <1>1, CompleteStays
    DEF Connected, IInv, TypeOK, EarnedInv, WorldsInv, First, Drivers, Ask, Goto, Return
  <1> QED BY <1>2, <1>3, <1>4 DEF EarnedInv

\* The check was started: the result of its server half can only be a new one.
LEMMA StartedEarned ==
    ASSUME IInv, EarnedInv, NEW p \in Drivers, Started(p)
    PROVE  EarnedInv'
  <1>1. test' = test /\ okHalves \subseteq okHalves'
    BY DEF Started
  <1>2. BehindInv'
    BY <1>1 DEF Started, EarnedInv, BehindInv, HalvesInv, First, Both
  <1>3. HalvesInv'
    BY <1>1
    DEF Started, IInv, TypeOK, EarnedInv, HalvesInv, Awaits, Answered, Drivers, Ask,
        Goto
  <1>4. WorldsInv'
    BY <1>1, CompleteStays
    DEF Started, IInv, TypeOK, EarnedInv, WorldsInv, First, Drivers, Ask, Goto
  <1> QED BY <1>2, <1>3, <1>4 DEF EarnedInv

\* A driver that was refused ends its list with a failure.
LEMMA AbandonedEarned ==
    ASSUME IInv, EarnedInv, NEW p \in Drivers, Abandoned(p)
    PROVE  EarnedInv'
  <1>1. test' = test /\ okHalves \subseteq okHalves'
    BY DEF Abandoned
  <1>2. BehindInv'
    BY <1>1 DEF Abandoned, EarnedInv, BehindInv, HalvesInv, First, Both
  <1>3. HalvesInv'
    BY <1>1 DEF Abandoned, EarnedInv, HalvesInv, Awaits, Answered, Drivers, Goto, Return
  <1>4. WorldsInv'
    BY <1>1, CompleteStays
    DEF Abandoned, IInv, TypeOK, EarnedInv, WorldsInv, First, Drivers, Partitions,
        Goto, Return
  <1> QED BY <1>2, <1>3, <1>4 DEF EarnedInv

\* A request of the client half does not touch the results.
LEMMA ClientRequestEarned ==
    ASSUME IInv, EarnedInv, NEW p \in Drivers, ClientRequest(p)
    PROVE  EarnedInv'
  <1>1. test' = test /\ okHalves \subseteq okHalves'
    BY DEF ClientRequest
  <1>2. BehindInv'
    BY <1>1 DEF ClientRequest, EarnedInv, BehindInv, HalvesInv, First, Both
  <1>3. HalvesInv'
    <2>1. /\ pc[p] = "client" /\ pc'[p] \in {"client", "panicked"}
          /\ \A q \in Drivers \ {p} : pc'[q] = pc[q] /\ req'[q] = req[q]
      BY DEF ClientRequest, Goto, Ask, Drivers, IInv, TypeOK
    <2>2. UNCHANGED <<chk, half, status, block, result, okHalves>> /\ pc'["sp"] = pc["sp"]
      BY DEF ClientRequest, Goto, Drivers, IInv, TypeOK
    <2> QED BY <2>1, <2>2 DEF EarnedInv, HalvesInv, Awaits, Answered
  <1>4. WorldsInv'
    BY <1>1, CompleteStays
    DEF ClientRequest, IInv, TypeOK, EarnedInv, WorldsInv, First, Drivers, Ask, Goto
  <1> QED BY <1>2, <1>3, <1>4 DEF EarnedInv

\* Nor does its answer.
LEMMA ClientAnsweredEarned ==
    ASSUME IInv, EarnedInv, NEW p \in Drivers, ClientAnswered(p)
    PROVE  EarnedInv'
  <1>1. test' = test /\ okHalves \subseteq okHalves'
    BY DEF ClientAnswered
  <1>2. BehindInv'
    BY <1>1 DEF ClientAnswered, EarnedInv, BehindInv, HalvesInv, First, Both
  <1>3. HalvesInv'
    BY <1>1
    DEF ClientAnswered, IInv, TypeOK, EarnedInv, HalvesInv, Awaits, Answered, Drivers
  <1>4. WorldsInv'
    BY <1>1, CompleteStays DEF ClientAnswered, EarnedInv, WorldsInv, First, Drivers
  <1> QED BY <1>2, <1>3, <1>4 DEF EarnedInv

\* The client half of this check returned what the driver keeps.
LEMMA ClientReturnEarned ==
    ASSUME IInv, EarnedInv, NEW p \in Drivers, ClientReturn(p)
    PROVE  EarnedInv'
  <1>1. test' = test /\ okHalves \subseteq okHalves'
    BY DEF ClientReturn
  <1>2. BehindInv'
    BY <1>1 DEF ClientReturn, EarnedInv, BehindInv, HalvesInv, First, Both
  <1>3. HalvesInv'
    <2>1. /\ pc[p] = "client" /\ pc'[p] = "result" /\ req'[p].answer = "none"
          /\ \A q \in Drivers \ {p} : pc'[q] = pc[q] /\ req'[q] = req[q] /\ half'[q] = half[q]
      BY DEF ClientReturn, Goto, Ask, Drivers, IInv, TypeOK
    <2>2. UNCHANGED <<chk, status, block, result>> /\ pc'["sp"] = pc["sp"]
      BY DEF ClientReturn, Goto, Drivers
    <2>3. half'[p] = "ok" => <<p, chk[p], "client">> \in okHalves'
      BY DEF ClientReturn, IInv, TypeOK, Drivers
    <2> QED BY <1>1, <2>1, <2>2, <2>3 DEF EarnedInv, HalvesInv, Awaits, Answered
  <1>4. WorldsInv'
    BY <1>1, CompleteStays
    DEF ClientReturn, EarnedInv, WorldsInv, First, Drivers, Ask, Goto
  <1> QED BY <1>2, <1>3, <1>4 DEF EarnedInv

\* The result of the server half is collected by the driver that started it.
LEMMA GotResultEarned ==
    ASSUME IInv, EarnedInv, NEW p \in Drivers, GotResult(p)
    PROVE  EarnedInv'
  <1>1. test' = test /\ okHalves \subseteq okHalves'
    BY DEF GotResult
  <1>2. BehindInv'
    BY <1>1 DEF GotResult, EarnedInv, BehindInv, HalvesInv, First, Both
  <1>3. HalvesInv'
    BY <1>1
    DEF GotResult, IInv, TypeOK, EarnedInv, HalvesInv, Awaits, Answered, Drivers, Ask,
        Goto
  <1>4. WorldsInv'
    BY <1>1, CompleteStays
    DEF GotResult, IInv, TypeOK, EarnedInv, WorldsInv, First, Drivers, Ask, Goto
  <1> QED BY <1>2, <1>3, <1>4 DEF EarnedInv

\* A check counts as a success when both its halves do.
LEMMA ClosedEarned ==
    ASSUME IInv, EarnedInv, NEW p \in Drivers, Closed(p)
    PROVE  EarnedInv'
  <1>1. test' = test /\ okHalves \subseteq okHalves'
    BY DEF Closed
  <1>2. BehindInv'
    BY <1>1
    DEF Closed, IInv, TypeOK, EarnedInv, BehindInv, HalvesInv, WorldsInv, First, Both,
        Waits, Idle, Drivers, Status, Combine
  <1>3. HalvesInv'
    BY <1>1
    DEF Closed, IInv, TypeOK, TurnInv, EarnedInv, HalvesInv, Awaits, Drivers, Goto,
        Return
  <1>4. WorldsInv'
    BY <1>1, CompleteStays
    DEF Closed, IInv, TypeOK, TurnInv, EarnedInv, WorldsInv, First, Idle, Drivers,
        Partitions, Goto, Return
  <1> QED BY <1>2, <1>3, <1>4 DEF EarnedInv

\* A connection is accepted.
LEMMA AcceptEarned ==
    ASSUME IInv, EarnedInv, NEW d \in Partitions, Accept(d)
    PROVE  EarnedInv'
  <1>1. test' = test /\ okHalves \subseteq okHalves'
    BY DEF Accept
  <1>2. BehindInv'
    BY <1>1 DEF Accept, EarnedInv, BehindInv, HalvesInv, First, Both
  <1>3. HalvesInv'
    <2>1. PICK p \in Pending(d) : /\ req[p].type = "connect"
                                  /\ \E a \in {"ok", "refused"} : Answer(p, a)
      BY DEF Accept
    <2>2. p \in Drivers /\ pc[p] \notin {"exec", "result"}
      BY <2>1 DEF IInv, RequestInv, Waits, Pending
    <2>3. \A q \in Drivers : q # p => req'[q] = req[q]
      BY <2>1, <2>2 DEF Answer, IInv, TypeOK
    <2> QED BY <1>1, <2>2, <2>3 DEF Accept, EarnedInv, HalvesInv, Awaits, Answered
  <1>4. WorldsInv'
    BY <1>1, CompleteStays
    DEF Accept, IInv, TypeOK, RequestInv, EarnedInv, WorldsInv, First, Waits, Answered,
        Drivers, Answer
  <1> QED BY <1>2, <1>3, <1>4 DEF EarnedInv

\* A dispatcher takes a request to run checks; what it kept of the last one is gone.
LEMMA ExecuteEarned ==
    ASSUME IInv, EarnedInv, NEW d \in Partitions, Execute(d)
    PROVE  EarnedInv'
  <1>1. test' = test /\ okHalves \subseteq okHalves'
    BY DEF Execute
  <1>2. BehindInv'
    BY <1>1
    DEF Execute, IInv, TypeOK, TurnInv, RequestInv, EarnedInv, BehindInv, HalvesInv,
        WorldsInv, First, Both, Waits, Answered, Pending, Drivers
  <1>3. HalvesInv'
    BY <1>1
    DEF Execute, IInv, TypeOK, TurnInv, RequestInv, EarnedInv, HalvesInv, Awaits,
        Waits, Answered, Pending, Drivers, Partitions, Answer, Goto
  <1>4. WorldsInv'
    BY <1>1, CompleteStays
    DEF Execute, IInv, TypeOK, RequestInv, EarnedInv, WorldsInv, First, Waits,
        Answered, Pending, Drivers, Answer, Goto
  <1> QED BY <1>2, <1>3, <1>4 DEF EarnedInv

\* A dispatcher returns the result it kept.
LEMMA ReturnResultEarned ==
    ASSUME IInv, EarnedInv, NEW d \in Partitions, ReturnResult(d)
    PROVE  EarnedInv'
  <1>1. test' = test /\ okHalves \subseteq okHalves'
    BY DEF ReturnResult
  <1>2. BehindInv'
    BY <1>1 DEF ReturnResult, EarnedInv, BehindInv, HalvesInv, First, Both
  <1>3. HalvesInv'
    BY <1>1
    DEF ReturnResult, IInv, TypeOK, RequestInv, EarnedInv, HalvesInv, Awaits, Waits,
        Answered, Pending, Answer
  <1>4. WorldsInv'
    BY <1>1, CompleteStays
    DEF ReturnResult, IInv, TypeOK, RequestInv, EarnedInv, WorldsInv, First, Waits,
        Answered, Pending, Drivers, Answer
  <1> QED BY <1>2, <1>3, <1>4 DEF EarnedInv

\* A dispatcher lets its client go.
LEMMA DisconnectEarned ==
    ASSUME IInv, EarnedInv, NEW d \in Partitions, Disconnect(d)
    PROVE  EarnedInv'
  <1>1. test' = test /\ okHalves \subseteq okHalves'
    BY DEF Disconnect
  <1>2. BehindInv'
    BY <1>1 DEF Disconnect, EarnedInv, BehindInv, HalvesInv, First, Both
  <1>3. HalvesInv'
    BY <1>1
    DEF Disconnect, IInv, TurnInv, RequestInv, EarnedInv, HalvesInv, Awaits, Waits,
        Answered, Pending, Drivers, Answer
  <1>4. WorldsInv'
    BY <1>1, CompleteStays
    DEF Disconnect, IInv, TypeOK, RequestInv, EarnedInv, WorldsInv, First, Waits,
        Answered, Pending, Drivers, Answer
  <1> QED BY <1>2, <1>3, <1>4 DEF EarnedInv

\* The server half takes a request of the client half.
LEMMA ServerTakesEarned ==
    ASSUME IInv, EarnedInv, NEW p \in Drivers, ServerTakes(p)
    PROVE  EarnedInv'
  <1>1. test' = test /\ okHalves \subseteq okHalves'
    BY DEF ServerTakes
  <1>2. BehindInv'
    BY <1>1 DEF ServerTakes, EarnedInv, BehindInv, HalvesInv, First, Both
  <1>3. HalvesInv'
    BY <1>1
    DEF ServerTakes, IInv, TypeOK, TurnInv, RequestInv, EarnedInv, HalvesInv, Awaits,
        Waits, Answered, Pending, Drivers, Partitions, Goto
  <1>4. WorldsInv'
    BY <1>1, CompleteStays
    DEF ServerTakes, IInv, TypeOK, RequestInv, EarnedInv, WorldsInv, First, Waits,
        Answered, Pending, Drivers, Answer, Goto
  <1> QED BY <1>2, <1>3, <1>4 DEF EarnedInv

\* A server half whose client half is over fails or panics.
LEMMA ServerOutlivedEarned ==
    ASSUME IInv, EarnedInv, ServerOutlived
    PROVE  EarnedInv'
  <1>1. test' = test /\ okHalves \subseteq okHalves'
    BY DEF ServerOutlived
  <1>2. BehindInv'
    BY <1>1 DEF ServerOutlived, EarnedInv, BehindInv, HalvesInv, First, Both
  <1>3. HalvesInv'
    <2>1. /\ UNCHANGED <<test, chk, half, status, req, block, okHalves>>
          /\ \A p \in Drivers : pc'[p] = pc[p]
      BY DEF ServerOutlived, Goto, Drivers, IInv, TypeOK
    <2>2. pc'["sp"] = "idle" => result'["sp"] = "fail"
      BY DEF ServerOutlived, Goto, IInv, TypeOK, Partitions
    <2> QED BY <2>1, <2>2 DEF EarnedInv, HalvesInv, Awaits, Answered
  <1>4. WorldsInv'
    BY <1>1, CompleteStays
    DEF ServerOutlived, IInv, TypeOK, RequestInv, EarnedInv, WorldsInv, First, Waits,
        Answered, Pending, Drivers, Goto
  <1> QED BY <1>2, <1>3, <1>4 DEF EarnedInv

\* The server half of this check returned what the dispatcher keeps.
LEMMA ServerReturnEarned ==
    ASSUME IInv, EarnedInv, ServerReturn
    PROVE  EarnedInv'
  <1>1. test' = test /\ okHalves \subseteq okHalves'
    BY DEF ServerReturn
  <1>2. BehindInv'
    BY <1>1 DEF ServerReturn, EarnedInv, BehindInv, HalvesInv, First, Both
  <1>3. HalvesInv'
    <2>1. /\ UNCHANGED <<test, chk, half, status, req, block>>
          /\ \A p \in Drivers : pc'[p] = pc[p]
      BY DEF ServerReturn, Goto, Drivers
    <2>2. result'["sp"] = "ok" => <<block.by, block.chk, "server">> \in okHalves'
      BY DEF ServerReturn, IInv, TypeOK, Partitions
    <2> QED BY <1>1, <2>1, <2>2 DEF EarnedInv, HalvesInv, Awaits, Answered
  <1>4. WorldsInv'
    BY <1>1, CompleteStays
    DEF ServerReturn, EarnedInv, WorldsInv, First, Answered, Drivers, Goto
  <1> QED BY <1>2, <1>3, <1>4 DEF EarnedInv

\* A server partition that gets a request of a half it does not run panics.
LEMMA ServerPanicEarned ==
    ASSUME IInv, EarnedInv, ServerPanic
    PROVE  EarnedInv'
  <1>1. test' = test /\ okHalves \subseteq okHalves'
    BY DEF ServerPanic
  <1>2. BehindInv'
    BY <1>1 DEF ServerPanic, EarnedInv, BehindInv, HalvesInv, First, Both
  <1>3. HalvesInv'
    BY <1>1 DEF ServerPanic, EarnedInv, HalvesInv, Awaits, Answered, Goto
  <1>4. WorldsInv'
    BY <1>1, CompleteStays
    DEF ServerPanic, EarnedInv, WorldsInv, First, Answered, Drivers, Goto
  <1> QED BY <1>2, <1>3, <1>4 DEF EarnedInv

\* Nothing changes when nothing happens.
LEMMA EarnedStutter ==
    ASSUME EarnedInv, UNCHANGED vars
    PROVE  EarnedInv'
  BY
  DEF vars, EarnedInv, BehindInv, HalvesInv, WorldsInv, Complete, Both, First, Checks,
     Awaits, Answered

\* Together with IInv, EarnedInv is inductive.
LEMMA EarnedStep == IInv /\ EarnedInv /\ [Next]_vars => EarnedInv'
  <1> SUFFICES ASSUME IInv, EarnedInv, [Next]_vars PROVE EarnedInv'
    OBVIOUS
  <1>1. ASSUME NEW p \in Drivers, Driver(p) PROVE EarnedInv'
    BY <1>1, NextCheckEarned, ConnectedEarned, StartedEarned, AbandonedEarned,
       ClientRequestEarned, ClientAnsweredEarned, ClientReturnEarned, GotResultEarned,
       ClosedEarned DEF Driver
  <1>2. ASSUME NEW d \in Partitions, Partition(d) PROVE EarnedInv'
    BY <1>2, AcceptEarned, ExecuteEarned, ReturnResultEarned, DisconnectEarned
    DEF Partition
  <1>3. CASE ServerHalf
    BY <1>3, ServerTakesEarned, ServerOutlivedEarned, ServerReturnEarned,
       ServerPanicEarned DEF ServerHalf
  <1>4. CASE UNCHANGED vars
    BY <1>4, EarnedStutter
  <1> QED BY <1>1, <1>2, <1>3, <1>4 DEF Next

\* A test is reported as a success only when both halves of each of its checks,
\* run from both worlds, returned success (val_execute_non_secure_tests,
\* val_switch_to_secure_client and the result that the partitions keep in
\* test_status): no result is lost, taken from another check, or left over.
THEOREM SuccessIsEarned == Spec => []SuccessEarned
  <1>1. EarnedInv => SuccessEarned
    BY DEF EarnedInv, WorldsInv, Complete, Both, SuccessEarned, Drivers
  <1> QED BY <1>1, InitInv, StepInv, EarnedInit, EarnedStep, PTL DEF Spec

(* ------------------- An implementation that behaves -------------------- *)

\* Nothing was refused and nothing failed.
CleanInv ==
    /\ pc["sp"] # "panicked" /\ \A p \in Drivers : pc[p] # "abandon"
    /\ \A p \in {"ns", "cp", "sp"} : half[p] = "ok"
    /\ \A p \in Drivers : status[p] = "ok" /\ req[p].answer \in {"none", "ok"}

\* The place in the script of the client half up to which the server half has
\* answered: before its first request, at the one it makes, behind its last one.
Position(p) == IF pc[p] = "exec" THEN 1
               ELSE IF pc[p] # "client" THEN Len(Checks[chk[p]].client) + 1
               ELSE IF Answered(p) THEN op[p] + 1 ELSE op[p]

\* The server half has answered just what the client half has got answers for.
Abreast(p) == \E f \in Pairings(Checks[chk[p]]) :
                 \A j \in DOMAIN f : f[j] < Position(p) <=> j < op["sp"]
AbreastInv == \A p \in Drivers : Awaits(p) => Abreast(p)

\* A result that is yet to be collected is a success.
ServedInv ==
    \A p \in Drivers : Awaits(p) /\ pc["sp"] = "idle" =>
        op["sp"] > Len(Checks[chk[p]].server) /\ result["sp"] = "ok"

\* What a client half asks for is what its script says.
AskedInv ==
    \A p \in Drivers : pc[p] = "client" /\ req[p].to = "test" =>
        /\ op[p] <= Len(Checks[chk[p]].client)
        /\ req[p].type = Checks[chk[p]].client[op[p]] /\ req[p].type # "denied"

\* A server half that runs has a driver that is yet to collect its result.
NeededInv == pc["sp"] = "server" => pc["cp"] = "panicked" \/ \E p \in Drivers : Awaits(p)

\* The client partition has run its list with success when it is asked for the result.
KeptInv ==
    /\ pc["cp"] = "idle"
    /\ \/ pc["ns"] = "swExec" /\ req["ns"].answer = "ok"
       \/ pc["ns"] = "swResult" /\ ~Answered("ns")
    => result["cp"] = "ok"

\* What makes UndisturbedPasses and ForsakenOnlyWhenDisturbed inductive, with IInv
\* and EarnedInv.
GoodInv == CleanInv /\ AbreastInv /\ ServedInv /\ AskedInv /\ NeededInv /\ KeptInv
UndisturbedInv == ~disturbed => GoodInv

\* Two halves stay abreast while neither goes on.
LEMMA AbreastStays ==
    ASSUME AbreastInv, test' = test, op'["sp"] = op["sp"],
           \A p \in Drivers : Awaits(p)' =>
               Awaits(p) /\ chk'[p] = chk[p] /\ Position(p)' = Position(p)
    PROVE  AbreastInv'
  BY DEF AbreastInv, Abreast, Checks

\* ... no result that is awaited is lost, ...
LEMMA ServedStays ==
    ASSUME ServedInv, test' = test,
           \A p \in Drivers : Awaits(p)' => Awaits(p) /\ chk'[p] = chk[p],
           pc'["sp"] = "idle" => /\ pc["sp"] = "idle"
                                 /\ op'["sp"] = op["sp"] /\ result'["sp"] = result["sp"]
    PROVE  ServedInv'
  BY DEF ServedInv, Checks

\* ... and a request stays what it is.
LEMMA AskedStays ==
    ASSUME AskedInv, test' = test,
           \A p \in Drivers : pc'[p] = "client" /\ req'[p].to = "test" =>
               /\ pc[p] = "client" /\ req[p].to = "test" /\ req'[p].type = req[p].type
               /\ chk'[p] = chk[p] /\ op'[p] = op[p]
    PROVE  AskedInv'
  BY DEF AskedInv, Checks

\* What a pairing says of the scripts of a check.
LEMMA PairingType ==
    ASSUME TypeOK, NEW i \in Nat \ {0}, i <= Len(Checks), NEW f \in Pairings(Checks[i])
    PROVE  /\ Len(Checks[i].client) \in Nat /\ Len(Checks[i].server) \in Nat
           /\ DOMAIN f = 1..Len(Checks[i].server)
           /\ \A j \in DOMAIN f : /\ f[j] \in 1..Len(Checks[i].client)
                                  /\ Checks[i].client[f[j]] = Checks[i].server[j]
                                  /\ Checks[i].client[f[j]] # "denied"
           /\ \A j, k \in DOMAIN f : j < k => f[j] < f[k]
           /\ \A k \in 1..Len(Checks[i].client) :
                 Checks[i].client[k] # "denied" => \E j \in DOMAIN f : f[j] = k
  <1>1. i \in 1..Len(Checks)
    BY TestType
  <1>2. Checks[i].client \in Seq(Requests \cup {"denied"}) /\ Checks[i].server \in Seq(Requests)
    BY <1>1, TestType
  <1>3. \A j \in 1..Len(Checks[i].server) : Checks[i].server[j] # "denied"
    BY <1>2 DEF Requests
  <1> QED BY <1>2, <1>3 DEF Pairings

\* Nothing is disturbed at first.
LEMMA UndisturbedInit == Init => UndisturbedInv
  BY
  DEF Init, UndisturbedInv, GoodInv, CleanInv, AbreastInv, ServedInv, AskedInv,
      NeededInv,
     KeptInv, Awaits, Drivers, NoRequest, Answered

\* The server half is that of the check whose result is awaited.
LEMMA AwaitedBlock ==
    ASSUME EarnedInv, NEW p \in Drivers, Awaits(p)
    PROVE  block.by = p /\ block.chk = chk[p]
  <1>1. block = [by |-> p, chk |-> chk[p]]
    BY DEF EarnedInv, HalvesInv, Awaits
  <1> QED BY <1>1

\* A client half never ends before its server half.
LEMMA NotOutlived ==
    ASSUME IInv, EarnedInv, GoodInv
    PROVE  ~ServerOutlived
  <1> SUFFICES ASSUME ServerOutlived PROVE FALSE
    OBVIOUS
  <1>1. PICK q \in Drivers : q \in Pending("sp")
    BY DEF ServerOutlived, Pending
  <1>2. pc[q] \in {"connect", "exec", "result", "close", "abandon"}
    BY <1>1
    DEF IInv, TypeOK, TurnInv, RequestInv, Waits, Answered, Pending, Idle, Drivers
  <1>3. pc["cp"] # "panicked"
    BY <1>1, <1>2 DEF IInv, TurnInv, Idle, Drivers
  <1>4. PICK p \in Drivers : Awaits(p)
    BY <1>3 DEF ServerOutlived, GoodInv, NeededInv
  <1>5. q = p /\ pc[p] = "result"
    BY <1>1, <1>2, <1>4
    DEF IInv, TypeOK, TurnInv, RequestInv, Awaits, Waits, Answered, Pending, Idle,
        Drivers
  <1>6. block.chk = chk[p]
    BY <1>4, AwaitedBlock
  <1>7. chk[p] <= Len(Checks) /\ chk[p] \in Nat \ {0} /\ op["sp"] \in Nat \ {0}
    BY <1>6 DEF ServerOutlived, IInv, TypeOK, ScriptInv
  <1>8. PICK f \in Pairings(Checks[chk[p]]) : \A j \in DOMAIN f : f[j] < Position(p) <=> j < op["sp"]
    BY <1>4 DEF GoodInv, AbreastInv, Abreast
  <1>9. /\ Len(Checks[chk[p]].client) \in Nat /\ DOMAIN f = 1..Len(Checks[chk[p]].server)
        /\ Len(Checks[chk[p]].server) \in Nat
        /\ \A j \in DOMAIN f : f[j] \in 1..Len(Checks[chk[p]].client)
    BY <1>7, PairingType DEF IInv
  <1>10. op["sp"] <= Len(Checks[chk[p]].server)
    BY <1>6 DEF ServerOutlived, Script
  <1>11. op["sp"] \in DOMAIN f
    BY <1>7, <1>9, <1>10
  <1>12. Position(p) = Len(Checks[chk[p]].client) + 1
    BY <1>5 DEF Position
  <1> QED BY <1>7, <1>8, <1>9, <1>11, <1>12

\* A server half never ends before its client half has made its last request.
LEMMA NotPanicked ==
    ASSUME IInv, EarnedInv, GoodInv
    PROVE  ~ServerPanic
  <1> SUFFICES ASSUME ServerPanic PROVE FALSE
    OBVIOUS
  <1>1. PICK p \in Drivers : p \in Pending("test")
    BY DEF ServerPanic, Pending
  <1>2. pc[p] = "client" /\ req[p].to = "test" /\ ~Answered(p)
    BY <1>1
    DEF IInv, TypeOK, TurnInv, RequestInv, Waits, Answered, Pending, Idle, Drivers
  <1>3. Awaits(p) /\ Position(p) = op[p]
    BY <1>2 DEF Awaits, Position
  <1>4. chk[p] \in Nat \ {0} /\ chk[p] <= Len(Checks) /\ op[p] \in Nat \ {0}
    BY <1>2 DEF IInv, TypeOK, ScriptInv, Drivers
  <1>5. op[p] <= Len(Checks[chk[p]].client) /\ Checks[chk[p]].client[op[p]] # "denied"
    BY <1>2 DEF GoodInv, AskedInv
  <1>6. PICK f \in Pairings(Checks[chk[p]]) : \A j \in DOMAIN f : f[j] < Position(p) <=> j < op["sp"]
    BY <1>3 DEF GoodInv, AbreastInv, Abreast
  <1>7. /\ Len(Checks[chk[p]].client) \in Nat /\ DOMAIN f = 1..Len(Checks[chk[p]].server)
        /\ Len(Checks[chk[p]].server) \in Nat
        /\ \A k \in 1..Len(Checks[chk[p]].client) :
              Checks[chk[p]].client[k] # "denied" => \E j \in DOMAIN f : f[j] = k
    BY <1>4, PairingType DEF IInv
  <1>8. PICK j \in DOMAIN f : f[j] = op[p]
    BY <1>4, <1>5, <1>7
  <1>9. op["sp"] > Len(Checks[chk[p]].server)
    BY <1>3 DEF ServerPanic, GoodInv, ServedInv
  <1> QED BY <1>3, <1>4, <1>6, <1>7, <1>8, <1>9 DEF IInv, TypeOK

\* A driver asks for the next check, or is done.
LEMMA NextCheckGood ==
    ASSUME IInv, EarnedInv, GoodInv, NEW p \in Drivers, NextCheck(p), ~disturbed'
    PROVE  GoodInv'
  <1>1. test' = test
    BY DEF NextCheck
  <1>2. CleanInv'
    BY <1>1 DEF GoodInv, NextCheck, CleanInv, IInv, TypeOK, Drivers, Ask, Goto
  <1>3. AbreastInv'
    BY <1>1, AbreastStays
    DEF NextCheck, AbreastInv, IInv, TypeOK, TurnInv, Awaits, Drivers, Goto
  <1>4. ServedInv'
    BY <1>1
    DEF GoodInv, NextCheck, ServedInv, Checks, IInv, TypeOK, Answered, Awaits, Drivers,
        Partitions, Ask, Goto
  <1>5. AskedInv'
    BY <1>1 DEF NextCheck, AskedInv, IInv, TypeOK, TurnInv, Idle, Drivers, Goto
  <1>6. NeededInv'
    BY <1>1
    DEF GoodInv, NextCheck, NeededInv, IInv, TypeOK, Answered, Awaits, Drivers, Ask,
        Goto
  <1>7. KeptInv'
    BY <1>1
    DEF GoodInv, NextCheck, KeptInv, CleanInv, IInv, TypeOK, Drivers, Partitions, Goto
  <1> QED BY <1>2, <1>3, <1>4, <1>5, <1>6, <1>7 DEF GoodInv

\* A connection that is not refused leads to the call.
LEMMA ConnectedGood ==
    ASSUME IInv, EarnedInv, GoodInv, NEW p \in Drivers, Connected(p), ~disturbed'
    PROVE  GoodInv'
  <1>1. test' = test
    BY DEF Connected
  <1>2. CleanInv'
    BY <1>1 DEF GoodInv, Connected, CleanInv, IInv, TypeOK, Drivers, Ask, Goto
  <1>3. AbreastInv'
    BY <1>1, AbreastStays
    DEF GoodInv, Connected, AbreastInv, CleanInv, IInv, TypeOK, TurnInv, Awaits,
        Drivers, Ask, Goto
  <1>4. ServedInv'
    BY <1>1
    DEF GoodInv, Connected, ServedInv, Checks, CleanInv, IInv, TypeOK, RequestInv,
        Answered, Awaits, Drivers, Ask, Goto
  <1>5. AskedInv'
    <2>1. \A q \in Drivers : q # p => pc'[q] = pc[q] /\ req'[q] = req[q]
      BY <1>1 DEF GoodInv, Connected, CleanInv, IInv, TypeOK, Drivers, Ask, Goto
    <2>2. pc'[p] # "client"
      BY DEF GoodInv, Connected, CleanInv, IInv, TypeOK, Drivers, Goto
    <2> QED BY <1>1, <2>1, <2>2, AskedStays DEF GoodInv, Connected
  <1>6. NeededInv'
    BY <1>1
    DEF GoodInv, Connected, NeededInv, CleanInv, IInv, TypeOK, Answered, Awaits,
        Drivers, Ask, Goto
  <1>7. KeptInv'
    BY <1>1 DEF GoodInv, Connected, KeptInv, CleanInv, IInv, TypeOK, Drivers, Ask, Goto
  <1> QED BY <1>2, <1>3, <1>4, <1>5, <1>6, <1>7 DEF GoodInv

\* A client half starts at its first request, and its server half with it.
LEMMA StartedGood ==
    ASSUME IInv, EarnedInv, GoodInv, NEW p \in Drivers, Started(p), ~disturbed'
    PROVE  GoodInv'
  <1>1. test' = test
    BY DEF Started
  <1>2. CleanInv'
    BY <1>1 DEF GoodInv, Started, CleanInv, IInv, TypeOK, Drivers, Ask, Goto, NoRequest
  <1>3. AbreastInv'
    <2>1. \A q \in Drivers : Awaits(q)' => Awaits(q) /\ Position(q)' = Position(q)
      BY <1>1
      DEF Position, Started, Awaits, IInv, TypeOK, Answered, Drivers, Ask, Goto,
          NoRequest, Checks
    <2>2. op'["sp"] = op["sp"] /\ chk' = chk
      BY DEF Started, IInv, TypeOK, Drivers
    <2> QED BY <1>1, <2>1, <2>2, AbreastStays DEF GoodInv
  <1>4. ServedInv'
    BY <1>1
    DEF GoodInv, Started, ServedInv, Checks, IInv, TypeOK, Answered, Awaits, Drivers,
        Ask, Goto
  <1>5. AskedInv'
    <2>1. \A q \in Drivers : q # p => pc'[q] = pc[q] /\ req'[q] = req[q] /\ op'[q] = op[q]
      BY DEF Started, IInv, TypeOK, Drivers, Ask, Goto
    <2>2. pc'[p] = "client" => req'[p].to # "test"
      BY DEF Started, IInv, TypeOK, Drivers, Ask, Goto, NoRequest
    <2> QED BY <1>1, <2>1, <2>2, AskedStays DEF GoodInv, Started
  <1>6. NeededInv'
    BY <1>1
    DEF GoodInv, Started, NeededInv, IInv, TypeOK, Answered, Awaits, Drivers, Ask, Goto
  <1>7. KeptInv'
    BY <1>1 DEF GoodInv, Started, KeptInv, IInv, TypeOK, Drivers, Goto
  <1> QED BY <1>2, <1>3, <1>4, <1>5, <1>6, <1>7 DEF GoodInv

\* Nothing was refused, so nothing is abandoned.
LEMMA AbandonedGood ==
    ASSUME IInv, EarnedInv, GoodInv, NEW p \in Drivers, Abandoned(p), ~disturbed'
    PROVE  GoodInv'
  <1>1. test' = test
    BY DEF Abandoned
  <1>2. CleanInv'
    BY <1>1 DEF GoodInv, Abandoned, CleanInv, IInv
  <1>3. AbreastInv'
    BY <1>1, AbreastStays DEF GoodInv, Abandoned, AbreastInv, CleanInv, IInv
  <1>4. ServedInv'
    BY <1>1 DEF GoodInv, Abandoned, ServedInv, CleanInv, IInv
  <1>5. AskedInv'
    BY <1>1 DEF GoodInv, Abandoned, AskedInv, CleanInv, IInv
  <1>6. NeededInv'
    BY <1>1 DEF GoodInv, Abandoned, NeededInv, CleanInv, IInv
  <1>7. KeptInv'
    BY <1>1 DEF GoodInv, Abandoned, KeptInv, CleanInv, IInv
  <1> QED BY <1>2, <1>3, <1>4, <1>5, <1>6, <1>7 DEF GoodInv

\* A client half asks for what its script says, and skips what is denied.
LEMMA ClientRequestGood ==
    ASSUME IInv, EarnedInv, GoodInv, NEW p \in Drivers, ClientRequest(p), ~disturbed'
    PROVE  GoodInv'
  <1>1. test' = test
    BY DEF ClientRequest
  <1>2. CleanInv'
    BY <1>1 DEF GoodInv, ClientRequest, CleanInv, IInv, TypeOK, Drivers, Ask, Goto
  <1>3. AbreastInv'
    <2>0. chk[p] \in Nat \ {0} /\ chk[p] <= Len(Checks) /\ op[p] \in Nat \ {0}
      BY DEF ClientRequest, IInv, TypeOK, ScriptInv, Drivers
    <2>1. \A q \in Drivers \ {p} : Awaits(q)' => Awaits(q) /\ Position(q)' = Position(q)
      BY <1>1
      DEF Position, ClientRequest, Awaits, IInv, TypeOK, Answered, Drivers, Ask, Goto,
          Checks
    <2>2. op'["sp"] = op["sp"] /\ chk' = chk
      BY DEF ClientRequest, IInv, TypeOK
    <2>3. Awaits(p) /\ Position(p) = op[p]
      BY DEF Position, ClientRequest, Awaits
    <2>4. CASE Script(p)[op[p]] # "denied"
      <3>1. Awaits(p)' => Position(p)' = Position(p)
        BY <1>1, <2>4, <2>3 DEF Position, ClientRequest, IInv, TypeOK, Answered, Ask
      <3> QED BY <1>1, <2>1, <2>2, <2>3, <3>1, AbreastStays DEF GoodInv
    <2>5. CASE Script(p)[op[p]] = "denied" /\ p = "cp"
      <3>1. ~Awaits(p)'
        BY <2>5 DEF ClientRequest, Awaits, IInv, TypeOK, Goto
      <3> QED BY <1>1, <2>1, <2>2, <3>1, AbreastStays DEF GoodInv
    <2>6. CASE Script(p)[op[p]] = "denied" /\ p = "ns"
      <3>1. Position(p)' = Position(p) + 1
        BY <1>1, <2>6, <2>3 DEF Position, ClientRequest, IInv, TypeOK, Answered
      <3>2. PICK f \in Pairings(Checks[chk[p]]) : \A j \in DOMAIN f : f[j] < Position(p) <=> j < op["sp"]
        BY <2>3 DEF GoodInv, AbreastInv, Abreast
      <3>3. \A j \in DOMAIN f : f[j] \in Nat /\ f[j] # op[p]
        BY <2>0, <2>6, PairingType DEF ClientRequest, Script, IInv
      <3>4. \A j \in DOMAIN f : f[j] < Position(p)' <=> j < op'["sp"]
        BY <2>0, <2>2, <2>3, <3>1, <3>2, <3>3
      <3>5. Abreast(p)'
        BY <1>1, <2>2, <3>4 DEF Abreast, Checks
      <3> QED BY <1>1, <2>1, <2>2, <3>5 DEF GoodInv, AbreastInv, Abreast, Checks
    <2> QED BY <2>4, <2>5, <2>6 DEF Drivers
  <1>4. ServedInv'
    <2>1. \A q \in Drivers : Awaits(q)' => Awaits(q)
      BY DEF ClientRequest, IInv, TypeOK, Drivers, Answered, Awaits, Ask, Goto
    <2>2. pc'["sp"] = pc["sp"] /\ op'["sp"] = op["sp"]
      BY DEF ClientRequest, IInv, TypeOK, Drivers, Goto
    <2> QED BY <1>1, <2>1, <2>2, ServedStays DEF GoodInv, ClientRequest
  <1>5. AskedInv'
    <2>1. \A q \in Drivers : q # p => pc'[q] = pc[q] /\ req'[q] = req[q] /\ op'[q] = op[q]
      BY DEF ClientRequest, IInv, TypeOK, Drivers, Ask, Goto
    <2>2. CASE Script(p)[op[p]] # "denied"
      <3>1. req'[p].type = Script(p)[op[p]] /\ op' = op /\ p # "sp"
        BY <2>2 DEF ClientRequest, IInv, TypeOK, Drivers, Ask
      <3> QED BY <1>1, <2>1, <2>2, <3>1 DEF GoodInv, ClientRequest, AskedInv, Script, Checks
    <2>3. CASE Script(p)[op[p]] = "denied"
      <3>1. req'[p].to # "test"
        BY <2>3 DEF ClientRequest
      <3> QED BY <1>1, <2>1, <3>1, AskedStays DEF GoodInv, ClientRequest
    <2> QED BY <2>2, <2>3
  <1>6. NeededInv'
    BY <1>1 DEF ClientRequest, NeededInv, IInv, TypeOK, Drivers, Awaits, Goto
  <1>7. KeptInv'
    BY <1>1 DEF ClientRequest, KeptInv, IInv, TypeOK, Drivers, Goto
  <1> QED BY <1>2, <1>3, <1>4, <1>5, <1>6, <1>7 DEF GoodInv

\* A client half goes on when it has its answer.
LEMMA ClientAnsweredGood ==
    ASSUME IInv, EarnedInv, GoodInv, NEW p \in Drivers, ClientAnswered(p), ~disturbed'
    PROVE  GoodInv'
  <1>1. test' = test
    BY DEF ClientAnswered
  <1>2. CleanInv'
    BY <1>1 DEF GoodInv, ClientAnswered, CleanInv, IInv, NoRequest
  <1>3. AbreastInv'
    BY <1>1, AbreastStays
    DEF Position, GoodInv, ClientAnswered, AbreastInv, IInv, TypeOK, HalvesInv,
        EarnedInv, Answered, Awaits, Drivers, NoRequest
  <1>4. ServedInv'
    BY <1>1 DEF GoodInv, ClientAnswered, ServedInv, Checks, IInv, Answered, Awaits
  <1>5. AskedInv'
    BY <1>1 DEF GoodInv, ClientAnswered, AskedInv, Checks, IInv, TypeOK, NoRequest
  <1>6. NeededInv'
    BY <1>1 DEF ClientAnswered, NeededInv, IInv, Awaits
  <1>7. KeptInv'
    BY <1>1 DEF ClientAnswered, KeptInv, IInv, Drivers
  <1> QED BY <1>2, <1>3, <1>4, <1>5, <1>6, <1>7 DEF GoodInv

\* A client half that is over has had all its requests answered.
LEMMA ClientReturnGood ==
    ASSUME IInv, EarnedInv, GoodInv, NEW p \in Drivers, ClientReturn(p), ~disturbed'
    PROVE  GoodInv'
  <1>1. test' = test
    BY DEF ClientReturn
  <1>2. CleanInv'
    BY <1>1 DEF GoodInv, ClientReturn, CleanInv, IInv, Ask, Goto
  <1>3. AbreastInv'
    <2>0. chk[p] \in Nat \ {0} /\ chk[p] <= Len(Checks) /\ op[p] \in Nat \ {0}
      BY DEF ClientReturn, IInv, TypeOK, ScriptInv, Drivers
    <2>1. \A q \in Drivers \ {p} : Awaits(q)' => Awaits(q) /\ Position(q)' = Position(q)
      BY <1>1 DEF Position, ClientReturn, Awaits, IInv, Answered, Ask, Goto, Checks
    <2>2. op' = op /\ chk' = chk
      BY DEF ClientReturn
    <2>3. Awaits(p) /\ op[p] > Len(Checks[chk[p]].client) /\ Position(p) \in {op[p], op[p] + 1}
      BY DEF Position, GoodInv, ClientReturn, Awaits, CleanInv, Script, Drivers
    <2>4. Position(p)' = Len(Checks[chk[p]].client) + 1
      BY <1>1, <2>2 DEF Position, ClientReturn, IInv, TypeOK, Goto, Checks, Drivers
    <2>5. PICK f \in Pairings(Checks[chk[p]]) : \A j \in DOMAIN f : f[j] < Position(p) <=> j < op["sp"]
      BY <2>3 DEF GoodInv, AbreastInv, Abreast
    <2>6. \A j \in DOMAIN f : f[j] < Position(p) /\ f[j] < Position(p)'
      BY <2>0, <2>3, <2>4, PairingType DEF IInv
    <2>7. Abreast(p)'
      BY <1>1, <2>2, <2>5, <2>6 DEF Abreast, Checks
    <2> QED BY <1>1, <2>1, <2>2, <2>7 DEF GoodInv, AbreastInv, Abreast, Checks
  <1>4. ServedInv'
    BY <1>1
    DEF GoodInv, ClientReturn, ServedInv, Checks, IInv, Answered, Awaits, Ask, Goto
  <1>5. AskedInv'
    BY <1>1 DEF GoodInv, ClientReturn, AskedInv, Checks, IInv, Ask, Goto
  <1>6. NeededInv'
    BY <1>1 DEF ClientReturn, NeededInv, IInv, TypeOK, Answered, Awaits, Ask, Goto
  <1>7. KeptInv'
    BY <1>1 DEF ClientReturn, KeptInv, IInv, Drivers, Goto
  <1> QED BY <1>2, <1>3, <1>4, <1>5, <1>6, <1>7 DEF GoodInv

\* The result is a success.
LEMMA GotResultGood ==
    ASSUME IInv, EarnedInv, GoodInv, NEW p \in Drivers, GotResult(p), ~disturbed'
    PROVE  GoodInv'
  <1>1. test' = test
    BY DEF GotResult
  <1>2. CleanInv'
    BY <1>1 DEF GoodInv, GotResult, CleanInv, IInv, Answered, Ask, Goto
  <1>3. AbreastInv'
    BY <1>1, AbreastStays
    DEF GotResult, AbreastInv, IInv, TypeOK, TurnInv, Answered, Awaits, Drivers, Goto
  <1>4. ServedInv'
    BY <1>1
    DEF GoodInv, GotResult, ServedInv, Checks, IInv, TypeOK, Answered, Awaits, Drivers,
        Ask, Goto
  <1>5. AskedInv'
    BY <1>1 DEF GoodInv, GotResult, AskedInv, Checks, IInv, Ask, Goto
  <1>6. NeededInv'
    BY <1>1 DEF GoodInv, GotResult, NeededInv, IInv, Answered, Awaits, Ask, Goto
  <1>7. KeptInv'
    BY <1>1 DEF GotResult, KeptInv, IInv, TypeOK, Drivers, Goto
  <1> QED BY <1>2, <1>3, <1>4, <1>5, <1>6, <1>7 DEF GoodInv

\* The next check follows.
LEMMA ClosedGood ==
    ASSUME IInv, EarnedInv, GoodInv, NEW p \in Drivers, Closed(p), ~disturbed'
    PROVE  GoodInv'
  <1>1. test' = test
    BY DEF Closed
  <1>2. CleanInv'
    BY <1>1 DEF GoodInv, Closed, CleanInv, Combine, IInv, TypeOK, Drivers, Goto, Return
  <1>3. AbreastInv'
    BY <1>1, AbreastStays
    DEF Closed, AbreastInv, IInv, TypeOK, TurnInv, Awaits, Drivers, Goto, Return
  <1>4. ServedInv'
    <2>1. /\ ~Awaits(p)' /\ pc'["sp"] = pc["sp"]
          /\ \A q \in Drivers : q # p => pc'[q] = pc[q] /\ chk'[q] = chk[q]
      BY DEF Closed, IInv, TypeOK, Drivers, Awaits, Goto, Return
    <2>2. result'["sp"] = result["sp"]
      BY DEF Closed, IInv, TypeOK, Drivers, Partitions, Return
    <2>3. \A q \in Drivers : Awaits(q)' => Awaits(q) /\ chk'[q] = chk[q]
      BY <2>1 DEF Closed, Awaits, Answered
    <2> QED BY <1>1, <2>1, <2>2, <2>3, ServedStays DEF GoodInv, Closed
  <1>5. AskedInv'
    BY <1>1
    DEF Closed, AskedInv, IInv, TypeOK, TurnInv, Drivers, Partitions, Goto, Return
  <1>6. NeededInv'
    BY <1>1
    DEF GoodInv, Closed, NeededInv, IInv, TypeOK, Answered, Awaits, Drivers, Goto,
        Return
  <1>7. KeptInv'
    BY <1>1
    DEF GoodInv, Closed, KeptInv, CleanInv, Combine, IInv, TypeOK, Drivers, Partitions,
        Goto, Return
  <1> QED BY <1>2, <1>3, <1>4, <1>5, <1>6, <1>7 DEF GoodInv

\* The last connection was closed, so that this one is not refused.
LEMMA AcceptGood ==
    ASSUME IInv, EarnedInv, GoodInv, NEW d \in Partitions, Accept(d), ~disturbed'
    PROVE  GoodInv'
  <1>1. test' = test
    BY DEF Accept
  <1>2. CleanInv'
    BY <1>1, AskedWhenClosed
    DEF GoodInv, Accept, CleanInv, NeverStillBusy, IInv, TypeOK, Answer
  <1>3. AbreastInv'
    BY <1>1, AbreastStays
    DEF Accept, AbreastInv, IInv, TurnInv, RequestInv, Waits, Answered, Pending,
        Awaits, Drivers, Partitions
  <1>4. ServedInv'
    BY <1>1
    DEF Accept, ServedInv, IInv, TurnInv, RequestInv, Waits, Answered, Pending, Awaits,
        Drivers, Partitions
  <1>5. AskedInv'
    BY <1>1
    DEF Accept, AskedInv, IInv, TurnInv, RequestInv, Waits, Answered, Pending, Drivers,
        Partitions
  <1>6. NeededInv'
    BY <1>1
    DEF GoodInv, Accept, NeededInv, IInv, RequestInv, Waits, Answered, Pending, Awaits,
        Idle, Drivers, Partitions
  <1>7. KeptInv'
    BY <1>1
    DEF Accept, KeptInv, IInv, RequestInv, Waits, Answered, Pending, Idle, Drivers,
        Partitions
  <1> QED BY <1>2, <1>3, <1>4, <1>5, <1>6, <1>7 DEF GoodInv

\* A server half starts with its client half at the first request.
LEMMA ExecuteGood ==
    ASSUME HalvesFit, IInv, EarnedInv, GoodInv, NEW d \in Partitions, Execute(d), ~disturbed'
    PROVE  GoodInv'
  <1>1. test' = test
    BY DEF Execute
  <1>2. CleanInv'
    BY <1>1 DEF GoodInv, Execute, CleanInv, IInv, TypeOK, Drivers, Answer, Goto
  <1>3. AbreastInv'
    <2>1. PICK p \in Drivers : p \in Pending(d) /\ req[p].type = "exec" /\ Answer(p, "ok")
      BY DEF Execute, Pending
    <2>2. pc[p] \in {"exec", "swExec"} /\ ~Answered(p) /\ pc'[p] = pc[p]
      BY <2>1
      DEF Execute, IInv, TypeOK, TurnInv, RequestInv, Waits, Pending, Answered,
          Drivers, Partitions, Goto
    <2>3. CASE d = "cp"
      <3>1. \A q \in Drivers : Awaits(q)' => Awaits(q) /\ chk'[q] = chk[q] /\ Position(q)' = Position(q)
        BY <1>1, <2>1, <2>2, <2>3
        DEF Execute, Awaits, IInv, TypeOK, RequestInv, Waits, Pending, Drivers, Goto
      <3>2. op' = op
        BY <2>1, <2>3 DEF Execute, IInv
      <3> QED BY <1>1, <3>1, <3>2, AbreastStays DEF GoodInv
    <2>4. CASE d = "sp"
      <3>1. pc[p] = "exec" /\ \A q \in Drivers \ {p} : ~Awaits(q)'
        BY <2>1, <2>2, <2>4
        DEF Execute, Awaits, IInv, TypeOK, TurnInv, RequestInv, Waits, Pending,
            Drivers, Goto
      <3>2. Position(p)' = 1 /\ op'["sp"] = 1 /\ chk' = chk
        BY <2>1, <2>2, <2>4, <3>1 DEF Position, Execute, IInv, TypeOK
      <3>3. chk[p] \in 1..Len(Checks)
        BY <3>1, TestType DEF IInv, TypeOK, ScriptInv
      <3>30. Pairings(Checks[chk[p]]) # {}
        BY <3>3 DEF HalvesFit, Checks, IInv, TypeOK
      <3>4. PICK f \in Pairings(Checks[chk[p]]) : TRUE
        BY <3>30
      <3>5. \A j \in DOMAIN f : ~(f[j] < 1) /\ ~(j < 1)
        BY <3>3, PairingType DEF IInv
      <3>6. Abreast(p)'
        BY <1>1, <3>2, <3>5 DEF Abreast, Checks
      <3> QED BY <3>1, <3>6 DEF AbreastInv
    <2> QED BY <2>3, <2>4 DEF Partitions
  <1>4. ServedInv'
    BY <1>1
    DEF Execute, ServedInv, IInv, TypeOK, RequestInv, Waits, Answered, Pending, Awaits,
        Drivers, Goto
  <1>5. AskedInv'
    <2>1. \A q \in Drivers : pc'[q] = "client" =>
              pc[q] = "client" /\ chk'[q] = chk[q] /\ op'[q] = op[q]
      BY DEF Execute, IInv, TypeOK, Drivers, Partitions, Goto
    <2>2. \A q \in Drivers : req'[q].to = req[q].to /\ req'[q].type = req[q].type
      BY DEF Execute, IInv, TypeOK, Pending, Answer
    <2> QED BY <1>1, <2>1, <2>2, AskedStays DEF GoodInv
  <1>6. NeededInv'
    BY <1>1
    DEF GoodInv, Execute, NeededInv, IInv, TypeOK, TurnInv, RequestInv, Waits,
        Answered, Pending, Awaits, Drivers, Partitions, Answer, Goto
  <1>7. KeptInv'
    BY <1>1
    DEF GoodInv, Execute, KeptInv, IInv, TypeOK, RequestInv, Waits, Answered, Pending,
        Drivers, Answer, Goto
  <1> QED BY <1>2, <1>3, <1>4, <1>5, <1>6, <1>7 DEF GoodInv

\* The result kept is a success.
LEMMA ReturnResultGood ==
    ASSUME IInv, EarnedInv, GoodInv, NEW d \in Partitions, ReturnResult(d), ~disturbed'
    PROVE  GoodInv'
  <1>1. test' = test
    BY DEF ReturnResult
  <1>2. CleanInv'
    <2>1. PICK p \in Drivers : p \in Pending(d) /\ pc[d] = "idle" /\ req[p].type = "result" /\ Answer(p, result[d])
      BY DEF ReturnResult, Pending
    <2>2. pc[p] = IF d = "sp" THEN "result" ELSE "swResult"
      BY <2>1
      DEF IInv, TurnInv, RequestInv, Waits, Pending, Answered, Drivers, Partitions
    <2>3. result[d] = "ok"
      BY <2>1, <2>2
      DEF GoodInv, ServedInv, KeptInv, Awaits, Answered, Pending, IInv, Drivers,
          Partitions
    <2> QED BY <2>1, <2>3 DEF GoodInv, ReturnResult, CleanInv, Answer, IInv
  <1>3. AbreastInv'
    <2>1. \A q \in Drivers : Awaits(q)' => Awaits(q) /\ Position(q)' = Position(q)
      <3>1. PICK p \in Pending(d) : /\ req[p].type = "result" /\ pc' = pc /\ chk' = chk /\ op' = op
                                   /\ \E a \in Status \cup {"refused"} : Answer(p, a)
        BY DEF ReturnResult, IInv, TypeOK
      <3>2. p \in Drivers /\ pc[p] # "client" /\ pc[p] # "exec" /\ req'[p].answer # "none"
        BY <3>1 DEF IInv, TypeOK, RequestInv, Waits, Pending, Answer, Status, Partitions
      <3>3. \A q \in Drivers \ {p} : req'[q] = req[q]
        BY <3>1, <3>2 DEF Answer, IInv
      <3>4. ~Awaits(p)' \/ pc[p] = "exec"
        BY <3>1, <3>2 DEF Awaits, Answered
      <3> QED BY <1>1, <3>1, <3>2, <3>3, <3>4 DEF Position, Awaits, Answered, Checks
    <2> QED BY <1>1, <2>1, AbreastStays DEF GoodInv, ReturnResult
  <1>4. ServedInv'
    BY <1>1
    DEF GoodInv, ReturnResult, ServedInv, Checks, IInv, TurnInv, RequestInv, Waits,
        Answered, Pending, Awaits, Drivers, Partitions
  <1>5. AskedInv'
    BY <1>1
    DEF ReturnResult, AskedInv, IInv, TurnInv, RequestInv, Waits, Answered, Pending,
        Drivers, Partitions
  <1>6. NeededInv'
    BY <1>1
    DEF GoodInv, ReturnResult, NeededInv, IInv, RequestInv, Waits, Answered, Pending,
        Awaits, Idle, Drivers, Partitions
  <1>7. KeptInv'
    BY <1>1
    DEF GoodInv, ReturnResult, KeptInv, IInv, RequestInv, Waits, Answered, Pending,
        Idle, Drivers, Partitions
  <1> QED BY <1>2, <1>3, <1>4, <1>5, <1>6, <1>7 DEF GoodInv

\* A connection is closed.
LEMMA DisconnectGood ==
    ASSUME IInv, EarnedInv, GoodInv, NEW d \in Partitions, Disconnect(d), ~disturbed'
    PROVE  GoodInv'
  <1>1. test' = test
    BY DEF Disconnect
  <1>2. CleanInv'
    BY <1>1 DEF GoodInv, Disconnect, CleanInv, IInv, Answer
  <1>3. AbreastInv'
    BY <1>1, AbreastStays
    DEF Disconnect, AbreastInv, IInv, TurnInv, RequestInv, Waits, Answered, Pending,
        Awaits, Drivers, Partitions
  <1>4. ServedInv'
    BY <1>1
    DEF GoodInv, Disconnect, ServedInv, Checks, IInv, RequestInv, Waits, Answered,
        Awaits, Answer
  <1>5. AskedInv'
    BY <1>1 DEF GoodInv, Disconnect, AskedInv, Checks, IInv, Answer
  <1>6. NeededInv'
    BY <1>1
    DEF GoodInv, Disconnect, NeededInv, IInv, RequestInv, Waits, Answered, Awaits,
        Answer
  <1>7. KeptInv'
    BY <1>1
    DEF GoodInv, Disconnect, KeptInv, IInv, RequestInv, Waits, Answered, Drivers, Answer
  <1> QED BY <1>2, <1>3, <1>4, <1>5, <1>6, <1>7 DEF GoodInv

\* The request is the one that the server half waits for.
LEMMA ServerTakesGood ==
    ASSUME IInv, EarnedInv, GoodInv, NEW p \in Drivers, ServerTakes(p), ~disturbed'
    PROVE  GoodInv'
  <1>1. test' = test
    BY DEF ServerTakes
  <1>2. CleanInv'
    BY <1>1 DEF GoodInv, ServerTakes, CleanInv, IInv, TypeOK, Drivers, Answer
  <1>3. AbreastInv'
    <2>0. /\ req[p].type = Script("sp")[op["sp"]] /\ Answer(p, "ok")
          /\ op' = [op EXCEPT !["sp"] = @ + 1] /\ UNCHANGED <<pc, chk>>
          /\ pc["sp"] = "server" /\ op["sp"] <= Len(Script("sp")) /\ p \in Pending("test")
      BY DEF ServerTakes
    <2>1. pc[p] = "client" /\ req[p].to = "test" /\ ~Answered(p)
      BY <2>0 DEF IInv, TurnInv, RequestInv, Waits, Answered, Pending, Drivers
    <2>2. Awaits(p) /\ Position(p) = op[p]
      BY <2>1 DEF Position, Awaits
    <2>3. Position(p)' = op[p] + 1 /\ op'["sp"] = op["sp"] + 1
      BY <2>0, <2>1 DEF Position, Answered, Answer, IInv, TypeOK
    <2>4. chk[p] \in Nat \ {0} /\ chk[p] <= Len(Checks) /\ op[p] \in Nat \ {0} /\ op["sp"] \in Nat \ {0}
      BY <2>1 DEF IInv, TypeOK, ScriptInv, Drivers
    <2>5. PICK f \in Pairings(Checks[chk[p]]) : \A j \in DOMAIN f : f[j] < op[p] <=> j < op["sp"]
      BY <2>2 DEF GoodInv, AbreastInv, Abreast
    <2>6. /\ Len(Checks[chk[p]].client) \in Nat /\ DOMAIN f = 1..Len(Checks[chk[p]].server)
          /\ Len(Checks[chk[p]].server) \in Nat
          /\ \A j \in DOMAIN f : f[j] \in 1..Len(Checks[chk[p]].client)
          /\ \A j, k \in DOMAIN f : j < k => f[j] < f[k]
          /\ \A k \in 1..Len(Checks[chk[p]].client) :
                Checks[chk[p]].client[k] # "denied" => \E j \in DOMAIN f : f[j] = k
      BY <2>4, PairingType DEF IInv
    <2>7. op["sp"] \in DOMAIN f
      <3>1. op["sp"] <= Len(Checks[chk[p]].server)
        <4>1. block.chk = chk[p]
          BY <2>2, AwaitedBlock
        <4> QED BY <2>0, <4>1 DEF Script
      <3> QED BY <2>4, <2>6, <3>1
    <2>8. f[op["sp"]] = op[p]
      <3>1. op[p] <= Len(Checks[chk[p]].client) /\ Checks[chk[p]].client[op[p]] # "denied"
        BY <2>1 DEF GoodInv, AskedInv
      <3>2. PICK k \in DOMAIN f : f[k] = op[p]
        BY <2>4, <2>6, <3>1
      <3>3. ~(k < op["sp"])
        BY <2>4, <2>5, <3>2
      <3>4. CASE k > op["sp"]
        <4>1. f[op["sp"]] < op[p]
          BY <2>6, <2>7, <3>2, <3>4
        <4> QED BY <2>5, <2>7, <4>1, <2>4
      <3> QED BY <2>4, <2>6, <3>2, <3>3, <3>4
    <2>9. \A j \in DOMAIN f : f[j] < op[p] + 1 <=> j < op["sp"] + 1
      <3> SUFFICES ASSUME NEW j \in DOMAIN f PROVE f[j] < op[p] + 1 <=> j < op["sp"] + 1
        OBVIOUS
      <3>1. j \in Nat /\ f[j] \in Nat
        BY <2>6
      <3>2. CASE j = op["sp"]
        BY <2>4, <2>8, <3>1, <3>2
      <3>3. CASE j < op["sp"]
        BY <2>4, <2>5, <3>1, <3>3
      <3>4. CASE j > op["sp"]
        BY <2>4, <2>6, <2>7, <2>8, <3>1, <3>4
      <3> QED BY <2>4, <3>1, <3>2, <3>3, <3>4
    <2>10. Abreast(p)'
      BY <1>1, <2>0, <2>3, <2>9 DEF Abreast, Checks
    <2>11. \A q \in Drivers \ {p} : ~Awaits(q)'
      <3>1. \A q \in Drivers \ {p} : ~Awaits(q)
        BY <2>2, AwaitedBlock
      <3>2. \A q \in Drivers \ {p} : pc'[q] = pc[q] /\ req'[q] = req[q]
        BY <2>0 DEF Answer, IInv
      <3> QED BY <3>1, <3>2 DEF Awaits, Answered
    <2> QED BY <2>10, <2>11 DEF AbreastInv
  <1>4. ServedInv'
    BY <1>1 DEF ServerTakes, ServedInv, IInv
  <1>5. AskedInv'
    <2>1. UNCHANGED <<pc, chk>> /\ \A q \in Drivers : req'[q].to = req[q].to /\ req'[q].type = req[q].type
      <3>1. pc' = pc /\ chk' = chk /\ Answer(p, "ok")
        BY DEF ServerTakes
      <3> QED BY <3>1 DEF Answer, IInv
    <2>2. \A q \in Drivers : op'[q] = op[q]
      BY DEF ServerTakes, IInv, TypeOK, Drivers
    <2> QED BY <1>1, <2>1, <2>2 DEF GoodInv, AskedInv, Checks
  <1>6. NeededInv'
    BY <1>1
    DEF ServerTakes, NeededInv, IInv, TurnInv, RequestInv, Waits, Answered, Pending,
        Awaits, Drivers
  <1>7. KeptInv'
    BY <1>1
    DEF ServerTakes, KeptInv, IInv, RequestInv, Waits, Answered, Pending, Idle, Drivers
  <1> QED BY <1>2, <1>3, <1>4, <1>5, <1>6, <1>7 DEF GoodInv

\* A server half is over when it has answered all requests.
LEMMA ServerReturnGood ==
    ASSUME IInv, EarnedInv, GoodInv, ServerReturn, ~disturbed'
    PROVE  GoodInv'
  <1>1. test' = test
    BY DEF ServerReturn
  <1>2. CleanInv'
    BY <1>1 DEF GoodInv, ServerReturn, CleanInv, IInv, Goto
  <1>3. AbreastInv'
    <2>1. \A q \in Drivers : Awaits(q)' => Awaits(q) /\ Position(q)' = Position(q)
      BY <1>1 DEF Position, ServerReturn, Awaits, IInv, Answered, Goto, Checks
    <2> QED BY <1>1, <2>1, AbreastStays DEF GoodInv, ServerReturn
  <1>4. ServedInv'
    <2>1. \A q \in Drivers : Awaits(q)' => Awaits(q)
      BY DEF ServerReturn, Awaits, IInv, Answered, Goto
    <2>2. \A q \in Drivers : Awaits(q) => op["sp"] > Len(Checks[chk[q]].server)
      <3>1. \A q \in Drivers : Awaits(q) => block.chk = chk[q]
        BY AwaitedBlock
      <3> QED BY <3>1 DEF ServerReturn, Script
    <2>3. result'["sp"] = "ok"
      BY DEF GoodInv, ServerReturn, CleanInv, IInv, TypeOK, Partitions
    <2> QED BY <1>1, <2>1, <2>2, <2>3 DEF ServerReturn, ServedInv, Checks
  <1>5. AskedInv'
    BY <1>1 DEF GoodInv, ServerReturn, AskedInv, Checks, IInv, Goto
  <1>6. NeededInv'
    BY <1>1 DEF GoodInv, ServerReturn, NeededInv, IInv, Answered, Awaits, Goto
  <1>7. KeptInv'
    BY <1>1 DEF GoodInv, ServerReturn, KeptInv, IInv, Answered, Goto
  <1> QED BY <1>2, <1>3, <1>4, <1>5, <1>6, <1>7 DEF GoodInv

\* Nothing changes when nothing happens.
LEMMA GoodStutter ==
    ASSUME GoodInv, UNCHANGED vars
    PROVE  GoodInv'
  BY
  DEF GoodInv, vars, CleanInv, AbreastInv, ServedInv, AskedInv, NeededInv, KeptInv,
      Abreast,
     Position, Checks, Awaits, Answered

\* Together with IInv and EarnedInv, UndisturbedInv is inductive.
LEMMA UndisturbedStep ==
    ASSUME HalvesFit
    PROVE  IInv /\ EarnedInv /\ UndisturbedInv /\ [Next]_vars => UndisturbedInv'
  <1> SUFFICES ASSUME IInv, EarnedInv, UndisturbedInv, [Next]_vars, ~disturbed'
               PROVE  GoodInv'
    BY DEF UndisturbedInv
  <1>1. disturbed' # disturbed => disturbed'
    BY
    DEF Next, Driver, Partition, ServerHalf, NextCheck, Connected, Started, Abandoned,
       ClientRequest, ClientAnswered, ClientReturn, GotResult, Closed, Accept, Execute,
       ReturnResult, Disconnect, ServerTakes, ServerOutlived, ServerReturn, ServerPanic, vars
  <1>2. GoodInv
    BY <1>1 DEF UndisturbedInv, IInv
  <1>3. ASSUME NEW p \in Drivers, Driver(p) PROVE GoodInv'
    BY <1>2, <1>3, NextCheckGood, ConnectedGood, StartedGood, AbandonedGood,
       ClientRequestGood, ClientAnsweredGood, ClientReturnGood, GotResultGood,
       ClosedGood DEF Driver
  <1>4. ASSUME NEW d \in Partitions, Partition(d) PROVE GoodInv'
    BY <1>2, <1>4, AcceptGood, ExecuteGood, ReturnResultGood, DisconnectGood
    DEF Partition
  <1>5. CASE ServerHalf
    BY <1>2, <1>5, ServerTakesGood, NotOutlived, ServerReturnGood, NotPanicked
    DEF ServerHalf
  <1>6. CASE UNCHANGED vars
    BY <1>2, <1>6, GoodStutter
  <1> QED BY <1>3, <1>4, <1>5, <1>6 DEF Next

\* The invariants together.
LEMMA UndisturbedInvariance ==
    ASSUME HalvesFit
    PROVE  Spec => []UndisturbedInv
  <1>1. IInv /\ EarnedInv /\ UndisturbedInv /\ [Next]_vars => UndisturbedInv'
    BY UndisturbedStep
  <1> QED BY <1>1, InitInv, StepInv, EarnedInit, EarnedStep, UndisturbedInit, PTL
          DEF Spec

\* An implementation under test that refuses nothing and whose halves do what they
\* are written to do passes the test (val_execute_non_secure_tests): no result of a
\* dispatcher connection is stale, and no connection is refused for want of closing.
THEOREM GoodImplementationPasses ==
    ASSUME HalvesFit
    PROVE  Spec => []UndisturbedPasses
  <1>1. UndisturbedInv => UndisturbedPasses
    BY DEF GoodInv, UndisturbedInv, CleanInv, UndisturbedPasses, Drivers
  <1> QED BY <1>1, UndisturbedInvariance, PTL

\* The server partition is stopped, or leaves a client half without an answer, only
\* when the implementation under test misbehaved (psa_wait(PSA_WAIT_ANY) in
\* val_process_connect_request and its siblings).
THEOREM HalvesMeet ==
    ASSUME HalvesFit
    PROVE  Spec => []ForsakenOnlyWhenDisturbed
  <1>1. IInv /\ UndisturbedInv => ForsakenOnlyWhenDisturbed
    BY DEF GoodInv, IInv, UndisturbedInv, CleanInv, ForsakenOnlyWhenDisturbed, Forsaken
  <1> QED BY <1>1, Invariance, UndisturbedInvariance, PTL
==============================================================================
