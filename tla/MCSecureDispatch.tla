--------------------------- MODULE MCSecureDispatch ---------------------------
(* Tests of the framework suite as scripts for SecureDispatch.               *)
EXTENDS SecureDispatch

Same(s)   == [client |-> s, server |-> s]

\* ff/ipc/test_i001: no request.  ff/ipc/test_i008 and many others: a session.
NoRequests == Same(<<>>)
Session    == Same(<<"connect", "call", "close">>)
Connection == Same(<<"connect", "close">>)

\* ff/ipc/test_i024: a call that is denied; the server half has nothing to do.
I024       == [client |-> <<"denied">>, server |-> <<>>]

\* The lists are entered at their first check, or by the non-secure side at the
\* second after a reset that the first one announced with
\* BOOT_EXPECTED_REENTER_TEST.
FromFirst  == [p \in Drivers |-> 1]
Reentered  == [p \in Drivers |-> IF p = "ns" THEN 2 ELSE 1]

Lists == {[checks |-> <<Session, NoRequests, Connection>>, first |-> FromFirst],
          [checks |-> <<Connection, Session, I024>>, first |-> Reentered]}

ASSUME ListsFit == Tests \subseteq Lists => HalvesFit

=============================================================================
