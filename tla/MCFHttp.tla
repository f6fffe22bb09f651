------------------------------- MODULE MCFHttp -------------------------------
(* The two protocols of FHttpServer: a connection speaks one of them.          *)
EXTENDS FHttp1, FHttp2

VARIABLE protocol

MakeRequest(valid, close, body, length) ==
  [valid |-> valid, close |-> close, body |-> body, length |-> length]

Plain(close, body) == MakeRequest(TRUE, close, body, "digits")

MCScripts ==
  {<<Plain(FALSE, <<>>), Plain(TRUE, <<>>)>>,
   <<Plain(TRUE, <<"byte">>), Plain(FALSE, <<>>)>>,
   <<Plain(FALSE, <<"byte", "byte">>), Plain(FALSE, <<"byte", "zero", "byte">>)>>,
   <<Plain(FALSE, <<>>), MakeRequest(FALSE, FALSE, <<>>, "digits")>>,
   <<MakeRequest(TRUE, FALSE, <<"byte">>, "noNumber")>>,
   <<MakeRequest(TRUE, FALSE, <<"byte">>, "tooLarge")>>}

\* What belongs to the other protocol stays as one of its initial states is.
OneOf(S) == CHOOSE x \in S : TRUE

HttpInit ==
  /\ Http1Init /\ Http2Init
  /\ \/ protocol = "http1" /\ enablePush /\ mHttp2CloseImm
     \/ protocol = "http2" /\ script = OneOf(Scripts) /\ pipelined

HttpNext ==
  \/ protocol = "http1" /\ Http1Next /\ UNCHANGED <<http2Vars, protocol>>
  \/ protocol = "http2" /\ Http2Next /\ UNCHANGED <<http1Vars, protocol>>

HttpSpec == HttpInit /\ [][HttpNext]_<<http1Vars, http2Vars, protocol>> /\ Http1Fairness
=============================================================================
