------------------------------ MODULE MCTcpServe -------------------------------
(* Profiles after the shipped ones: silent, echo, a server with a banner that  *)
(* answers its first request and hangs up on another, dns, and a banner that   *)
(* hangs up.                                                                    *)
EXTENDS TcpServe

Rule(when, kind, close) == [when |-> when, kind |-> kind, close |-> close]

Silent == [on_connect |-> NoRule, rules |-> <<>>]
Echo == [on_connect |-> NoRule, rules |-> <<Rule("any", "echo", FALSE)>>]
Server == [on_connect |-> Rule("connect", "fixed", FALSE),
           rules |-> <<Rule("some", "fixed", TRUE), Rule("first", "echo", FALSE),
                       Rule("some", "silent", TRUE)>>]
Dns == [on_connect |-> NoRule,
        rules |-> <<Rule("some", "dns", FALSE), Rule("any", "echo", TRUE)>>]
Goodbye == [on_connect |-> Rule("connect", "fixed", TRUE), rules |-> <<>>]

MCProfiles == {Silent, Echo, Server, Dns, Goodbye}
=============================================================================
