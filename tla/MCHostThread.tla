---------------------------- MODULE MCHostThread ----------------------------
(* Instances of HostThread for TLC.                                        *)
EXTENDS HostThread

\* Three groups of scripts, the middle one empty.
MCGroupSize == <<1, 0, 2>>

MCPorts == <<"22", "110", "443", "8080", "995">>

\* What LoadCredential stored.
MCBefore == [EmptyStorage EXCEPT !["Services/ssh"] = <<"22">>]

\* 22, 443 and 995 fall to one thread, 110 and 8080 to the other.  Two web servers in
\* different threads; a port known under two names; POP servers in different threads,
\* whose banners are stored without the port, so that one replaces the other's.
Call(o, n, v) == [op |-> o, name |-> n, value |-> v]

NVT == Call("replace", "NVT", "detected")

MCFinds ==
    [p \in Range(MCPorts) |->
        CASE p = "22" -> <<NVT, Call("set", "Services/ssh", p)>>
          [] p \in {"110", "995"} -> <<NVT, Call("set", "Services/pop3", ""),
                                     Call("replace", "pop3/banner/", p)>>
          [] p = "8080" -> <<NVT, Call("set", "Services/www", p)>>
          [] OTHER -> <<Call("set", "Services/www", p), Call("replace", "Known/tcp/443", "www"),
                        Call("replace", "Known/tcp/443", "proxy")>>]
=============================================================================
