----------------------------- MODULE MCSession -----------------------------
(* Session over requests that are complete, plain and CONNECT, with and     *)
(* without a body, and over malformed ones.                                 *)
EXTENDS Session

Line(first, words, url, host) ==
  [first |-> first, words |-> words, url |-> url, host |-> host, text |-> TRUE]

MCBlank == Line("", 1, <<>>, <<>>)
Get == Line("GET", 3, <<"/">>, <<>>)
Post == Line("POST", 3, <<"/">>, <<>>)
Connect == Line("CONNECT", 3, <<"a", "443">>, <<>>)
LowerConnect == Line("connect", 3, <<"a", "443">>, <<>>)
NoPort == Line("CONNECT", 3, <<"a">>, <<>>)
Host == Line("Host:", 2, <<"b">>, <<"b">>)
HostPort == Line("host:", 2, <<"b", "81">>, <<"b", "81">>)
HostV6 == Line("Host:", 2, <<"", "", "1">>, <<"", "", "1">>)
Other == Line("x", 1, <<>>, <<>>)
Binary == [Other EXCEPT !.text = FALSE]
Status == Line("HTTP/1.1", 3, <<"200">>, <<>>)
StatusCut == Line("HTTP/1.1", 1, <<>>, <<>>)

MCLines == {MCBlank, Get, Post, Connect, LowerConnect, NoPort, Host, HostPort,
            HostV6, Other, Binary, Status, StatusCut}

MCUpper == [w \in {l.first : l \in MCLines} |->
              CASE w = "connect" -> "CONNECT" [] w = "x" -> "X" [] OTHER -> w]

(* A cut may fall within the bytes of one character.                        *)
MCCuts == [l \in MCLines |->
             CASE l = MCBlank -> {Other}
               [] l = Status -> {Status, StatusCut}
               [] l \in {Other, Binary} -> {l, Binary}
               [] OTHER -> {Other}]

MCMessages ==
  { <<Get, Host, MCBlank>>,
    <<Post, Other, HostPort, MCBlank, Other, MCBlank, Host>>,
    <<Post, HostV6, MCBlank, Binary>>,
    <<Connect, Host, MCBlank, Other>>,
    <<LowerConnect, Host, MCBlank>>,
    <<NoPort, Host, MCBlank>>,
    <<Get, MCBlank, Host>>,
    <<MCBlank, Get>> }

MCAnswers == { <<Status, Other, MCBlank, Other>>, <<MCBlank, Status>> }
=============================================================================
