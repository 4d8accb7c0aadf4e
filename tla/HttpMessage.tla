---------------------------- MODULE HttpMessage ----------------------------
(***************************************************************************)
(* Request::from_string and Response::from_string (prelude.rs), and what   *)
(* entry makes of a request (http_proxy.rs:57-73).                         *)
(*                                                                         *)
(* A text is the sequence of lines that str::lines() gives.  A line is     *)
(* abstracted to a record of what the parsers look at:                     *)
(*   first  its first word, as written                                     *)
(*   words  how many words it has                                          *)
(*   url    its second word, split at colons                               *)
(*   host   if it starts with "host:" in any case, the trimmed rest, split *)
(*          at colons (at least one part); else <<>>                       *)
(*   text   it is valid UTF-8                                              *)
(* Words are taken to be separated by single spaces, where split(" ") and  *)
(* split_whitespace() agree.                                               *)
(***************************************************************************)
EXTENDS Naturals, Sequences

CONSTANTS
  Lines,  \* the lines that occur
  Blank,  \* the empty one
  Upper,  \* to_uppercase() on first words
  Cuts    \* what is left of a line that a read ends within

ASSUME LineAssumption ==
  /\ Blank \in Lines
  /\ \A l \in Lines : /\ DOMAIN l = {"first", "words", "url", "host", "text"}
                      /\ l.words \in Nat
                      /\ l.text \in BOOLEAN
                      /\ l.first \in DOMAIN Upper
  /\ Blank.host = <<>> /\ Blank.text
  /\ Cuts \in [Lines -> SUBSET (Lines \ {Blank})]

-----------------------------------------------------------------------------
Methods == {"GET", "POST", "PUT", "DELETE", "HEAD", "OPTIONS", "CONNECT",
            "PATCH", "TRACE"}

(* Request::default().                                                     *)
DefaultRequest ==
  [method |-> "GET", url |-> <<>>, headers |-> <<>>, body |-> <<>>, host |-> <<>>]

(* Method::from_str.                                                       *)
KnownMethod(word) == Upper[word] \in Methods

(* Variant of BlankAt: the last empty line.                                *)
BlankAtLast(text) ==
  {i \in 2..Len(text) : text[i] = Blank /\ \A j \in (i + 1)..Len(text) : text[j] # Blank}

(* position(is_empty) after the first line: the index of the blank line as *)
(* the only member, or nothing.                                            *)
BlankAt(text) ==
  {i \in 2..Len(text) : text[i] = Blank /\ \A j \in 2..(i - 1) : text[j] # Blank}

HasBlank(text) == BlankAt(text) # {}
Separator(text) == CHOOSE i \in BlankAt(text) : TRUE

Headers(text) == SubSeq(text, 2, Separator(text) - 1)

(* Variant of Body: the separator is taken along.                          *)
BodyFromBlank(text) ==
  IF text[1].first = "CONNECT" THEN <<>>
  ELSE SubSeq(text, Separator(text), Len(text))

(* A CONNECT, spelled so, has no body; nothing may follow the separator.   *)
Body(text) ==
  IF text[1].first = "CONNECT" THEN <<>>
  ELSE SubSeq(text, Separator(text) + 1, Len(text))

(* find(starts_with("host:")) in the headers.                              *)
HostAt(headers) ==
  {i \in 1..Len(headers) :
     headers[i].host # <<>> /\ \A j \in 1..(i - 1) : headers[j].host = <<>>}

(* from_utf8, and every `unwrap` and index of from_string; its None is     *)
(* unwrapped by each caller as well.  An empty text has the first line     *)
(* "NULL", and no line after it.                                           *)
ParsesRequest(text) ==
  /\ \A i \in 1..Len(text) : text[i].text
  /\ text # <<>> /\ text[1] # Blank
  /\ HasBlank(text)
  /\ HostAt(Headers(text)) # {}
  /\ KnownMethod(text[1].first)
  /\ text[1].words >= 3

(* Request::from_string of a text that parses.                             *)
RequestFromString(text) ==
  LET headers == Headers(text)
  IN [method |-> Upper[text[1].first],
      url |-> text[1].url,
      headers |-> headers,
      body |-> Body(text),
      host |-> headers[CHOOSE i \in HostAt(headers) : TRUE].host]

(* Response::from_string gives Ok: an empty text does, a status line needs *)
(* a code.  from_utf8_lossy has made text of any bytes.                    *)
ParsesResponse(text) == text # <<>> => text[1].words >= 2

-----------------------------------------------------------------------------
(* The host and the port to connect to.  A CONNECT url without a port      *)
(* panics; a Host with more than one colon leaves an empty host.           *)
HasDestination(request) == request.method = "CONNECT" => Len(request.url) >= 2

Destination(request) ==
  LET parts == IF request.method = "CONNECT" THEN request.url ELSE request.host
  IN IF request.method = "CONNECT" \/ Len(parts) = 2 THEN <<parts[1], parts[2]>>
     ELSE IF Len(parts) = 1 THEN <<parts[1], "80">>
     ELSE <<"", "80">>

-----------------------------------------------------------------------------
(* What a read may return of a text of which `sent` lines have arrived: n  *)
(* whole lines, and possibly a part of the next one.                       *)
ReadsOf(text, sent) ==
  {SubSeq(text, 1, n) : n \in 0..sent} \cup
  UNION {{Append(SubSeq(text, 1, n), part) : part \in Cuts[text[n + 1]]} :
           n \in 0..(sent - 1)}

(* A request without its body.                                             *)
WithoutBody(request) ==
  [method |-> request.method, url |-> request.url,
   headers |-> request.headers, host |-> request.host]

(* The first line, headers, separator and body of the request are the text *)
(* it was parsed from; a CONNECT accounts for the front of it only.        *)
PartsMakeText(request, text) ==
  LET front == <<text[1]>> \o request.headers \o <<Blank>>
  IN /\ \A i \in 1..Len(request.headers) : request.headers[i] # Blank
     /\ IF text[1].first = "CONNECT"
        THEN SubSeq(text, 1, Len(front)) = front /\ request.body = <<>>
        ELSE text = front \o request.body
=============================================================================
