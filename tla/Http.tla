-------------------------------- MODULE Http --------------------------------
(***************************************************************************)
(* The HTTP client (http/http.c, http/https.c): one request, from the      *)
(* connection to the callback, and the parser of its response, which works *)
(* on what the buffered reader happens to have.  The functions of the      *)
(* parser call one another in tail position; each is a step, and hpc names *)
(* the one to run, or "loop" when the event loop runs.                     *)
(*                                                                         *)
(* A response is a sequence of units.  The ends of lines are two units, so *)
(* that they arrive in pieces; a status line with its headers is one unit  *)
(* that says what gotheaders will find in them, and so is the number of a  *)
(* chunk.  The reader, the writer and the connection are external here     *)
(* (NetbufRead, NetbufWrite, NetworkConnect, NetworkSSL model them).       *)
(***************************************************************************)
EXTENDS Null, Integers, SequencesExt

CONSTANTS
  Responses,     \* what the server may send
  MaxRLens,      \* the values of maxrlen
  MAXHDR,        \* the largest header
  MAXCHLEN,      \* the longest line before a chunk
  READMAX,       \* how much of a body is waited for at once (1 MB)
  HTTP_SIZE_MAX  \* SIZE_MAX

ASSUME HttpAssumption ==
  /\ {MAXHDR, MAXCHLEN, READMAX, HTTP_SIZE_MAX} \cup MaxRLens \subseteq Nat
  /\ READMAX > 0 /\ \A n \in MaxRLens : n <= HTTP_SIZE_MAX
  /\ MAXHDR > 4 /\ MAXCHLEN > 2     \* room for an empty head, for the line of a chunk
  /\ \A r \in Responses :
       /\ r.interim \in Nat /\ r.parts \in Seq(Nat \ {0})
       /\ \/ r.enc \in {"clen", "toeof", "chunked", "badchunk", "longline"}
          \/ r.enc \in {"bad", "badclen", "204", "longhdr"} /\ r.parts = <<>>

Unit(t, n) == [t |-> t, n |-> n]
CR == Unit("cr", 0)
LF == Unit("lf", 0)

VARIABLES
  resp,     \* the response of the server
  stream,   \* its bytes
  got, pos, \* how much of it the reader has got, and how much was consumed
  wait,     \* netbuf_read_wait: the length and the callback, or NULL
  h, h0,    \* the HTTP cookie, or NULL, and what it was at first
  hpc,      \* the function to run next
  hstatus,  \* its status argument
  handles,     \* the connection attempt, socket, SSL context, reader and writer that exist
  answer,   \* what the callback was given, or NULL
  hopen,    \* history: the request was started and has not ended
  fault     \* history: a connection, allocation, read or write failed

httpvars == <<resp, stream, got, pos, wait, h, h0, hpc, hstatus, handles, answer, hopen, fault>>

Handles == {"connect_cookie", "s", "ssl", "R", "W"}
Parser == {"callback_connected", "callback_read_header", "gotheaders",
           "callback_readdata", "callback_chunkedheader", "callback_read_toeof"}
Waits == {"callback_read_header", "callback_readdata",
          "callback_chunkedheader", "callback_read_toeof"}

(* The server puts the data 1 .. n into a response: so many interim         *)
(* responses, a head, and the body in parts of given lengths, of which the  *)
(* first i have Upto(parts)[i] units.  "badchunk" and "longline" are        *)
(* chunked responses with an invalid and an endless line for a chunk,       *)
(* "longhdr" is a head without end.                                         *)
Data(lo, n) == [i \in 1 .. n |-> Unit("data", lo + i)]
Upto(parts) ==
  LET sum[i \in 0 .. Len(parts)] == IF i = 0 THEN 0 ELSE sum[i - 1] + parts[i] IN sum
Total(parts) == Upto(parts)[Len(parts)]
HeadOf(t, n) == <<Unit(t, n), CR, LF, CR, LF>>
Interim == <<Unit("1xx", 0), Unit("data", 0), CR, LF, CR, LF>>
Chunks(parts) ==
  FlattenSeq([i \in DOMAIN parts |->
    <<Unit("chunk", parts[i]), CR, LF>> \o Data(Upto(parts)[i - 1], parts[i]) \o <<CR, LF>>])

Body(r) ==
  CASE r.enc \in {"clen", "toeof"} -> Data(0, Total(r.parts))
    [] r.enc = "chunked" -> Chunks(r.parts) \o <<Unit("chunk", 0), CR, LF, CR, LF>>
    [] r.enc = "badchunk" -> Chunks(r.parts) \o <<Unit("data", 0), CR, LF>>
    [] r.enc = "longline" -> Chunks(r.parts) \o Data(0, MAXCHLEN)
    [] OTHER -> <<>>

Bytes(r) ==
  FlattenSeq([i \in 1 .. r.interim |-> Interim])
    \o (IF r.enc = "longhdr" THEN Data(0, MAXHDR + 1)
        ELSE HeadOf(IF r.enc \in {"badchunk", "longline"} THEN "chunked" ELSE r.enc, Total(r.parts)))
    \o Body(r)

(* What the callback is to be given. *)
Answer(kind, body) == [kind |-> kind, body |-> body]
Meaning(r, max, ishead) ==
  IF r.enc \in {"bad", "longhdr"} THEN Answer("fail", <<>>)
  ELSE IF ishead \/ r.enc = "204" THEN Answer("ok", <<>>)
  ELSE IF Total(r.parts) > max \/ (r.enc \notin {"clen", "toeof"} /\
            \E i \in DOMAIN r.parts : r.parts[i] > HTTP_SIZE_MAX - 2) THEN Answer("toobig", <<>>)
  ELSE IF r.enc \in {"badclen", "badchunk", "longline"} THEN Answer("fail", <<>>)
  ELSE Answer("ok", Data(0, Total(r.parts)))

HttpInit ==
  /\ resp \in Responses /\ stream = Bytes(resp)
  /\ got = 0 /\ pos = 0 /\ wait = NULL /\ h = NULL /\ h0 = NULL
  /\ hpc = "none" /\ hstatus = 0 /\ handles = {} /\ answer = NULL
  /\ hopen = FALSE /\ fault = FALSE

HttpTypeOK ==
  /\ resp \in Responses /\ pos \in 0 .. got /\ got \in 0 .. Len(stream)
  /\ wait = NULL \/ (wait.cb \in Waits /\ wait.len \in Nat)
  /\ h # NULL => h.has \subseteq Handles /\ h.max \in MaxRLens
  /\ hpc \in {"none", "loop", "callback", "die", "over", "abort"} \cup Parser
  /\ hstatus \in -1 .. 1 /\ handles \subseteq Handles
  /\ hopen \in BOOLEAN /\ fault \in BOOLEAN

(* netbuf_read_peek. *)
Buf == SubSeq(stream, pos + 1, got)
avail == got - pos

OccursAt(s, p, i) == i + Len(p) - 1 <= Len(s) /\ SubSeq(s, i, i + Len(p) - 1) = p
----------------------------------------------------------------------------
(* http_request2: bake a cookie and start to connect, which may fail. *)
http_request2(max, ishead, ssl) ==
  /\ hpc = "none"
  /\ \/ /\ h' = [has |-> {"connect_cookie"}, max |-> max, ishead |-> ishead, usessl |-> ssl,
                 hepos |-> 0, head |-> NULL, chunked |-> FALSE, readlen |-> 0,
                 body |-> <<>>, alloc |-> 0]
        /\ handles' = {"connect_cookie"} /\ hpc' = "loop" /\ hopen' = TRUE
     \/ hpc' = "over" /\ UNCHANGED <<h, handles, hopen>>
  /\ h0' = h'
  /\ UNCHANGED <<resp, stream, got, pos, wait, hstatus, answer, fault>>

(* http_request_cancel: releases what the cookie has, and the cookie. *)
http_request_cancel ==
  /\ handles' = handles \ h.has
  /\ wait' = (IF "R" \in h.has THEN NULL ELSE wait)
  /\ h' = NULL
  /\ hpc' = "over"

(* Called by the client, at any time before the callback. *)
HttpCancel ==
  /\ hpc = "loop"
  /\ http_request_cancel
  /\ hopen' = FALSE
  /\ UNCHANGED <<resp, stream, h0, got, pos, hstatus, answer, fault>>

(* The second half of fail and http_docallback, once the client has returned. *)
HttpCallbackReturns ==
  /\ hpc = "callback"
  /\ http_request_cancel
  /\ UNCHANGED <<resp, stream, h0, got, pos, hstatus, answer, hopen, fault>>

(* die: the cookie goes and the event loop gets -1, with no callback. *)
die ==
  /\ hpc = "die"
  /\ http_request_cancel
  /\ hopen' = FALSE /\ fault' = TRUE
  /\ UNCHANGED <<resp, stream, h0, got, pos, hstatus, answer>>
----------------------------------------------------------------------------
(* How a function of the parser ends: with a call of the client's function, *)
(* with another function of the parser, or with a wait for more data.       *)
Callback(a) == answer' = a /\ hpc' = "callback" /\ hopen' = FALSE /\ UNCHANGED <<hstatus, wait>>
fail == Callback(Answer("fail", <<>>)) /\ UNCHANGED h
http_docallback(H) == Callback(Answer("ok", H.body)) /\ h' = [H EXCEPT !.body = <<>>]
toobig(H) == Callback(Answer("toobig", <<>>)) /\ h' = [H EXCEPT !.body = <<>>]

GoOn(f, H) == hpc' = f /\ hstatus' = 0 /\ h' = H /\ UNCHANGED <<answer, hopen, wait>>

Await(n, f, H) ==
  /\ h' = H
  /\ \/ wait' = [len |-> n, cb |-> f] /\ hpc' = "loop"
     \/ hpc' = "die" /\ UNCHANGED wait
  /\ UNCHANGED <<hstatus, answer, hopen>>

parservars == <<resp, stream, got, h0, handles, fault>>  \* what the parser does not touch

(* addbody: the body grows, by reallocation, to the limit at most.  The     *)
(* caller is to see to it that the limit is kept.                           *)
NewAlloc(alloc, need, max) ==
  IF need <= alloc THEN alloc ELSE Min({Max({2 * alloc, need}), max})
addbody(b) ==
  [h EXCEPT !.body = @ \o b, !.alloc = NewAlloc(@, Len(h.body \o b), h.max)]
AddbodyAborts(n) == Len(h.body) + n > h.max
----------------------------------------------------------------------------
(* callback_connected: takes the socket, then the SSL context, the reader   *)
(* and the writer, one after the other and as far as it gets, and writes    *)
(* the request.                                                             *)
Opens == IF h.usessl THEN <<"ssl", "R", "W">> ELSE <<"R", "W">>

callback_connected ==
  /\ hpc = "callback_connected"
  /\ UNCHANGED <<resp, stream, h0, got, pos, fault>>
  /\ IF hstatus = -1
     THEN fail /\ UNCHANGED handles
     ELSE \E n \in 0 .. Len(Opens) :
            LET has == {"s"} \cup {Opens[i] : i \in 1 .. n}
                H == [h EXCEPT !.has = has] IN
            /\ handles' = handles \cup has
            /\ \/ GoOn("die", H)
               \/ n = Len(Opens) /\ GoOn("callback_read_header", H)

(* callback_read_header: looks for an empty line from where it left off. *)
callback_read_header ==
  LET ends == {i \in h.hepos .. avail - 4 : OccursAt(Buf, <<CR, LF, CR, LF>>, i + 1)}
      H == [h EXCEPT !.hepos = IF ends # {} THEN Min(ends) ELSE Max({@, avail - 3})]
  IN
  /\ hpc = "callback_read_header"
  /\ IF hstatus # 0 THEN fail
     ELSE IF ends # {} THEN GoOn("gotheaders", H)
     ELSE IF avail > MAXHDR THEN fail
     ELSE Await(avail + 1, "callback_read_header", H)
  /\ UNCHANGED <<parservars, pos>>

(* get_body_gotclen. *)
get_body_gotclen(H, len) ==
  IF len > H.max THEN toobig(H)
  ELSE GoOn("callback_readdata", [H EXCEPT !.readlen = len, !.chunked = FALSE])

(* After the headers were consumed, nothing is known of where the next ones *)
(* end.                                                                     *)
HeadersTaken_keeps_hepos == h
HeadersTaken == [h EXCEPT !.hepos = 0]

(* gotheaders: consumes the headers; what is left to read depends on the    *)
(* status and on two of the headers (http_findheader).                      *)
gotheaders ==
  LET head == stream[pos + 1]
      H == HeadersTaken
  IN
  /\ hpc = "gotheaders"
  /\ pos' = pos + h.hepos + 4
  /\ \/ head.t = "bad" /\ fail
     \/ head.t = "1xx" /\ GoOn("callback_read_header", H)
     \/ head.t \notin {"bad", "1xx"} /\ (h.ishead \/ head.t = "204") /\ http_docallback(H)
     \/ /\ head.t \notin {"bad", "1xx", "204"} /\ ~h.ishead
        /\ CASE head.t = "chunked" -> GoOn("callback_chunkedheader", [H EXCEPT !.chunked = TRUE])
             [] head.t = "clen" -> get_body_gotclen(H, head.n)
             [] head.t = "badclen" -> fail
             [] OTHER -> GoOn("callback_read_toeof", H)
     \/ GoOn("die", H)
  /\ UNCHANGED parservars

(* callback_chunkedheader: a line with the length of a chunk.  The line end *)
(* after the data is read as part of the data.                              *)
callback_chunkedheader ==
  LET eols == {i \in 1 .. avail - 1 : OccursAt(Buf, <<CR, LF>>, i)}
      clen == stream[pos + 1].n
  IN
  /\ hpc = "callback_chunkedheader"
  /\ \/ hstatus # 0 /\ fail /\ UNCHANGED pos
     \/ /\ hstatus = 0 /\ eols # {} /\ stream[pos + 1].t # "chunk"
        /\ fail /\ UNCHANGED pos
     \/ /\ hstatus = 0 /\ eols # {} /\ stream[pos + 1].t = "chunk"
        /\ pos' = pos + Min(eols) + 1
        /\ IF clen = 0 THEN http_docallback(h)
           ELSE IF clen > h.max - Len(h.body) \/ clen > HTTP_SIZE_MAX - 2 THEN toobig(h)
           ELSE GoOn("callback_readdata", [h EXCEPT !.readlen = clen + 2])
     \/ /\ hstatus = 0 /\ eols = {} /\ UNCHANGED pos
        /\ IF avail >= MAXCHLEN THEN fail
           ELSE Await(avail + 1, "callback_chunkedheader", h)
  /\ UNCHANGED parservars

(* A chunk without the line end that was read with it. *)
Stripped_not(b) == b
Stripped(b) == SubSeq(b, 1, Len(b) - 2)

(* callback_readdata: takes what has come of the body or chunk. *)
callback_readdata ==
  LET n == Min({avail, h.readlen})
      H == [addbody(SubSeq(Buf, 1, n)) EXCEPT !.readlen = @ - n]
  IN
  /\ hpc = "callback_readdata"
  /\ IF hstatus # 0 THEN fail /\ UNCHANGED pos
     ELSE IF AddbodyAborts(n) THEN GoOn("abort", h) /\ UNCHANGED pos
     ELSE \/ GoOn("die", h) /\ UNCHANGED pos
          \/ /\ pos' = pos + n
             /\ IF H.readlen > 0 THEN Await(Min({H.readlen, READMAX}), "callback_readdata", H)
                ELSE IF H.chunked
                THEN GoOn("callback_chunkedheader",
                          [H EXCEPT !.body = Stripped(@)])
                ELSE http_docallback(H)
  /\ UNCHANGED parservars

(* callback_read_toeof: takes whatever comes until the connection ends. *)
callback_read_toeof ==
  /\ hpc = "callback_read_toeof"
  /\ \/ hstatus = -1 /\ fail /\ UNCHANGED pos
     \/ hstatus = 1 /\ http_docallback(h) /\ UNCHANGED pos
     \/ hstatus = 0 /\ avail > h.max - Len(h.body) /\ toobig(h) /\ UNCHANGED pos
     \/ /\ hstatus = 0 /\ avail <= h.max - Len(h.body)
        /\ \/ GoOn("die", h) /\ UNCHANGED pos
           \/ pos' = got /\ Await(1, "callback_read_toeof", addbody(Buf))
  /\ UNCHANGED parservars

HttpStep ==
  \/ callback_connected \/ callback_read_header \/ gotheaders
  \/ callback_chunkedheader \/ callback_readdata \/ callback_read_toeof
  \/ die \/ HttpCallbackReturns
----------------------------------------------------------------------------
(* network_connect answers, with a socket or with -1. *)
Connects(ok) ==
  /\ hpc = "loop" /\ "connect_cookie" \in h.has
  /\ h' = [h EXCEPT !.has = {}]
  /\ handles' = (IF ok THEN {"s"} ELSE {})
  /\ hpc' = "callback_connected" /\ hstatus' = (IF ok THEN 0 ELSE -1)
  /\ fault' = (fault \/ ~ok)
  /\ UNCHANGED <<resp, stream, h0, got, pos, wait, answer, hopen>>

(* netbuf_read answers a wait: with data, some more than was asked for      *)
(* perhaps, with the end of the stream, or with a failure.                  *)
ReaderAnswers(status, n) ==
  /\ hpc = "loop" /\ wait # NULL
  /\ hpc' = wait.cb /\ wait' = NULL /\ hstatus' = status
  /\ got' = n
  /\ UNCHANGED <<resp, stream, h0, pos, h, handles, answer, hopen>>

DataComes ==
  /\ wait # NULL
  /\ \E n \in got .. Len(stream) : n - pos >= wait.len /\ ReaderAnswers(0, n)
  /\ UNCHANGED fault
StreamEnds ==
  /\ wait # NULL /\ Len(stream) - pos < wait.len
  /\ ReaderAnswers(1, got)
  /\ fault' = (fault \/ wait.cb # "callback_read_toeof")
ReadFails == ReaderAnswers(-1, got) /\ fault' = TRUE

(* netbuf_write's fail callback, as long as the request is being written. *)
WriteFails ==
  /\ hpc = "loop" /\ "W" \in h.has
  /\ fail /\ fault' = TRUE
  /\ UNCHANGED <<resp, stream, h0, got, pos, handles>>

HttpNext ==
  \/ \E max \in MaxRLens, ishead, ssl \in BOOLEAN : http_request2(max, ishead, ssl)
  \/ HttpCancel \/ HttpStep
  \/ \E ok \in BOOLEAN : Connects(ok)
  \/ DataComes \/ StreamEnds \/ ReadFails \/ WriteFails

(* The parser runs on, a connection attempt ends, and data that the server  *)
(* has sent arrives; the server need never close the connection.            *)
HttpFairness ==
  /\ WF_httpvars(HttpStep)
  /\ WF_httpvars(\E ok \in BOOLEAN : Connects(ok))
  /\ WF_httpvars(DataComes)

HttpSpec == HttpInit /\ [][HttpNext]_httpvars
FairHttpSpec == HttpSpec /\ HttpFairness
----------------------------------------------------------------------------
(* Nothing that the request opened outlives it. *)
HttpReleases == hpc = "over" => handles = {} /\ wait = NULL

(* What the callback is given is what the server sent, however the bytes    *)
(* were cut up on their way: the whole body and nothing else, the word that *)
(* it is larger than maxrlen, which it then is, or no response, after a     *)
(* failure or an invalid response only.  The body always fits its buffer,   *)
(* and everything is released in the end.                                   *)
ResponseRight ==
  /\ HttpTypeOK /\ HttpReleases
  /\ answer # NULL =>
       LET right == Meaning(resp, h0.max, h0.ishead) IN
       answer = right \/ (answer.kind = "fail" /\ fault)
  /\ h # NULL => Len(h.body) <= h.alloc /\ h.alloc <= h.max

(* A response that says where it ends is answered when it has arrived,      *)
(* without waiting for the server to close the connection.                  *)
SaysWhereItEnds ==
  resp.enc # "toeof" \/ Meaning(resp, h0.max, h0.ishead).kind = "toobig"
CompleteAnswered == (hopen /\ SaysWhereItEnds) ~> ~hopen

(* The assertion of addbody (http.c, line 187): the caller makes sure that  *)
(* the maximum length is not exceeded.                                      *)
AddbodyAssertion == hpc # "abort"
=============================================================================
