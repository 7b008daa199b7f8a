----------------------------- MODULE WebRequest -----------------------------
(***************************************************************************)
(* One HTTP request of the web client: the redirects of webclient.cc, the  *)
(* chain of asynchronous operations of http_con.cc with its timeout, and   *)
(* the receiving coroutine of http_source.cc, which decodes the body from  *)
(* reads that split the message anywhere (HttpSource).  Cookies and forms  *)
(* are in WebClient.                                                       *)
(*                                                                         *)
(* An operation is first completed by the network and then handled: a      *)
(* timeout may come in between, when the handler is already queued.        *)
(***************************************************************************)
EXTENDS HttpSource

CONSTANT MaxRedirects   \* MAX_REDIRECT

ASSUME RedirectAssumption == MaxRedirects \in Nat

\* What goes wrong outside of the program.  slow_resolve: the host name is not
\* resolved before the timeout.  early_close: the server closes the connection
\* before the end of a message.
LapseKinds == {"slow_resolve", "early_close"}

VARIABLES
  phase,      \* the operation of the chain that has been started
  result,     \* its result: "pending", "ok", "eof" or "error"
  timer,      \* req_timeout_timer_: "armed", "ready" (handler queued), "off"
  socket,     \* "open" or "closed"
  message,    \* the message of the server
  stream,     \* what of it has not arrived yet
  buf,        \* buf_
  response,   \* response_
  wanted,     \* the last units of response_, which an async_read is filling
  redirects,  \* remaining_redirects
  answer,     \* what the callback of the caller got: "none", "ok", "error"
  lapses      \* history: the lapses there have been so far

sourceVars == <<message, stream, buf, response, wanted>>
vars == <<phase, result, timer, socket, sourceVars, redirects, answer, lapses>>

\* The operations of http_source::transfer, which request_finish answers.
Transfers == {"write", "header", "length", "chunk_size", "chunk", "stream"}
Phases == {"idle", "resolve", "connect", "handshake", "done"} \cup Transfers

\* The server has a message for every request.
Serve ==
  /\ message' \in Messages
  /\ stream' = message'.wire
  /\ buf' = <<>> /\ response' = <<>> /\ wanted' = 0

Init ==
  /\ phase = "idle" /\ result = "pending"
  /\ timer = "off" /\ socket = "closed"
  /\ message \in Messages /\ stream = message.wire
  /\ buf = <<>> /\ response = <<>> /\ wanted = 0
  /\ redirects = MaxRedirects
  /\ answer = "none"
  /\ lapses = {}

\* A new http_con and its operator(): the timer runs, the name is resolved.
Connection ==
  /\ phase' = "resolve" /\ result' = "pending"
  /\ timer' = "armed" /\ socket' = "closed"

\* webclient::request.
Request ==
  /\ phase = "idle"
  /\ Connection
  /\ UNCHANGED <<sourceVars, redirects, answer, lapses>>

-----------------------------------------------------------------------------
\* n units arrive: in the buffer, or in response_ where async_read was told to.
ToBuffer(n) ==
  /\ buf' = buf \o First(stream, n)
  /\ stream' = Rest(stream, n)
  /\ UNCHANGED <<message, response, wanted>>

ToResponse(n) ==
  /\ response' = Filled(response, Len(response) - wanted + 1, First(stream, n))
  /\ stream' = Rest(stream, n)
  /\ wanted' = 0
  /\ UNCHANGED <<message, buf>>

\* What it takes for the operation under way: a header has come when any part of
\* the body has, a size line when the regular expression matches.
Arrives ==
  \/ phase \in {"resolve", "connect", "handshake", "write"} /\ UNCHANGED sourceVars
  \/ phase = "header" /\ \E n \in 0..Len(stream) : ToBuffer(n)
  \/ phase = "chunk_size" /\ \E n \in 1..Len(stream) :
       SizeLine(buf \o First(stream, n)) /\ ToBuffer(n)
  \/ phase \in {"length", "chunk"} /\ Len(stream) >= wanted /\ ToResponse(wanted)
  \/ phase = "stream" /\ \E n \in 1..Len(stream) : ToBuffer(n)

\* The server closes the connection, with a part of what was expected.
Closes ==
  /\ phase \in Transfers
  /\ IF phase \in {"length", "chunk"} THEN \E n \in 0..(wanted - 1) : ToResponse(n)
                                       ELSE UNCHANGED sourceVars
  /\ lapses' = IF phase = "stream" /\ stream = <<>> THEN lapses
                                                    ELSE lapses \cup {"early_close"}

\* The network, or the resolver, completes the operation.
Complete ==
  /\ phase \notin {"idle", "done"} /\ result = "pending"
  /\ \/ result' = "ok" /\ Arrives /\ UNCHANGED lapses
     \/ result' = "error" /\ UNCHANGED <<sourceVars, lapses>>
     \/ result' = "eof" /\ Closes
  /\ UNCHANGED <<phase, timer, socket, redirects, answer>>

\* The time is over.
TimerExpires ==
  /\ timer = "armed"
  /\ timer' = "ready"
  /\ lapses' = IF phase = "resolve" THEN lapses \cup {"slow_resolve"} ELSE lapses
  /\ UNCHANGED <<phase, result, socket, sourceVars, redirects, answer>>

\* timer_callback: closing the socket aborts the operation waiting on it.
TimerCallback ==
  /\ timer = "ready"
  /\ timer' = "off"
  /\ socket' = "closed"
  /\ result' = IF result = "pending" /\ phase \notin {"idle", "resolve", "done"}
               THEN "error" ELSE result
  /\ UNCHANGED <<phase, sourceVars, redirects, answer, lapses>>

-----------------------------------------------------------------------------
\* The next operation of the chain, with b in the buffer.  A size line that is
\* there already needs no socket; anything else fails at once on a closed one.
Then(op, b) ==
  /\ phase' = op
  /\ result' = IF op = "chunk_size" /\ SizeLine(b) THEN "ok"
               ELSE IF socket = "open" THEN "pending" ELSE "error"

\* The caller gets its answer.
Answered(a) ==
  /\ phase' = "done" /\ result' = "pending"
  /\ answer' = a

\* An error before the request could be sent goes to the caller directly: the
\* timer is left running.
NotConnected ==
  /\ Answered("error")
  /\ UNCHANGED <<timer, socket, sourceVars, redirects>>

\* timer.cancel(): a handler that is queued already is executed all the same.
Cancelled == IF timer = "armed" THEN "off" ELSE timer

\* request_finish with an error.
TransferFailed ==
  /\ Answered("error")
  /\ timer' = Cancelled
  /\ UNCHANGED <<socket, sourceVars, redirects>>

\* request_finish without an error or at the end of the file, with the response
\* r, which may not decompress.
Deliver(r) ==
  /\ \E a \in {"ok", "error"} : Answered(a)
  /\ timer' = Cancelled
  /\ response' = r
  /\ UNCHANGED <<socket, message, stream, buf, wanted, redirects>>

\* webclient::request_finish follows the location of the header, if it has got
\* one, as long as it may.
HasHeader == result = "eof" => phase \notin {"write", "header"}

\* Mutant of Respond: the redirects are not counted.
RespondUnlimited(r) ==
  \/ Deliver(r)
  \/ /\ HasHeader
     /\ redirects' = IF redirects > 0 THEN redirects - 1 ELSE MaxRedirects
     /\ Connection /\ Serve
     /\ UNCHANGED answer

Respond(r) ==
  \/ Deliver(r)
  \/ /\ redirects > 0 /\ HasHeader
     /\ redirects' = redirects - 1
     /\ Connection /\ Serve
     /\ UNCHANGED answer

-----------------------------------------------------------------------------
\* http_con::connect: async_connect opens the socket.
OnResolve ==
  /\ phase = "resolve"
  /\ \/ /\ result = "ok"
        /\ phase' = "connect" /\ result' = "pending"
        /\ socket' = "open"
        /\ UNCHANGED <<timer, sourceVars, redirects, answer>>
     \/ /\ result = "error"
        /\ NotConnected

\* http_con::on_connect and on_ssl_handshake.
OnConnect ==
  /\ phase = "connect"
  /\ \/ /\ result = "ok"
        /\ Then("handshake", buf)
        /\ UNCHANGED <<timer, socket, sourceVars, redirects, answer>>
     \/ /\ result = "error"
        /\ NotConnected

\* Mutant of OnHandshake: the timer guards the connection only.
OnHandshakeStopsTimer ==
  /\ phase = "handshake"
  /\ \/ /\ result = "ok"
        /\ Then("write", buf)
        /\ timer' = Cancelled
        /\ UNCHANGED <<socket, sourceVars, redirects, answer>>
     \/ /\ result = "error"
        /\ NotConnected

OnHandshake ==
  /\ phase = "handshake"
  /\ \/ /\ result = "ok"
        /\ Then("write", buf)
        /\ UNCHANGED <<timer, socket, sourceVars, redirects, answer>>
     \/ /\ result = "error"
        /\ NotConnected

-----------------------------------------------------------------------------
\* transfer goes on with another operation: r is the response so far, w units of
\* which are still to be read into it, and b is in the buffer.
Receive(op, r, w, b) ==
  /\ Then(op, b)
  /\ response' = r /\ wanted' = w /\ buf' = b
  /\ UNCHANGED <<timer, socket, message, stream, redirects, answer>>

OnWrite ==
  /\ phase = "write" /\ result = "ok"
  /\ Receive("header", response, wanted, buf)

\* A content-length: what is in the buffer is copied, and cut or filled up.
OnLengthHeader ==
  LET sized == Resized(buf, message.size)
      missing == message.size - Len(buf)
  IN  \/ missing > 0 /\ Receive("length", sized, missing, <<>>)
      \/ missing <= 0 /\ Respond(sized)

\* The header has been read.
OnHeader ==
  /\ phase = "header" /\ result = "ok"
  /\ \/ message.framing = "length" /\ OnLengthHeader
     \/ message.framing = "illegal" /\ TransferFailed
     \/ message.framing = "chunked" /\ Receive("chunk_size", <<>>, 0, buf)
     \/ message.framing = "stream" /\ Receive("stream", buf, 0, <<>>)

\* The rest of the body.
OnLength ==
  /\ phase = "length" /\ result = "ok"
  /\ Respond(response)

\* A chunk size: 0 ends the body.  Of a chunk, what is in the buffer is copied,
\* and the rest is read into the response directly.
OnChunkSize ==
  /\ phase = "chunk_size" /\ result = "ok"
  /\ LET chunk == ChunkIn(buf)
         missing == chunk.size - Len(chunk.buf)
     IN  \/ chunk.size = 0 /\ Respond(response)
         \/ /\ chunk.size > 0 /\ missing <= 0
            /\ Receive("chunk_size", response \o First(chunk.buf, chunk.size), 0,
                       Rest(chunk.buf, chunk.size))
         \/ /\ missing > 0
            /\ Receive("chunk", response \o chunk.buf \o Zeros(missing), missing, <<>>)

OnChunk ==
  /\ phase = "chunk" /\ result = "ok"
  /\ Receive("chunk_size", response, 0, buf)

\* Mutant of OnStream: copy_content does not consume what it has copied.
OnStreamUnconsumed ==
  /\ phase = "stream" /\ result = "ok"
  /\ Receive("stream", response \o buf, 0, buf)

\* More of a body without a length.
OnStream ==
  /\ phase = "stream" /\ result = "ok"
  /\ Receive("stream", response \o buf, 0, <<>>)

\* transfer with an end of file, whatever it was doing.
OnEof ==
  /\ phase \in Transfers /\ result = "eof"
  /\ Respond(response)

\* transfer with an error.
OnTransferError ==
  /\ phase \in Transfers /\ result = "error"
  /\ TransferFailed

-----------------------------------------------------------------------------
Handler == /\ \/ OnResolve \/ OnConnect \/ OnHandshake
              \/ OnWrite \/ OnHeader \/ OnLength \/ OnChunkSize \/ OnChunk
              \/ OnStream \/ OnEof \/ OnTransferError
           /\ UNCHANGED lapses

Resolved == phase = "resolve" /\ Complete

Next == Request \/ Complete \/ TimerExpires \/ TimerCallback \/ Handler

\* Queued handlers are executed, the timer expires, and the resolver gives up
\* some day.  Nothing is assumed of the server.
Fairness ==
  /\ WF_vars(Handler)
  /\ WF_vars(TimerExpires)
  /\ WF_vars(TimerCallback)
  /\ WF_vars(Resolved)

Spec == Init /\ [][Next]_vars /\ Fairness

-----------------------------------------------------------------------------
(***************************************************************************)
(* The caller of a request gets an answer whatever the server does: the    *)
(* timeout ends every operation of the chain, and the redirects are        *)
(* bounded.  (A host name that is resolved too late has used up the        *)
(* timeout before there is a socket to close.)                             *)
(***************************************************************************)
RequestEnds == phase # "idle" ~> phase = "done" \/ "slow_resolve" \in lapses

\* "Callback called by the request timeout timer. Disconnects the socket if the
\* timeout expired." (http_con.h): what waits for the server has a timeout, when
\* host names are resolved in time.
NoUnguardedWait ==
  /\ "slow_resolve" \notin lapses
  /\ phase \notin {"idle", "resolve", "done"} /\ result = "pending"
  => timer # "off"

\* "If the error code is 'Success', the string will contain the response."
\* (http_con.h): the body of the message, all of it and nothing else.
SuccessIsWhole == answer = "ok" => response = Body(message.size)

(***************************************************************************)
(* The same as long as no server closes the connection early: however the  *)
(* reads split the message, the decoder neither loses nor adds, repeats or *)
(* reorders a unit, and no size line or line end gets into the body.       *)
(***************************************************************************)
DeliversWhole == "early_close" \notin lapses => SuccessIsWhole

(***************************************************************************)
(* And if one does, what has been received is still the beginning of the   *)
(* body, followed by the zeros the string was resized with.                *)
(***************************************************************************)
DeliversBeginning ==
  answer = "ok" => \E n \in 0..message.size, z \in 0..message.size :
                     response = Body(n) \o Zeros(z)

-----------------------------------------------------------------------------
(***************************************************************************)
(* The inductive invariant the proofs use (WebRequestProofs).              *)
(***************************************************************************)
ChainType ==
  /\ phase \in Phases
  /\ result \in {"pending", "ok", "eof", "error"}
  /\ timer \in {"armed", "ready", "off"}
  /\ socket \in {"open", "closed"}
  /\ redirects \in 0..MaxRedirects
  /\ answer \in {"none", "ok", "error"}
  /\ lapses \subseteq LapseKinds

SourceType ==
  /\ message \in Messages
  /\ stream \in Seq(Unit)
  /\ buf \in Seq(Unit)
  /\ wanted \in Nat

TypeOK == ChainType /\ SourceType

\* The timeout runs from the start of a connection to its end, unless it is over:
\* then the socket is closed and nothing waits for it.
TimerInv ==
  "slow_resolve" \notin lapses /\ phase \notin {"idle", "done"} =>
    /\ phase = "resolve" => timer = "armed"
    /\ timer = "off" => socket = "closed" /\ result # "pending"

\* A string of k + z units that has the first k units of the body so far.
Padded(k, z) == [x \in 1..(k + z) |-> Data(IF x <= k THEN x ELSE 0)]

\* Ends of the chunks of a body of n units.
Partition(n, ends) == ends \subseteq 1..n /\ (n > 0 => n \in ends)

\* What a finished response is.
Delivered(r) ==
  /\ \E k, z \in 0..message.size : r = Padded(k, z)
  /\ "early_close" \notin lapses => r = Padded(message.size, 0)

\* Nothing of the message has been decoded.
Undecoded ==
  /\ response = <<>> /\ wanted = 0
  /\ buf \o stream = message.wire

\* The units of a body that are still missing come next.
Filling ==
  \E k \in 0..message.size :
    /\ message.size = k + wanted /\ wanted > 0
    /\ response = Padded(k, wanted)
    /\ Len(stream) >= wanted /\ \A x \in 1..wanted : stream[x] = Data(k + x)

\* The units of a chunk that are still missing come next, then its end.
FillingChunk ==
  \E ends \in SUBSET (1..message.size), k, i \in 0..message.size :
    /\ Partition(message.size, ends)
    /\ i = k + wanted /\ wanted > 0
    /\ response = Padded(k, wanted)
    /\ buf = <<>>
    /\ stream = Units(k, wanted) \o (<<Crlf>> \o ChunksFrom(message.size, ends)[i])

\* Some chunks have been decoded; the line end of the last one may still be there.
BetweenChunks ==
  \E ends \in SUBSET (1..message.size), i \in 0..message.size :
    /\ Partition(message.size, ends)
    /\ response = Padded(i, 0)
    /\ \/ buf \o stream = ChunksFrom(message.size, ends)[i]
       \/ buf \o stream = <<Crlf>> \o ChunksFrom(message.size, ends)[i]

\* The rest of a body without a length is what comes.
Streaming ==
  \E k \in 0..message.size :
    /\ response = Padded(k, 0)
    /\ buf \o stream = Units(k, message.size - k)

\* An answer comes with the end of the chain, and an end of file or a success with
\* a response.
AnswerInv ==
  /\ phase # "done" <=> answer = "none"
  /\ result = "eof" => phase \in Transfers /\ Delivered(response)
  /\ answer = "ok" => Delivered(response)

\* What the receiving coroutine has made of the message at each of its waits.
DecoderInv ==
  /\ phase \in {"idle", "resolve", "connect", "handshake", "write", "header"} => Undecoded
  /\ result \in {"pending", "ok"} =>
       /\ phase = "length" => IF result = "ok" THEN response = Padded(message.size, 0)
                                               ELSE Filling
       /\ phase = "chunk_size" => BetweenChunks /\ (result = "ok" => SizeLine(buf))
       /\ phase = "chunk" => IF result = "ok" THEN BetweenChunks ELSE FillingChunk
       /\ phase = "stream" => Streaming /\ (result = "pending" => buf = <<>>)

IInv == TypeOK /\ TimerInv /\ AnswerInv /\ DecoderInv

=============================================================================
