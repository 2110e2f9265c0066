--------------------------- MODULE GsmHttpClient ---------------------------
(***************************************************************************)
(* The HTTP client of the modem, which speaks HTTP by hand: one exchange   *)
(* at a time, with its request, its header lines, and a body framed by     *)
(* chunks, by a length or by the end of the connection.                    *)
(*                                                                         *)
(* The network hands over any number of bytes at any moment and may break  *)
(* off anywhere.  lerCorpo() is one step per framing byte or block copied, *)
(* because bytes arrive while it runs.  How long a wait lasts is a choice. *)
(*                                                                         *)
(* A header line is what it says (is), its value (n) and its size, the CR  *)
(* counted.  It is read whole, or in pieces when it is as long as the line *)
(* buffer or longer, or when its bytes stop coming for a while.            *)
(***************************************************************************)
EXTENDS ChunkedDecoder, Sequences, SequencesExt

CONSTANTS
    Replies,    \* [lines, wire, body, sound]: what a server may answer
    LineCap,    \* bytes of a header line read at once (159 in the code)
    Blocks,     \* sizes a caller may ask readChunk() for
    ReplyBlock, \* 128 in the code
    ReplyCap,   \* room in the buffer of a reply, NUL included
    ToSend      \* total_len of a streamed request

Least(S) == CHOOSE x \in S : \A y \in S : x <= y

ASSUME SizesAssumption ==
    /\ LineCap \in Nat \ {0} /\ ReplyBlock \in Nat \ {0} /\ ReplyCap \in Nat \ {0}
    /\ Blocks \subseteq Nat \ {0} /\ ToSend \in Nat

Lines == [is: {"status", "length", "chunked", "other", "blank", "rest"}, n: Nat, size: Nat]

(* The first empty line is the end of the headers.                         *)
ASSUME RepliesAssumption ==
    /\ Replies # {}
    /\ \A r \in Replies : /\ r.lines \in Seq(Lines) /\ r.sound \in BOOLEAN
                         /\ r.wire \in Seq(Bytes) /\ r.body \in Seq(Bytes)
                         /\ \A i \in DOMAIN r.lines : r.lines[i].size <= 1 =>
                               r.lines[i].is = "blank" /\ i = Len(r.lines)

VARIABLES
    pc,         \* idle, send, headers, open (download), body (in lerCorpo)
    op,         \* reply (get, postJson, postStream), download
    sent,       \* enviados
    lines,      \* header lines not yet read
    first,      \* primeira: the status line is next
    status, length, chunked, dec, recebido,
    wire, arrived, pos,   \* bytes after the headers: sent, received, read
    closed,     \* no more bytes will arrive
    block,      \* cap of the call in progress
    piece,      \* what this call of lerCorpo() has copied
    out,        \* what the caller has got so far
    result,     \* how the exchange ended
    reply,      \* observation only: what the server answers
    cut,        \* observation only: a header line was read in pieces
    astray      \* observation only: they ended before the empty line did

httpVars == <<status, length, chunked, dec, recebido>>
netVars  == <<wire, arrived, pos, closed>>
vars     == <<pc, op, sent, lines, first, httpVars, netVars, block, piece, out,
              result, reply, cut, astray>>

Results == {"none", "Ok", "Eof", "Transport", "Timeout", "BadStatus"}

TypeOK ==
    /\ pc \in {"idle", "send", "headers", "open", "body"}
    /\ op \in {"reply", "download"} /\ first \in BOOLEAN
    /\ sent \in Nat /\ status \in Nat /\ length \in Nat /\ chunked \in BOOLEAN
    /\ dec \in Decoders /\ recebido \in Nat
    /\ arrived \in 0..Len(wire) /\ pos \in 0..arrived /\ closed \in BOOLEAN
    /\ block \in Blocks \cup {ReplyBlock} /\ Len(piece) <= block
    /\ result \in Results /\ reply \in Replies
    /\ cut \in BOOLEAN /\ astray \in BOOLEAN

Init ==
    /\ pc = "idle" /\ op = "reply" /\ sent = 0
    /\ lines = <<>> /\ first = TRUE
    /\ status = 0 /\ length = 0 /\ chunked = FALSE /\ dec = Fresh /\ recebido = 0
    /\ wire = <<>> /\ arrived = 0 /\ pos = 0 /\ closed = FALSE
    /\ block = ReplyBlock /\ piece = <<>> /\ out = <<>>
    /\ result = "none" /\ reply = (CHOOSE r \in Replies : TRUE)
    /\ cut = FALSE /\ astray = FALSE

-----------------------------------------------------------------------------
(* The request.                                                            *)

Available == arrived - pos

(* Every way out but an open download gives the link back (CellularDevice  *)
(* follows the lease).                                                     *)
Finish(r) ==
    /\ pc' = "idle" /\ result' = r
    /\ UNCHANGED <<op, sent, lines, first, block, reply, cut, astray>>

(* separar(), abrir() and the head of the request.  A URL that cannot be   *)
(* fetched, a link that is not there and a server that does not answer     *)
(* leave everything as it was.  postStream sends block by block first.     *)
Begin ==
    /\ pc = "idle"
    /\ \/ op' = "download" /\ pc' = "headers"
       \/ op' = "reply" /\ pc' \in {"send", "headers"}
    /\ reply' \in Replies /\ lines' = reply'.lines /\ first' = TRUE
    /\ sent' = 0 /\ wire' = reply'.wire /\ arrived' = 0 /\ pos' = 0 /\ closed' = FALSE
    /\ status' = 0 /\ length' = 0 /\ chunked' = FALSE /\ dec' = Fresh /\ recebido' = 0
    /\ block' = ReplyBlock /\ piece' = <<>> /\ out' = <<>> /\ result' = "none"
    /\ cut' = FALSE /\ astray' = FALSE

(* postStream: a block of the caller's body.                               *)
SendBlock ==
    /\ pc = "send" /\ sent < ToSend
    /\ \E n \in 1..2 : sent' = sent + n
    /\ UNCHANGED <<pc, op, lines, first, httpVars, netVars, block, piece, out,
                   result, reply, cut, astray>>

(* The caller ran out early, reported an error, sent too much, or the      *)
(* modem did not take it all.                                              *)
SendFails ==
    /\ pc = "send"
    /\ Finish("Transport") /\ UNCHANGED <<httpVars, netVars, piece, out>>

(* All of it is sent: the counter has done its work.                       *)
SendDone ==
    /\ pc = "send" /\ sent = ToSend
    /\ pc' = "headers" /\ sent' = 0
    /\ UNCHANGED <<op, lines, first, httpVars, netVars, block, piece, out,
                   result, reply, cut, astray>>

-----------------------------------------------------------------------------
(* lerCabecalhos.                                                          *)

(* Bytes of header lines that are left to be read as a body.               *)
BytesOf(l) == [i \in 1..(l.size + 1) |->
                  IF i = l.size + 1 THEN "lf" ELSE IF i = l.size THEN "cr" ELSE "x"]

(* Those of the last lines, one more at a time.                            *)
Unread(ls) ==
    LET last[i \in 0..Len(ls)] ==
            IF i = 0 THEN <<>> ELSE BytesOf(ls[Len(ls) + 1 - i]) \o last[i - 1]
    IN last[Len(ls)]

(* readBytesUntil(): how many bytes one read takes of a line, the LF       *)
(* counted.  It ends with the line, with the buffer, or wherever no byte   *)
(* comes for a while; only the first is sure to be there.                  *)
Reads(l) ==
    {k \in 1..LineCap : k <= l.size} \cup (IF l.size < LineCap THEN {l.size + 1} ELSE {})

Whole(l, k) == k = l.size + 1

(* What a read of k bytes leaves of a line, the LF at least.               *)
RestOf(l, k) ==
    IF Whole(l, k) THEN <<>> ELSE <<[is |-> "rest", n |-> 0, size |-> l.size - k]>>

(* What a number may be read as when its last digits are missing.          *)
FirstDigits(n) == {p \in 0..n : p = 0 \/ \E i \in 0..9 : p = n \div 10^i}

StatusLine ==
    /\ pc = "headers" /\ lines # <<>> /\ first
    /\ LET l == Head(lines)
       IN \E k \in Reads(l) :
            /\ l.is = "status"
            /\ status' \in IF Whole(l, k) THEN {l.n} ELSE FirstDigits(l.n)
            /\ lines' = RestOf(l, k) \o Tail(lines) /\ cut' = (cut \/ ~Whole(l, k))
    /\ first' = FALSE
    /\ UNCHANGED <<pc, op, sent, length, chunked, dec, recebido, netVars, block,
                   piece, out, result, reply, astray>>

(* A first line without a space in it, or read up to there only.           *)
NoStatus ==
    /\ pc = "headers" /\ lines # <<>> /\ first
    /\ LET l == Head(lines) IN l.is = "status" => \E k \in Reads(l) : ~Whole(l, k)
    /\ Finish("BadStatus") /\ UNCHANGED <<httpVars, netVars, piece, out>>

(* An empty line, or a CR alone: of a line that holds no more than this,   *)
(* whether or not its LF is there.                                         *)
Blank(l) == l.size <= 1

(* What k bytes of a line may tell of a length, and of chunks.             *)
LengthRead(l, k) ==
    IF l.is # "length" THEN {length}
    ELSE IF Whole(l, k) THEN {l.n} ELSE {length} \cup FirstDigits(l.n)

ChunkedRead(l, k) ==
    IF l.is # "chunked" THEN {chunked}
    ELSE IF Whole(l, k) THEN {TRUE} ELSE {chunked, TRUE}

HeaderLine ==
    /\ pc = "headers" /\ lines # <<>> /\ ~first /\ ~Blank(Head(lines))
    /\ LET l == Head(lines)
       IN \E k \in Reads(l) :
            /\ length' \in LengthRead(l, k) /\ chunked' \in ChunkedRead(l, k)
            /\ lines' = RestOf(l, k) \o Tail(lines) /\ cut' = (cut \/ ~Whole(l, k))
    /\ UNCHANGED <<pc, op, sent, first, status, dec, recebido, netVars, block,
                   piece, out, result, reply, astray>>

Accepted == op = "download" => status \in {200, 206}

(* The end of the headers.  A download is only opened; a reply is read.    *)
(* What is left of them, an LF that came late for one, is read as body.    *)
EndOfHeaders ==
    /\ pc = "headers" /\ lines # <<>> /\ ~first /\ Blank(Head(lines))
    /\ Accepted
    /\ pc' = IF op = "download" THEN "open" ELSE "body"
    /\ \E k \in Reads(Head(lines)) :
          LET left == RestOf(Head(lines), k) \o Tail(lines)
          IN /\ astray' = (left # <<>>) /\ wire' = Unread(left) \o wire
             /\ cut' = (cut \/ ~Whole(Head(lines), k))
    /\ lines' = <<>>
    /\ UNCHANGED <<op, sent, first, httpVars, arrived, pos, closed, block, piece,
                   out, result, reply>>

Refused ==
    /\ pc = "headers" /\ lines # <<>> /\ ~first /\ Blank(Head(lines)) /\ ~Accepted
    /\ Finish("BadStatus") /\ UNCHANGED <<httpVars, netVars, piece, out>>

(* The connection breaks off, or twenty seconds pass.                      *)
HeadersFail ==
    /\ pc = "headers"
    /\ \E r \in {"Transport", "Timeout"} : Finish(r)
    /\ UNCHANGED <<httpVars, netVars, piece, out>>

-----------------------------------------------------------------------------
(* The network.                                                            *)

Arrive ==
    /\ pc \in {"open", "body"} /\ ~closed /\ arrived < Len(wire)
    /\ arrived' \in {arrived + 1, Len(wire)}
    /\ UNCHANGED <<pc, op, sent, lines, first, httpVars, wire, pos, closed, block,
                   piece, out, result, reply, cut, astray>>

Close ==
    /\ pc \in {"open", "body"} /\ ~closed
    /\ closed' = TRUE
    /\ UNCHANGED <<pc, op, sent, lines, first, httpVars, wire, arrived, pos, block,
                   piece, out, result, reply, cut, astray>>

-----------------------------------------------------------------------------
(* lerCorpo.                                                               *)

LoopVars == <<pc, op, sent, lines, first, status, length, chunked, wire, arrived,
              closed, block, out, result, reply, cut, astray>>

(* fim: the body has ended by its framing.                                 *)
Ended ==
    IF chunked THEN dec.phase \in {"Done", "Invalid"}
               ELSE length > 0 /\ recebido >= length

Reading == pc = "body" /\ Len(piece) < block /\ ~Ended /\ Available > 0

FeedByte ==
    /\ Reading /\ chunked /\ dec.phase # "Data"
    /\ dec' = Feed(dec, wire[pos + 1]) /\ pos' = pos + 1
    /\ UNCHANGED <<recebido, piece, LoopVars>>

(* Mutant: the room left is that of the whole block.                       *)
WholeBlock == {block, Available}
              \cup (IF chunked THEN {dec.remaining}
                    ELSE IF length > 0 THEN {length - recebido} ELSE {})

(* What bounds a block: room, bytes at hand, what is left by the framing.  *)
Limits ==
    {block - Len(piece), Available}
    \cup (IF chunked THEN {dec.remaining}
          ELSE IF length > 0 THEN {length - recebido} ELSE {})

TakeData ==
    /\ Reading /\ (chunked => dec.phase = "Data")
    /\ LET n == Least(Limits)
       IN /\ piece' = piece \o SubSeq(wire, pos + 1, pos + n)
          /\ pos' = pos + n /\ recebido' = recebido + n
          /\ dec' = IF chunked THEN ConsumeData(dec, n) ELSE dec
    /\ UNCHANGED LoopVars

(* It returns when the block is full, the body has ended, or no byte is at *)
(* hand.                                                                   *)
Returns == pc = "body" /\ (Len(piece) >= block \/ Ended \/ Available = 0)

Fim == Ended /\ Len(piece) < block

Over == piece = <<>> /\ closed /\ Available = 0

-----------------------------------------------------------------------------
(* lerResposta: what does not fit is dropped, but read to the end.  A body *)
(* that breaks off is a reply all the same.                                *)

Kept == SubSeq(out \o piece, 1, Least({ReplyCap - 1, Len(out \o piece)}))

ReplyGoesOn ==
    /\ Returns /\ op # "download" /\ ~Fim /\ ~Over
    /\ out' = Kept /\ piece' = <<>>
    /\ piece # <<>> \/ Available > 0 \/ closed
    /\ UNCHANGED <<pc, op, sent, lines, first, httpVars, netVars, block, result,
                   reply, cut, astray>>

(* Ended, broken off, or thirty seconds over.                              *)
ReplyDone ==
    /\ Returns /\ op # "download"
    /\ out' = Kept /\ piece' = <<>>
    /\ Finish("Ok") /\ UNCHANGED <<httpVars, netVars>>

-----------------------------------------------------------------------------
(* readChunk.                                                              *)

ReadChunk ==
    /\ pc = "open" /\ result = "none"
    /\ pc' = "body" /\ block' \in Blocks /\ piece' = <<>>
    /\ UNCHANGED <<op, sent, lines, first, httpVars, netVars, out, result, reply,
                   cut, astray>>

Broken == chunked /\ dec.phase = "Invalid"

(* Mutant: a connection that closes is the end of the body.                *)
CloseIsEnd == TRUE

(* Without a size, the end of the connection is the end of the body.       *)
Undeclared == ~chunked /\ length = 0

(* What a call answers; the bytes of a broken body are not handed over.    *)
Answer(r, o) ==
    /\ Returns /\ op = "download"
    /\ pc' = "open" /\ result' = r /\ out' = o /\ piece' = <<>>
    /\ UNCHANGED <<op, sent, lines, first, httpVars, netVars, block, reply, cut, astray>>

ChunkBroken == Broken /\ Answer("Transport", out)

ChunkRead == ~Broken /\ piece # <<>> /\ Answer("none", out \o piece)

ChunkEof == ~Broken /\ piece = <<>> /\ Fim /\ Answer("Eof", out)

ChunkClosed ==
    /\ ~Broken /\ ~Fim /\ Over
    /\ Answer(IF Undeclared THEN "Eof" ELSE "Transport", out)

Waiting == ~Broken /\ piece = <<>> /\ ~Fim /\ ~Over

ChunkWouldBlock == Waiting /\ Answer("none", out)

(* Mutant: the time is looked at when the connection is gone.              *)
OnceClosed == Waiting /\ closed

(* Nothing for thirty seconds.                                             *)
IdleTooLong == Waiting

ChunkTimeout == IdleTooLong /\ Answer("Timeout", out)

(* endDownload(): when the download is over, or given up.                  *)
EndDownload ==
    /\ pc = "open"
    /\ pc' = "idle"
    /\ UNCHANGED <<op, sent, lines, first, httpVars, netVars, block, piece, out, result,
                   reply, cut, astray>>

-----------------------------------------------------------------------------
Headers == StatusLine \/ NoStatus \/ HeaderLine \/ EndOfHeaders \/ Refused
Corpo   == FeedByte \/ TakeData
Chunk   == ChunkBroken \/ ChunkRead \/ ChunkEof \/ ChunkClosed \/ ChunkWouldBlock

Next ==
    \/ Begin \/ SendBlock \/ SendFails \/ SendDone
    \/ Headers \/ HeadersFail
    \/ Arrive \/ Close
    \/ Corpo \/ ReplyGoesOn \/ ReplyDone
    \/ ReadChunk \/ Chunk \/ ChunkTimeout \/ EndDownload

Spec == Init /\ [][Next]_vars

(* A call runs until it returns, its waits end, and a caller reads on and  *)
(* ends what is over.  Nothing is assumed of the network or the server.    *)
FairSpec ==
    /\ Spec
    /\ WF_vars(SendBlock \/ SendFails \/ SendDone)
    /\ WF_vars(Headers \/ HeadersFail)
    /\ WF_vars(Corpo \/ Chunk) /\ SF_vars(ChunkTimeout) /\ SF_vars(ReplyDone)
    /\ WF_vars(ReadChunk)
    /\ WF_vars(result # "none" /\ EndDownload)

-----------------------------------------------------------------------------
(* The framing a reply declares: chunks, or else the last length it names. *)
InChunks(r) == \E i \in DOMAIN r.lines : r.lines[i].is = "chunked"

Declared(r) ==
    LET named == {i \in DOMAIN r.lines : r.lines[i].is = "length"}
    IN IF named = {} THEN 0 ELSE r.lines[Max(named)].n

Declares(r) == InChunks(r) \/ Declared(r) > 0

(* Each header line was read in one piece, or still so that the client     *)
(* knows the framing they declare and where they end.                      *)
Understood ==
    cut => /\ ~astray
           /\ chunked = InChunks(reply) /\ length = Declared(reply)

(* What a caller is given is the body the server sent, from its first byte *)
(* on, however its bytes arrive and the chunks are cut; nothing of the     *)
(* framing, nothing past the end, nothing after framing that is wrong      *)
(* (lerCorpo, ChunkedDecoder).  This, if the headers were understood.      *)
BodyIsWhatWasSent == Understood => IsPrefix(out, reply.body)

(* Eof is the end of the body: a connection that breaks off must not make  *)
(* a short image look complete, unless the server declares no size         *)
(* (readChunk) or what it declares was not understood.                     *)
EofMeansWhole ==
    result = "Eof" /\ Understood /\ (Declares(reply) \/ arrived = Len(wire)) =>
        out = reply.body /\ reply.sound

(* Every exchange comes to an end, whatever the network does.              *)
ExchangeEnds == (pc # "idle") ~> (pc = "idle")
=============================================================================
