----------------------------- MODULE FileRelay ------------------------------
(***************************************************************************)
(* The host programs of Etapa2 and the streams between them: `--send`       *)
(* (host/src/sender.c) gives its router frames, one per line of a file or   *)
(* one per message; the listening thread of a router (router/src/router.c,  *)
(* forwarding.c) takes the stream as it comes and passes each DATA frame    *)
(* on; `--listen` (host/src/listener.c) has announced itself and appends    *)
(* the data to its file.                                                    *)
(*                                                                          *)
(* A TCP connection keeps bytes and their order, and nothing else: a recv   *)
(* returns any part of what has arrived, up to the buffer, so it may end    *)
(* within a frame.  When sender and listener have different routers, every  *)
(* frame goes from one to the other on a connection of its own.             *)
(***************************************************************************)
EXTENDS FrameCodec, FiniteSets

CONSTANTS
    Hosts,          \* the host lines of the listener's router, a sequence of addresses
    Sources,        \* what --send may be run with: [kind, text, dest]
    MaxLine,        \* sizeof(line) of sendFile: 900
    MaxCuts         \* bound on the recvs that end within a line

Kinds == {"file",       \* the argument is the name of a readable file, text its content
          "message",    \* it is a message
          "missing"}    \* it ends in .txt and cannot be opened

ASSUME FileRelayAssumption ==
    /\ Hosts \in Seq(Addresses)
    /\ \A s \in Sources : s.kind \in Kinds /\ s.text \in Seq(ToSet(s.text))
    /\ MaxLine \in Nat \ {0, 1}
    /\ MaxCuts \in Nat
    /\ \A ip \in Addresses : Len(FrameText([type |-> "DATA", ip |-> ip, data |-> << >>])) + MaxLine <= BufSize

VARIABLES
    source,         \* the arguments of --send
    host,           \* hostLogicalIp of --listen
    far,            \* does the listener have another router than the sender?
    unread,         \* sender: what fgets has not read yet
    sent,           \* sender: the data handed to encodeFrame and sent
    result,         \* sender: "none", "sending", "ok", "failed"
    up,             \* stream from the sender to its router
    hops,           \* streams from that router to the listener's, one per frame
    listening,      \* has the listener connected?
    hello,          \* stream from the listener to its router
    table,          \* addresses whose route is the listener's socket
    down,           \* stream from the router to the listener
    output,         \* lines of the listener's file
    cuts,           \* recvs that ended within a line
    missed          \* has a frame been dropped for want of a route, a neighbor, a file? (for the properties)

senderVars   == <<unread, sent, result>>
listenerVars == <<listening, output>>
vars         == <<source, host, far, senderVars, up, hops, listenerVars, hello, table, down, cuts, missed>>

\* What may be left of a sequence when any of its elements fail.
PartsOf(s) == {At(s, D) : D \in SUBSET DOMAIN s}

Data(ip, text) == [type |-> "DATA", ip |-> ip, data |-> text]

Init ==
    /\ source \in Sources
    /\ host \in ToSet(Hosts)
    /\ far \in BOOLEAN
    /\ unread = source.text /\ sent = << >> /\ result = "none"
    /\ up = << >> /\ hops = << >> /\ hello = << >> /\ down = << >>
    /\ listening = FALSE /\ table = {} /\ output = << >>
    /\ cuts = 0 /\ missed = FALSE

-----------------------------------------------------------------------------
(* --send.                                                                  *)

\* versionSend, and the connection to the router, which may fail.
Connect ==
    /\ result = "none"
    /\ result' \in IF source.kind = "missing" THEN {"failed"} ELSE {"failed", "sending"}
    /\ UNCHANGED <<source, host, far, unread, sent, up, hops, listenerVars, hello, table, down, cuts, missed>>

\* buildFrame, encodeFrame and send; an address or a size they refuse ends the
\* program.
SendFrame(text, then) ==
    LET frame == Encode(Data(source.dest, text))
    IN  IF frame = << >>
        THEN result' = "failed" /\ UNCHANGED <<up, sent>>
        ELSE up' = up \o frame /\ sent' = Append(sent, text) /\ result' = then

\* sendMessage.
SendMessage ==
    /\ result = "sending" /\ source.kind = "message"
    /\ SendFrame(source.text, "ok")
    /\ UNCHANGED <<source, host, far, unread, hops, listenerVars, hello, table, down, cuts, missed>>

\* Characters that fgets takes: up to a line end, or as the buffer allows.
Fgets == Min({Len(unread), MaxLine - 1} \cup {i \in DOMAIN unread : unread[i] = "LF"})

\* A turn of the loop of sendFile: a line, or a part of a long one, up to the
\* first NUL and without its line end.
SendLine ==
    /\ result = "sending" /\ source.kind = "file" /\ unread # << >>
    /\ unread' = SubSeq(unread, Fgets + 1, Len(unread))
    /\ SendFrame(WithoutEnd(Before(SubSeq(unread, 1, Fgets), "NUL")), "sending")
    /\ UNCHANGED <<source, host, far, hops, listenerVars, hello, table, down, cuts, missed>>

\* The end of the file.  An empty one sends one empty message, and whether
\* that can be sent is not looked at.
EndOfFile ==
    /\ result = "sending" /\ source.kind = "file" /\ unread = << >>
    /\ result' = "ok"
    /\ LET frame == IF sent = << >> THEN Encode(Data(source.dest, << >>)) ELSE << >>
       IN  /\ up' = up \o frame
           /\ sent' = IF frame = << >> THEN sent ELSE << << >> >>
    /\ UNCHANGED <<source, host, far, unread, hops, listenerVars, hello, table, down, cuts, missed>>

-----------------------------------------------------------------------------
(* The routers.                                                             *)

Cut(chunk) == IF Last(chunk) = "LF" THEN 0 ELSE 1

\* What a recv may return of a stream.
Chunks(stream) ==
    {c \in {SubSeq(stream, 1, k) : k \in 1 .. Min({Len(stream), BufSize - 1})} : cuts + Cut(c) <= MaxCuts}

Rest(stream, chunk) == SubSeq(stream, Len(chunk) + 1, Len(stream))

WithoutCR(line) == IF line # << >> /\ Last(line) = "CR" THEN Front(line) ELSE line

\* Mutant of Dispatched: the newline is looked for when the loop has replaced
\* it, so the first line is dispatched again.
DispatchedAgain(chunk) ==
    LET lines == [j \in DOMAIN Lines(chunk) |-> WithoutCR(Lines(chunk)[j])]
    IN  IF lines = << >> THEN <<chunk>> ELSE At(lines, {j \in DOMAIN lines : lines[j] # << >>}) \o <<lines[1]>>

\* The texts that the loop of `listening` gives processPacket: the lines, less
\* one CR each and the empty ones; all of a chunk without any; but nothing of what
\* follows the last line.
Dispatched(chunk) ==
    LET lines == [j \in DOMAIN Lines(chunk) |-> WithoutCR(Lines(chunk)[j])]
    IN  IF lines = << >> THEN <<chunk>> ELSE At(lines, {j \in DOMAIN lines : lines[j] # << >>})

OfType(texts, type) == At(texts, {i \in DOMAIN texts : Decode(texts[i]).type = type})

\* The frame sendFrame makes of a text, or nothing when it does not fit.
Forwarded(text) == IF Len(text) + 1 < BufSize THEN Append(text, "LF") ELSE << >>
AllForwarded(texts) == [i \in DOMAIN texts |-> Forwarded(texts[i])]

\* Mutant of DeliverToHost: the destination is not looked up.
DeliverToAnyone(texts) ==
    /\ down' = IF table = {} THEN down ELSE down \o FlattenSeq(AllForwarded(OfType(texts, "DATA")))
    /\ missed' = (missed \/ (table = {} /\ OfType(texts, "DATA") # << >>))

\* DATA frames at the listener's router: to its socket, or nowhere.  The route of a
\* host that has not announced itself is an interface number, not a socket.
DeliverToHost(texts) ==
    LET frames == OfType(texts, "DATA")
        routed == At(frames, {i \in DOMAIN frames : Decode(frames[i]).ip \in table})
    IN  /\ down' = down \o FlattenSeq(AllForwarded(routed))
        /\ missed' = (missed \/ Len(routed) < Len(frames))

\* DATA frames at the sender's router, when the listener has another one: a
\* connection each, which may fail, and there may be no route yet.
DeliverToNeighbor(texts) ==
    \E routed \in PartsOf(OfType(texts, "DATA")) :
        /\ hops' = hops \o AllForwarded(routed)
        /\ missed' = (missed \/ Len(routed) < Len(OfType(texts, "DATA")))

\* The sender's router reads the sender's connection.
ReadSender ==
    \E chunk \in Chunks(up) :
        /\ up' = Rest(up, chunk)
        /\ cuts' = cuts + Cut(chunk)
        /\ IF far THEN DeliverToNeighbor(Dispatched(chunk)) /\ UNCHANGED down
                  ELSE DeliverToHost(Dispatched(chunk)) /\ UNCHANGED hops
        /\ UNCHANGED <<source, host, far, senderVars, listenerVars, hello, table>>

\* The listener's router reads one of the connections of the other router.
ReadNeighbor ==
    \E i \in DOMAIN hops :
        \E chunk \in Chunks(hops[i]) :
            /\ hops' = IF chunk = hops[i] THEN RemoveAt(hops, i) ELSE [hops EXCEPT ![i] = Rest(@, chunk)]
            /\ cuts' = cuts + Cut(chunk)
            /\ DeliverToHost(Dispatched(chunk))
            /\ UNCHANGED <<source, host, far, senderVars, up, listenerVars, hello, table>>

\* An ANNOUNCE on the listener's connection: its socket becomes the route, and
\* the table is the reply.
ReadListener ==
    \E chunk \in Chunks(hello) :
        LET announces == OfType(Dispatched(chunk), "ANNOUNCE")
            reply == [i \in DOMAIN Hosts |-> FrameText([type |-> "ADVERTISE", ip |-> Hosts[i]])]
        IN  /\ hello' = Rest(hello, chunk)
            /\ cuts' = cuts + Cut(chunk)
            /\ table' = table \cup ({Decode(announces[i]).ip : i \in DOMAIN announces} \cap ToSet(Hosts))
            /\ down' = down \o FlattenSeq([i \in DOMAIN announces |-> FlattenSeq(reply)])
            /\ UNCHANGED <<source, host, far, senderVars, up, hops, listenerVars, missed>>

-----------------------------------------------------------------------------
(* --listen.                                                                *)

\* keepListening connects and announces its address.
Listen ==
    /\ ~ listening
    /\ listening' = TRUE
    /\ hello' = FrameText([type |-> "ANNOUNCE", ip |-> host])
    /\ UNCHANGED <<source, host, far, senderVars, up, hops, table, down, output, cuts, missed>>

\* Mutant of Messages: one line is taken of each recv.
FirstMessage(chunk) ==
    LET frames == OfType(Lines(SubSeq(chunk, 1, SelectInSeq(chunk, LAMBDA c : c = "LF"))), "DATA")
    IN  [i \in DOMAIN frames |-> Decode(frames[i]).data]

\* The data of a chunk's lines; what is not a DATA frame, and what follows the last
\* line, is ignored.
Messages(chunk) ==
    LET frames == OfType(Lines(chunk), "DATA") IN [i \in DOMAIN frames |-> Decode(frames[i]).data]

\* One turn of its loop.  The output file may fail to open for any message.
Hear ==
    \E chunk \in Chunks(down) :
        /\ down' = Rest(down, chunk)
        /\ cuts' = cuts + Cut(chunk)
        /\ \E saved \in PartsOf(Messages(chunk)) :
              /\ output' = output \o saved
              /\ missed' = (missed \/ Len(saved) < Len(Messages(chunk)))
        /\ UNCHANGED <<source, host, far, senderVars, up, hops, listening, hello, table>>

-----------------------------------------------------------------------------
Next ==
    \/ Connect \/ SendMessage \/ SendLine \/ EndOfFile
    \/ ReadSender \/ ReadNeighbor \/ ReadListener
    \/ Listen \/ Hear

Spec == Init /\ [][Next]_vars

-----------------------------------------------------------------------------
(* Properties.                                                              *)

\* The types of the variables; nothing that was sent exceeds a buffer.
TypeOK ==
    /\ source \in Sources /\ host \in ToSet(Hosts) /\ far \in BOOLEAN
    /\ IsSuffix(unread, source.text)
    /\ \A i \in DOMAIN sent : Len(FrameText(Data(source.dest, sent[i]))) < BufSize
    /\ result \in {"none", "sending", "ok", "failed"}
    /\ listening \in BOOLEAN /\ cuts \in 0 .. MaxCuts /\ missed \in BOOLEAN
    /\ table \subseteq ToSet(Hosts)
    /\ \A i \in DOMAIN hops : hops[i] # << >> /\ Len(hops[i]) < BufSize
    /\ \A i \in DOMAIN output : Len(output[i]) < BufSize

\* Wherever the streams are cut, and whatever is dropped, each line of the
\* listener's file is the data of a frame that was sent, or the beginning of
\* one, no frame gives two lines, and within one router the lines keep the order
\* of sending.
Faithful ==
    \E of \in Injection(DOMAIN output, DOMAIN sent) :
        /\ \A i \in DOMAIN output : IsPrefix(output[i], sent[of[i]])
        /\ ~ far => \A i, j \in DOMAIN output : i < j => of[i] < of[j]

\* A text with the line end that its last line may lack, and its lines as an
\* editor shows them.
Ended(text) == IF text # << >> /\ Last(text) = "LF" THEN text ELSE Append(text, "LF")
TextLines(text) ==
    [j \in DOMAIN Lines(Ended(text)) |-> WithoutEnd(Before(Lines(Ended(text))[j], "NUL"))]

Wanted == IF source.kind = "file" THEN TextLines(source.text) ELSE <<WithoutEnd(Before(source.text, "LF"))>>
IsLong(line) == Len(line) + 1 > MaxLine - 1

\* The characters of a text, without CR and LF.
WithoutLineEnds(text) == At(text, {i \in DOMAIN text : Kept(text[i])})
Drained == up = << >> /\ hops = << >> /\ down = << >>

\* "Lee un archivo .txt línea por línea y envía cada línea como una trama DATA"
\* (sender.h:10): when no recv ends within a line and no frame is dropped, a
\* file sent with success arrives line for line, or, if fgets had to split a
\* line, character for character but for its line ends; a message arrives up
\* to its first line end.
Complete ==
    result = "ok" /\ source.dest = host /\ Drained /\ cuts = 0 /\ ~ missed =>
        IF source.kind = "file" /\ \E l \in ToSet(Lines(Ended(source.text))) : IsLong(l)
        THEN ~ far => FlattenSeq(output) = WithoutLineEnds(source.text)
        ELSE ToBag(output) = ToBag(Wanted) /\ (~ far => output = Wanted)

\* "recibir tramas DATA dirigidas a esta PC" (listener.h:7): the file holds what was sent to the
\* listener's address, or, when a cut has made another address of its ANNOUNCE,
\* to one that is a beginning of it.
ForThisHost == output # << >> => source.dest = host \/ (cuts > 0 /\ IsPrefix(source.dest, host))
=============================================================================
