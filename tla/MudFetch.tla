------------------------------ MODULE MudFetch ------------------------------
(***************************************************************************)
(* fetch_mud: the body of a response arrives in chunks, every chunk is     *)
(* decoded through a buffer of fixed size into a String, and the size      *)
(* limit is checked when a chunk arrives.                                  *)
(*                                                                         *)
(* The body is a sequence of characters, numbered as they are sent, that   *)
(* take enc.in bytes on the wire and enc.out bytes in the String: UTF-8    *)
(* text stays as it is, a legacy charset grows, UTF-16 shrinks.            *)
(***************************************************************************)
EXTENDS Integers, Sequences

CONSTANTS
    MAX_LEN,        \* bytes: 10_000_000 in the code
    BufferSize,     \* bytes: 2048 in the code
    Encodings,      \* records [in, out]
    MaxChunk,       \* bound: characters in one chunk
    MaxBody         \* bound: characters in one body

ASSUME FetchAssumption ==
    /\ {MAX_LEN, BufferSize, MaxChunk, MaxBody} \subseteq Nat \ {0}
    /\ \A e \in Encodings : e.in \in Nat \ {0} /\ e.out \in 1..BufferSize

VARIABLES
    fpc,            \* where the download is
    enc,            \* the charset of the response
    sent,           \* characters received so far
    chunk,          \* what is left to decode of the chunk at hand
    buffer,         \* decoded, not yet in the output
    output

fetchVars == <<fpc, enc, sent, chunk, buffer, output>>

Characters(m, n) == [i \in 1..(n - m) |-> m + i]

Utf8 == [in |-> 1, out |-> 1]

FetchInit ==
    /\ fpc = "idle" /\ enc = Utf8
    /\ sent = 0 /\ chunk = <<>> /\ buffer = <<>> /\ output = <<>>

(* fetch_mud or its caller returns; its variables are gone. *)
FetchReturn ==
    /\ fpc' = "idle" /\ enc' = Utf8
    /\ sent' = 0 /\ chunk' = <<>> /\ buffer' = <<>> /\ output' = <<>>

(* The response has begun; its charset, utf-8 if it names none that is known. *)
FetchBegin(e) ==
    /\ fpc = "idle"
    /\ fpc' = "chunk" /\ enc' = e
    /\ UNCHANGED <<sent, chunk, buffer, output>>

(* Mutant: the chunk is not counted. *)
M_WithinLimit(n) == Len(output) * enc.out < MAX_LEN

(* What is buffered is not counted. *)
WithinLimit(n) == Len(output) * enc.out + n * enc.in < MAX_LEN

ReceiveChunk(n) ==
    /\ fpc = "chunk"
    /\ sent + n <= MaxBody
    /\ WithinLimit(n)
    /\ sent' = sent + n
    /\ chunk' = Characters(sent, sent + n)
    /\ fpc' = "decode"
    /\ UNCHANGED <<enc, buffer, output>>

(* The download is given up: the limit, a broken connection or the 15 seconds. *)
TooLarge(n) ==
    /\ fpc = "chunk"
    /\ sent + n <= MaxBody
    /\ ~WithinLimit(n)
    /\ FetchReturn

ReceiveFails == fpc = "chunk" /\ FetchReturn

(* decode_to_str takes as many characters as the buffer has room for. *)
Decoded ==
    LET room == (BufferSize \div enc.out) - Len(buffer)
    IN  IF Len(chunk) <= room THEN Len(chunk) ELSE room

(* InputEmpty: on to the next chunk; what was decoded stays in the buffer. *)
InputEmpty ==
    /\ fpc = "decode"
    /\ Decoded = Len(chunk)
    /\ buffer' = buffer \o chunk
    /\ chunk' = <<>>
    /\ fpc' = "chunk"
    /\ UNCHANGED <<enc, sent, output>>

(* Mutant: the full buffer is not emptied. *)
M_OutputFullStuck ==
    /\ fpc = "decode"
    /\ Decoded < Len(chunk)
    /\ buffer' = buffer \o SubSeq(chunk, 1, Decoded)
    /\ chunk' = SubSeq(chunk, Decoded + 1, Len(chunk))
    /\ UNCHANGED <<fpc, enc, sent, output>>

(* OutputFull: the buffer is appended to the output and started again. *)
OutputFull ==
    /\ fpc = "decode"
    /\ Decoded < Len(chunk)
    /\ output' = output \o buffer \o SubSeq(chunk, 1, Decoded)
    /\ buffer' = <<>>
    /\ chunk' = SubSeq(chunk, Decoded + 1, Len(chunk))
    /\ UNCHANGED <<fpc, enc, sent>>

(* Bytes that are not of the charset. *)
DecodeError == fpc \in {"decode", "flush"} /\ FetchReturn

EndOfBody ==
    /\ fpc = "chunk"
    /\ fpc' = "flush"
    /\ UNCHANGED <<enc, sent, chunk, buffer, output>>

(* Mutant: what is buffered at the end is forgotten. *)
M_Flush ==
    /\ fpc = "flush"
    /\ buffer' = <<>>
    /\ fpc' = "done"
    /\ UNCHANGED <<enc, sent, chunk, output>>

(* The loop after the last chunk. *)
Flush ==
    /\ fpc = "flush"
    /\ output' = output \o buffer
    /\ buffer' = <<>>
    /\ fpc' = "done"
    /\ UNCHANGED <<enc, sent, chunk>>

FetchFails ==
    \/ \E n \in 1..MaxChunk : TooLarge(n)
    \/ ReceiveFails
    \/ DecodeError

(* What fetch_mud does by itself, without the server. *)
FetchComputes == InputEmpty \/ OutputFull \/ Flush

-----------------------------------------------------------------------------
(* Whatever the sizes of chunks and buffer, the parser gets every character
   of the body once and in order. *)
DownloadComplete == fpc = "done" => output = Characters(0, sent)

(* "Maximum response body size: 10MB", "respecting ... maximum response
   length": no more of a body is taken than MAX_LEN bytes.  The code does not
   keep to this, since it compares the limit with text that is already decoded. *)
BodyLimited == sent * enc.in <= MAX_LEN

(* What the code does keep to: what is received of a body never takes more than
   MAX_LEN bytes once it is decoded, up to one buffer and up to what decoding
   adds to one chunk, which the check does not see.  A body in a charset that
   shrinks when it is decoded may therefore exceed MAX_LEN by that factor, but
   no body can grow without end. *)
DownloadBounded ==
    sent * enc.out
        < MAX_LEN + BufferSize + (IF enc.out > enc.in THEN (enc.out - enc.in) * MaxChunk ELSE 0)

(* The loops that decode a chunk and flush the buffer come to an end: the
   buffer is emptied whenever it is full, and the request has a timeout. *)
DownloadEnds == fpc # "idle" ~> fpc = "idle"
=============================================================================
