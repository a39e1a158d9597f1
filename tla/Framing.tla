------------------------------ MODULE Framing -------------------------------
(***************************************************************************)
(* The authenticated stream under every message after the key exchange     *)
(* (crypto/rw.go, HMACWriter and HMACReader) and the step before it, when  *)
(* a JSON decoder has read the key message and may have read on            *)
(* (server/channel/msg.go, JSON). The ciphers put a value in front once,   *)
(* change no length and no order, and are left out. A byte is a tuple that *)
(* names it: the k-th byte of data, byte i of the code over the first k    *)
(* bytes, or one of a length.                                              *)
(***************************************************************************)
EXTENDS Integers, Sequences, SequencesExt

CONSTANTS
  MaxLen,   \* what the writer buffers, 2^16 - 1 in the code
  HSize     \* the size of an authentication code

ASSUME FramingAssumption == MaxLen \in Nat \ {0} /\ HSize \in Nat \ {0}

Header(n) == << <<"len", n>>, <<"len">> >>
Mac(k)    == [i \in 1..HSize |-> <<"mac", k, i>>]

\* A writer: what it buffers, how much it has authenticated, what it wrote.
NewWriter == [buf |-> <<>>, sum |-> 0, out |-> <<>>]

\* Mutant: the code of a frame is over that frame only.
FlushPerFrame(w) ==
  IF w.buf = <<>> THEN w
  ELSE [w EXCEPT !.buf = <<>>, !.sum = 0, !.out = @ \o Header(Len(w.buf)) \o w.buf \o Mac(w.sum)]

Flush(w) ==
  IF w.buf = <<>> THEN w
  ELSE [w EXCEPT !.buf = <<>>, !.out = @ \o Header(Len(w.buf)) \o w.buf \o Mac(w.sum)]

\* One byte of a Write: a full buffer is flushed at once.
Put(w, b) ==
  LET v == [w EXCEPT !.buf = Append(@, b), !.sum = @ + 1]
  IN  IF Len(v.buf) = MaxLen THEN Flush(v) ELSE v

\* Writing nothing flushes what is buffered.
Write(w, data) == IF data = <<>> THEN Flush(w) ELSE FoldLeft(Put, w, data)

-----------------------------------------------------------------------------
\* The reader over in, of which the connection hands out at most chunk bytes
\* at a time. The first phase waits for a header, the second reads the data
\* and the code after it.
NewReader(in) == [in |-> in, phase |-> 0, amount |-> 0, hash |-> <<>>, sum |-> 0]

Read0(r) ==
  IF r.phase # 0 THEN [r |-> r, err |-> "none"]
  ELSE IF r.in = <<>> THEN [r |-> r, err |-> "EOF"]
  ELSE IF Len(r.in) < 2 THEN [r |-> [r EXCEPT !.in = <<>>], err |-> "ErrUnexpectedEOF"]
  ELSE [r |-> [r EXCEPT !.in = SubSeq(@, 3, Len(@)), !.amount = r.in[1][2], !.phase = 1],
        err |-> "none"]

Least(a, b) == IF a < b THEN a ELSE b

\* One Read into size bytes: what it returns and the reader after it.
Read(r0, size, chunk) ==
  LET h == Read0(r0)  r == h.r IN
  IF h.err # "none" THEN [data |-> <<>>, err |-> h.err, r |-> r]
  ELSE
    LET want == IF size >= r.amount THEN r.amount + HSize - Len(r.hash) ELSE size
        rb   == SubSeq(r.in, 1, Least(want, Least(chunk, Len(r.in))))
        data == SubSeq(rb, 1, Least(Len(rb), r.amount))
        hash == r.hash \o SubSeq(rb, Len(data) + 1, Len(rb))
        sum  == r.sum + Len(data)
        done == Len(hash) = HSize
    IN  [ data |-> data,
          err  |-> IF done /\ hash # Mac(sum) THEN "ErrInvalidMac"
                   ELSE IF ~done /\ rb = <<>> THEN "ErrUnexpectedEOF" ELSE "none",
          r    |-> [in |-> SubSeq(r.in, Len(rb) + 1, Len(r.in)),
                    phase  |-> IF done THEN 0 ELSE 1,
                    amount |-> r.amount - Len(data),
                    hash   |-> IF done THEN <<>> ELSE hash,
                    sum    |-> sum] ]

\* Reading to the end, as io.ReadAll does; the i-th Read gets sizes[i] bytes
\* and chunks[i] from the connection, and over again.
Cycle(s, i) == s[((i - 1) % Len(s)) + 1]

ReadAll(in, sizes, chunks) ==
  LET last == 2 * Len(in) + 2
      f[i \in 0..last] ==
        IF i = 0 THEN [data |-> <<>>, err |-> "none", r |-> NewReader(in)]
        ELSE LET p == f[i - 1]  n == Read(p.r, Cycle(sizes, i), Cycle(chunks, i))
             IN  IF p.err # "none" THEN p
                 ELSE [data |-> p.data \o n.data, err |-> n.err, r |-> n.r]
  IN  f[last]

-----------------------------------------------------------------------------
\* A JSON value of n bytes is decoded from in, which arrives in pieces of
\* chunk bytes: the decoder takes pieces until the value is complete.
Buffered(in, n, chunk) ==
  LET taken == Least(((n + chunk - 1) \div chunk) * chunk, Len(in))
  IN  SubSeq(in, n + 1, taken)

\* What is read next: the decoder's rest, unless it is just the newline.
JSON(in, n, chunk) ==
  LET buf == Buffered(in, n, chunk)
      r   == SubSeq(in, n + Len(buf) + 1, Len(in))
  IN  IF buf = <<"\n">> THEN r ELSE buf \o r
=============================================================================
