--------------------------- MODULE MemoryRequests ---------------------------
(***************************************************************************)
(* GDB reads and writes the target's memory: the 'm', 'M' and 'X' handlers *)
(* of gdb.c over the byte and block accesses of the debug link.            *)
(*                                                                         *)
(* GDB asks for memory while the processor is stalled, so that nothing     *)
(* else changes it and a request is one step.  No handler sees to that:    *)
(* gdb_ensure_or1k_stalled does nothing, ENABLE_OR1K_STALL_CHECK being     *)
(* undefined, and what a running processor stores comes between the words  *)
(* of a block (VpiLink).  The link fails no access: the handlers' E01 for  *)
(* a failed one is never sent.                                             *)
(*                                                                         *)
(* The target is big endian and the host little endian: a word, written    *)
(* here as its four bytes from the lowest address on, lies in a buffer of  *)
(* the server with its bytes reversed.                                     *)
(***************************************************************************)
EXTENDS Integers, Sequences

CONSTANTS
    Size,          \* bytes of memory
    GDB_BUF_MAX,   \* characters in a packet buffer
    Image,         \* the memory at the start
    Payloads,      \* what GDB may write
    MaxAsked       \* bound: the requests

Address == 0 .. Size - 1
Byte == 0 .. 255

ASSUME MemoryAssumption ==
    /\ Size \in Nat \ {0} /\ Size % 4 = 0
    /\ GDB_BUF_MAX \in Nat \ {0}
    /\ Image \in [Address -> Byte]
    /\ Payloads \subseteq Seq(Byte)
    /\ MaxAsked \in Nat

VARIABLES
    mem,      \* the target's memory
    last,     \* the last request
    answer,   \* its answer, for an 'm' the bytes, and how many characters
              \* were written past the end of the packet buffer to make it
    asked

vars == <<mem, last, answer, asked>>

NoRequest == [k |-> "none", a |-> 0, n |-> 0, d |-> <<>>]

Says(text) == [text |-> text, data |-> <<>>, past |-> 0]

(* The type of every variable.                                             *)
TypeOK ==
    /\ mem \in [Address -> Byte]
    /\ last.k \in {"none", "m", "M", "X"} /\ last.a \in Address
    /\ answer.text \in {"OK", "E01", "bytes"} /\ answer.data \in Seq(Byte)
    /\ answer.past \in 0 .. GDB_BUF_MAX - 1
    /\ asked \in 0 .. MaxAsked

Init ==
    /\ mem = Image
    /\ last = NoRequest
    /\ answer = Says("OK")
    /\ asked = 0

-----------------------------------------------------------------------------
(* The accesses of the link.                                               *)

(* Groups of four bytes, each turned round. *)
Turned(s) == [i \in 1 .. Len(s) |-> s[4 * ((i - 1) \div 4) + 4 - ((i - 1) % 4)]]

(* A memory is selected by words: it does not see the two low bits of the  *)
(* address of a word. *)
WordAt(a) == a - (a % 4)

(* A block access, of whole words.  Only 'M' makes one at an address that  *)
(* is not aligned. *)
gdb_read_block(a, n) == Turned([i \in 1 .. n |-> mem[a + i - 1]])

gdb_write_block(to, a, s) ==
    LET b == WordAt(a)
    IN  [x \in Address |-> IF x \in b .. b + Len(s) - 1 THEN Turned(s)[x - b + 1]
                           ELSE to[x]]

(* gdb_read_byte and gdb_write_byte, for one byte after the other.         *)
gdb_read_bytes(a, n) == [i \in 1 .. n |-> mem[a + i - 1]]

gdb_write_bytes(to, a, s) ==
    [x \in Address |-> IF x \in a .. a + Len(s) - 1 THEN s[x - a + 1] ELSE to[x]]

(* The bytes before the first word that is accessed as a word, and the     *)
(* bytes in such words.                                                    *)
HeadLen(a, n) ==
    IF a % 4 = 0 THEN 0 ELSE IF 4 - (a % 4) > n THEN n ELSE 4 - (a % 4)
WordsLen(a, n) == 4 * ((n - HeadLen(a, n)) \div 4)

-----------------------------------------------------------------------------
(* 'm'.                                                                    *)

(* The length is cut only if it fills the buffer twice. *)
ReadLen(n) == IF n * 2 >= GDB_BUF_MAX * 2 THEN (GDB_BUF_MAX - 1) \div 2 ELSE n

(* Mutant: rec_buf_ptr is not moved on after the words. *)
rec_bufM(a, n) ==
    LET h == HeadLen(a, n)
        w == WordsLen(a, n)
    IN  gdb_read_bytes(a, h) \o gdb_read_block(a + h, w)
            \o gdb_read_bytes(a + h, n - h - w)

rec_buf(a, n) ==
    LET h == HeadLen(a, n)
        w == WordsLen(a, n)
    IN  gdb_read_bytes(a, h) \o gdb_read_block(a + h, w)
            \o gdb_read_bytes(a + h + w, n - h - w)

(* The reply takes two digits a byte and an EOS.  What of it lies past the *)
(* end of the buffer is over p_buf->len, which is set last, and over what  *)
(* follows: some of its bytes, those in over, are not sent as they were. *)
Past(len) == IF 2 * len >= GDB_BUF_MAX THEN 2 * len + 1 - GDB_BUF_MAX ELSE 0

rsp_read_mem(a, n, over) ==
    LET len == ReadLen(n)
        b == rec_buf(a, len)
    IN  /\ over \subseteq {i \in 1 .. len : 2 * i > GDB_BUF_MAX}
        /\ answer' = [text |-> "bytes", past |-> Past(len),
                      data |-> [i \in 1 .. len |-> IF i \in over THEN 0 ELSE b[i]]]
        /\ UNCHANGED mem

-----------------------------------------------------------------------------
(* 'M': n is the length announced, d the data sent.  A word is written     *)
(* with every eighth digit; the digits after the last whole word are not.  *)
rsp_write_mem(a, n, d) ==
    IF n # Len(d) THEN answer' = Says("E01") /\ UNCHANGED mem
    ELSE /\ answer' = Says("OK")
         /\ mem' = gdb_write_block(mem, a, Turned(SubSeq(d, 1, 4 * (n \div 4))))

-----------------------------------------------------------------------------
(* 'X'.                                                                    *)

ESCAPE == 125     \* '}'
Xor20(b) == IF (b \div 32) % 2 = 0 THEN b + 32 ELSE b - 32

(* What GDB sends for a byte, and for the first so many bytes of d: '#',    *)
(* '$' and '}' are escaped.                                                *)
Sent(b) == IF b \in {35, 36, ESCAPE} THEN <<ESCAPE, Xor20(b)>> ELSE <<b>>

SentFor(d) ==
    LET upTo[i \in 0 .. Len(d)] == IF i = 0 THEN <<>> ELSE upTo[i - 1] \o Sent(d[i])
    IN  upTo

Escaped(d) == SentFor(d)[Len(d)]

(* Mutant: the escape is undone by subtraction. *)
UnescapeM(acc, ch) ==
    IF acc.escaped THEN [out |-> Append(acc.out, ch - 32), escaped |-> FALSE]
    ELSE IF ch = ESCAPE THEN [out |-> acc.out, escaped |-> TRUE]
    ELSE [out |-> Append(acc.out, ch), escaped |-> FALSE]

(* The loop of rsp_unescape: a character, and the first so many of s.      *)
Unescape(acc, ch) ==
    IF acc.escaped THEN [out |-> Append(acc.out, Xor20(ch)), escaped |-> FALSE]
    ELSE IF ch = ESCAPE THEN [out |-> acc.out, escaped |-> TRUE]
    ELSE [out |-> Append(acc.out, ch), escaped |-> FALSE]

NoneRead == [out |-> <<>>, escaped |-> FALSE]

Unescaped(s) ==
    LET upTo[i \in 0 .. Len(s)] == IF i = 0 THEN NoneRead ELSE Unescape(upTo[i - 1], s[i])
    IN  upTo

rsp_unescape(s) == Unescaped(s)[Len(s)].out

(* Mutant: two bytes are turned round as well. *)
swap_bufM(s, n) ==
    LET g == 4 * ((n + 3) \div 4)
    IN  Turned(SubSeq(s, 1, g)) \o SubSeq(s, g + 1, Len(s))

(* The whole groups that the first n bytes reach into are turned round,    *)
(* but not if n is 1 or 2.                                                 *)
swap_buf(s, n) ==
    LET g == IF n > 2 THEN 4 * ((n + 3) \div 4) ELSE 0
    IN  Turned(SubSeq(s, 1, g)) \o SubSeq(s, g + 1, Len(s))

(* The buffer after rsp_unescape, which works in place: the bytes, what is *)
(* left of the escaped ones, the EOS of get_packet and old characters.     *)
Buffer(s, junk) ==
    rsp_unescape(s) \o SubSeq(s, Len(rsp_unescape(s)) + 1, Len(s)) \o <<0, junk, junk>>

(* Mutant: the length announced is believed. *)
rsp_write_mem_binM(a, n, s, junk) ==
    LET len == n
        b == swap_buf(Buffer(s, junk), len)
        h == HeadLen(a, len)
        w == WordsLen(a, len)
        m1 == gdb_write_bytes(mem, a, SubSeq(b, 1, h))
        m2 == gdb_write_block(m1, a + h, SubSeq(b, h + 1, h + w))
    IN  /\ mem' = gdb_write_bytes(m2, a + h + w, SubSeq(b, h + w + 1, len))
        /\ answer' = Says("OK")

(* n is the length announced, s the escaped data.                          *)
rsp_write_mem_bin(a, n, s, junk) ==
    LET len == IF n < Len(rsp_unescape(s)) THEN n ELSE Len(rsp_unescape(s))
        b == swap_buf(Buffer(s, junk), len)
        h == HeadLen(a, len)
        w == WordsLen(a, len)
        m1 == gdb_write_bytes(mem, a, SubSeq(b, 1, h))
        m2 == gdb_write_block(m1, a + h, SubSeq(b, h + 1, h + w))
    IN  /\ mem' = gdb_write_bytes(m2, a + h + w, SubSeq(b, h + w + 1, len))
        /\ answer' = Says("OK")

-----------------------------------------------------------------------------
(* What GDB asks: a range of memory; for a write, as many bytes as it      *)
(* announces or one less.                                                  *)

Ask(k, a, n, d) ==
    /\ asked < MaxAsked
    /\ asked' = asked + 1
    /\ last' = [k |-> k, a |-> a, n |-> n, d |-> d]

m(a, n) ==
    /\ a + ReadLen(n) <= Size
    /\ Ask("m", a, n, <<>>)
    /\ \E over \in SUBSET (1 .. ReadLen(n)) : rsp_read_mem(a, n, over)

M(a, n, d) ==
    /\ a + n <= Size
    /\ Ask("M", a, n, d)
    /\ rsp_write_mem(a, n, d)

X(a, n, d) ==
    /\ a + n <= Size
    /\ Ask("X", a, n, d)
    /\ \E junk \in {0, 255} : rsp_write_mem_bin(a, n, Escaped(d), junk)

(* As many bytes as are announced, or one less. *)
Data(n) == {d \in Payloads : Len(d) \in {n, n - 1}}

Next ==
    \/ \E a \in Address, n \in 0 .. GDB_BUF_MAX : m(a, n)
    \/ \E a \in Address, n \in 0 .. Size :
         \E d \in Data(n) : M(a, n, d) \/ X(a, n, d)

Spec == Init /\ [][Next]_vars

-----------------------------------------------------------------------------
(* Properties.                                                             *)

(* The memory after the bytes d were written to a on, lowest address first. *)
Written(a, d) ==
    [x \in Address |-> IF x - a \in 0 .. Len(d) - 1 THEN d[x - a + 1] ELSE mem[x]]

WholeWords(a, d) == a % 4 = 0 /\ Len(d) % 4 = 0

(* Where a write's bytes go: 'M' has only words, and the memory puts them  *)
(* where it has words. *)
Start(r) == IF r.k = "M" THEN WordAt(r.a) ELSE r.a

(* The bytes that GDB sent are in memory, although 'M' turns the words     *)
(* round and 'X' does not, whatever is escaped.  'M' that is answered OK   *)
(* stores the whole words of its data, and no byte of the rest, from the   *)
(* word on that its address is in; 'X' stores all its data where they are  *)
(* for, if they are whole words or one or two bytes.                       *)
StoreExact ==
    [][/\ last'.k = "M" /\ last'.n = Len(last'.d)
            => mem' = Written(Start(last'), SubSeq(last'.d, 1, 4 * (last'.n \div 4)))
       /\ last'.k = "X" /\ (WholeWords(last'.a, last'.d) \/ Len(last'.d) <= 2)
            => mem' = Written(Start(last'), last'.d)]_vars

(* No write changes memory but as many bytes from its start on as it has   *)
(* data: neither the bytes that swap_buf moves from beyond the data, nor   *)
(* the head and the rest that are written singly, nor a rejected 'M'.      *)
StoresInside ==
    [][\A x \in Address : mem'[x] # mem[x] =>
          /\ x \in Start(last') .. Start(last') + Len(last'.d) - 1
          /\ answer' = Says("OK")]_vars

Whole(a, n) == {x \in a .. a + n - 1 : \E y \in Address :
                  y % 4 = 0 /\ x \in y .. y + 3 /\ y >= a /\ y + 3 < a + n}

Mirror(x) == 4 * (x \div 4) + 3 - (x % 4)

(* The answer to an 'm' holds every byte of the range, or of as much of it *)
(* as half the buffer is for if it is longer than the buffer: the bytes of *)
(* a word that is in the range with the highest address first, the others  *)
(* at their places, however the range is aligned.  The buffer is overrun   *)
(* exactly by the lengths from half of it to all of it, by as much as the  *)
(* length says, and only bytes past its end can be wrong.                  *)
ReadComplete ==
    last.k = "m" =>
        LET n == Len(answer.data)
        IN  /\ n = IF last.n < GDB_BUF_MAX THEN last.n ELSE (GDB_BUF_MAX - 1) \div 2
            /\ answer.past = 0 <=> 2 * last.n < GDB_BUF_MAX \/ last.n >= GDB_BUF_MAX
            /\ answer.past > 0 => answer.past = 2 * n + 1 - GDB_BUF_MAX
            /\ \A x \in last.a .. last.a + n - 1 :
                  2 * (x - last.a + 1) <= GDB_BUF_MAX =>
                      answer.data[x - last.a + 1]
                        = mem[IF x \in Whole(last.a, n) THEN Mirror(x) ELSE x]

=============================================================================
