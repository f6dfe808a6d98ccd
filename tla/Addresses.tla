----------------------------- MODULE Addresses -----------------------------
(***************************************************************************)
(* Text and socket-address forms of addresses and endpoints:               *)
(* ipv4_address, ipv6_address, endpoint, local_endpoint and                *)
(* endpoint_convert.  A text is a sequence of characters; a hexadecimal    *)
(* digit is its value (upper and lower case are one), the four other       *)
(* characters that mean something are the numbers after 15.  An IPv6       *)
(* address is its eight 16-bit words, an IPv4 address its four bytes.      *)
(*                                                                         *)
(* The state is one text: the canonical text of some endpoint, then the    *)
(* same text after up to MaxEdits single-character edits, so that the      *)
(* parsers are compared with their grammar on texts that are almost right. *)
(***************************************************************************)
EXTENDS Integers, Sequences, SequencesExt

CONSTANTS Words,       \* the 16-bit words the addresses are made of
          Octets,      \* the bytes the addresses are made of
          PortNumbers, \* the ports
          Insertable,  \* the characters an edit may put into a text
          MaxEdits,    \* bound on the edits
          MaxPathLen,  \* local_endpoint::max_path_length
          SunPath      \* sizeof(sockaddr_un::sun_path)

VARIABLES ep,    \* the endpoint whose text was written
          text,  \* the text as it is now
          edits  \* how many edits it has had

addrVars == <<ep, text, edits>>

Colon == 16
Dot == 17
Open == 18
Close == 19

V4(a, p) == [v4 |-> TRUE, addr |-> a, port |-> p]
V6(a, p) == [v4 |-> FALSE, addr |-> a, port |-> p]
Failed == [ok |-> FALSE]
Parsed(v) == [ok |-> TRUE, value |-> v]

Zeros(n) == [i \in 1 .. n |-> 0]
From(s, i) == SubSeq(s, i, Len(s))
IsDec(s, i) == i <= Len(s) /\ s[i] \in 0 .. 9
IsHex(s, i) == i <= Len(s) /\ s[i] \in 0 .. 15
NumberIn(base, s) == FoldLeft(LAMBDA v, d : base * v + d, 0, s)

-----------------------------------------------------------------------------
(* Writing.  to_string, to_buffer and operator<< all use print_impl.       *)

\* The digits of v in a base, without leading zeros.
Digits(base, v) ==
    LET n == CHOOSE k \in 1 .. 5 : v < base ^ k /\ (k = 1 \/ v >= base ^ (k - 1))
    IN  [i \in 1 .. n |-> (v \div base ^ (n - i)) % base]

\* The pieces of a sequence of texts, one separator between two of them.
Joined(pieces, sep) ==
    FoldLeft(LAMBDA t, p : IF t = <<>> THEN p ELSE t \o <<sep>> \o p, <<>>, pieces)

v4_print_impl(a) == Joined([i \in 1 .. 4 |-> Digits(10, a[i])], Dot)

is_v4_mapped(w) == SubSeq(w, 1, 5) = Zeros(5) /\ w[6] = 65535

\* The bytes of two words, and the two words of four bytes.
BytesOf(hi, lo) == <<hi \div 256, hi % 256, lo \div 256, lo % 256>>
WordsOf(b) == <<256 * b[1] + b[2], 256 * b[3] + b[4]>>

\* How many zero words there are from position i, before the end e.
count_zeroes(w, i, e) ==
    CHOOSE n \in 0 .. e + 1 - i : /\ \A j \in i .. i + n - 1 : w[j] = 0
                                  /\ (i + n <= e => w[i + n] # 0)

\* The first of the longest runs of zero words.
BestRun(w, e) ==
    CHOOSE i \in 1 .. e :
        /\ \A j \in 1 .. e : count_zeroes(w, j, e) <= count_zeroes(w, i, e)
        /\ \A j \in 1 .. i - 1 : count_zeroes(w, j, e) < count_zeroes(w, i, e)

v6_print_impl(w) ==
    LET e    == IF is_v4_mapped(w) THEN 6 ELSE 8
        best == BestRun(w, e)
        len  == count_zeroes(w, best, e)
        hex(i, j) == Joined([k \in 1 .. j - i + 1 |-> Digits(16, w[i + k - 1])], Colon)
        head == IF len = 0 THEN hex(1, e)
                ELSE hex(1, best - 1) \o <<Colon, Colon>> \o hex(best + len, e)
    IN  IF is_v4_mapped(w)
        THEN head \o <<Colon>> \o v4_print_impl(BytesOf(w[7], w[8]))
        ELSE head

-----------------------------------------------------------------------------
(* Reading an IPv4 address.                                                *)

\* One octet at position i: no leading zero, at most three digits, at most 255.
parse_dec_octet(s, i) ==
    LET n == IF ~IsDec(s, i) THEN 0
             ELSE IF ~IsDec(s, i + 1) THEN 1
             ELSE IF ~IsDec(s, i + 2) THEN 2
             ELSE 3
        v == NumberIn(10, SubSeq(s, i, i + n - 1))
    IN  IF n = 0 \/ (n > 1 /\ s[i] = 0) \/ (n = 3 /\ IsDec(s, i + 3)) \/ v > 255
        THEN Failed ELSE [ok |-> TRUE, value |-> v, it |-> i + n]

RECURSIVE ParseOctets(_, _, _)
ParseOctets(s, i, got) ==
    LET o == parse_dec_octet(s, i) IN
    IF ~o.ok THEN Failed
    ELSE IF Len(got) = 3
    THEN IF o.it = Len(s) + 1 THEN Parsed(Append(got, o.value)) ELSE Failed
    ELSE IF o.it <= Len(s) /\ s[o.it] = Dot
    THEN ParseOctets(s, o.it + 1, Append(got, o.value))
    ELSE Failed

parse_ipv4_address(s) == ParseOctets(s, 1, <<>>)

-----------------------------------------------------------------------------
(* Reading an IPv6 address: one pass over the text.  n counts the words    *)
(* still needed, b is n at the "::", c says a colon must come next, prev   *)
(* is where the last word began.                                           *)

\* The digits of the word at position i: one to four.
H16Len(s, i) ==
    IF ~IsHex(s, i) THEN 0
    ELSE CHOOSE k \in 1 .. 4 : /\ \A j \in 0 .. k - 1 : IsHex(s, i + j)
                               /\ (k < 4 => ~IsHex(s, i + k))

\* A word read as hexadecimal that may be an octet read as decimal.
maybe_octet(v) == v <= 597 /\ (v \div 16) % 16 <= 9 /\ v % 16 <= 9

\* parse_h16 at position i and the word's place in the result.
TakeWord(s, st, i, colon) ==
    LET k == H16Len(s, i)
        v == NumberIn(16, SubSeq(s, i, i + k - 1))
    IN  IF k = 0 THEN [st EXCEPT !.at = "error"]
        ELSE [st EXCEPT !.it = i + k, !.prev = i, !.c = colon, !.n = @ - 1,
                        !.w[9 - st.n] = v,
                        !.at = IF st.n = 1 THEN "end" ELSE "loop"]

\* Mutant: "::" is taken any number of times.
TakeElision_bug(st) ==
    [st EXCEPT !.it = @ + 2, !.n = @ - 1, !.b = st.n - 1, !.c = FALSE,
               !.at = IF st.n = 1 THEN "end" ELSE "loop"]

\* "::" may appear once, and counts as a word.
TakeElision(st) ==
    IF st.b # -1 THEN [st EXCEPT !.at = "error"]
    ELSE [st EXCEPT !.it = @ + 2, !.n = @ - 1, !.b = st.n - 1, !.c = FALSE,
                    !.at = IF st.n = 1 THEN "end" ELSE "loop"]

\* A dot: the last word was the first octet of a dotted quad.
TakeQuad(s, st) ==
    LET q == parse_ipv4_address(From(s, st.prev)) IN
    IF \/ st.b = -1 /\ st.n > 1
       \/ ~maybe_octet(st.w[8 - st.n])
       \/ ~q.ok
    THEN [st EXCEPT !.at = "error"]
    ELSE [st EXCEPT !.it = Len(s) + 1, !.n = @ - 1, !.at = "end",
                    !.w[8 - st.n] = WordsOf(q.value)[1],
                    !.w[9 - st.n] = WordsOf(q.value)[2]]

\* One turn of the loop.
ParseTurn(s, st) ==
    LET more == st.it <= Len(s)
        ch   == IF more THEN s[st.it] ELSE -1
        two  == st.it < Len(s)
        then == IF two THEN s[st.it + 1] ELSE -1
    IN  CASE ~more -> [st EXCEPT !.at = IF st.b # -1 THEN "end" ELSE "error"]
          [] ch = Colon /\ then = Colon -> TakeElision(st)
          [] ch = Colon /\ then # Colon ->
                IF two /\ st.c THEN TakeWord(s, st, st.it + 1, TRUE)
                ELSE [st EXCEPT !.at = "error"]
          [] ch = Dot -> TakeQuad(s, st)
          [] more /\ ch \notin {Colon, Dot} ->
                IF st.b # -1 /\ ~IsHex(s, st.it) THEN [st EXCEPT !.at = "end"]
                ELSE IF st.c THEN [st EXCEPT !.at = "error"]
                ELSE TakeWord(s, st, st.it, TRUE)

RECURSIVE ParseLoop(_, _)
ParseLoop(s, st) ==
    IF st.at = "loop" THEN ParseLoop(s, ParseTurn(s, st)) ELSE st

\* The words after the "::" move to the end, zeros fill the gap.
Expand(st) ==
    IF st.b = -1 THEN st.w
    ELSE LET before == 7 - st.b
             after  == st.b - st.n
         IN  SubSeq(st.w, 1, before) \o Zeros(8 - before - after)
             \o SubSeq(st.w, before + 2, before + 1 + after)

parse_ipv6_address(s) ==
    LET st == ParseLoop(s, [at |-> "loop", it |-> 1, n |-> 8, b |-> -1,
                            c |-> FALSE, prev |-> 1, w |-> Zeros(8)])
    IN  IF st.at = "error" \/ st.it # Len(s) + 1 THEN Failed
        ELSE Parsed(Expand(st))

-----------------------------------------------------------------------------
(* Reading an endpoint.                                                    *)

detect_endpoint_format(s) ==
    LET colons == Len(SelectSeq(s, LAMBDA ch : ch = Colon)) IN
    CASE s = <<>> -> "ipv4_no_port"
      [] s # <<>> /\ s[1] = Open -> "ipv6_bracketed"
      [] s # <<>> /\ s[1] # Open /\ colons = 0 -> "ipv4_no_port"
      [] s # <<>> /\ s[1] # Open /\ colons = 1 -> "ipv4_with_port"
      [] s # <<>> /\ s[1] # Open /\ colons > 1 -> "ipv6_no_port"

parse_port(s) ==
    IF \/ s = <<>>
       \/ Len(s) > 1 /\ s[1] = 0
       \/ \E i \in DOMAIN s : ~IsDec(s, i)
       \/ NumberIn(10, s) > 65535
    THEN Failed ELSE Parsed(NumberIn(10, s))

\* An endpoint from an address and a port that were both read.
Endpoint(make(_, _), addr, port) ==
    IF addr.ok /\ port.ok THEN Parsed(make(addr.value, port.value)) ELSE Failed

\* "[address]" with nothing, or with a colon and a port, behind the bracket.
ParseBracketed(s) ==
    LET close == SelectInSeq(s, LAMBDA ch : ch = Close)
        addr  == parse_ipv6_address(SubSeq(s, 2, close - 1))
        port  == IF close = Len(s) THEN Parsed(0)
                 ELSE IF s[close + 1] # Colon THEN Failed
                 ELSE parse_port(From(s, close + 2))
    IN  IF Len(s) < 2 \/ close = 0 THEN Failed ELSE Endpoint(V6, addr, port)

parse_endpoint(s) ==
    LET colon == SelectLastInSeq(s, LAMBDA ch : ch = Colon)
        fmt   == detect_endpoint_format(s)
    IN  CASE s = <<>> -> Failed
          [] s # <<>> /\ fmt = "ipv4_no_port" ->
                Endpoint(V4, parse_ipv4_address(s), Parsed(0))
          [] fmt = "ipv4_with_port" ->
                Endpoint(V4, parse_ipv4_address(SubSeq(s, 1, colon - 1)),
                             parse_port(From(s, colon + 1)))
          [] fmt = "ipv6_no_port" -> Endpoint(V6, parse_ipv6_address(s), Parsed(0))
          [] fmt = "ipv6_bracketed" -> ParseBracketed(s)

-----------------------------------------------------------------------------
(* Socket addresses.  The port is kept in network byte order.              *)

Swapped(p) == (p % 256) * 256 + p \div 256   \* htons and ntohs, little-endian

mapped_v6(a) == Zeros(5) \o <<65535>> \o WordsOf(a)

to_sockaddr(e, family) ==
    IF e.v4 /\ family = "inet6"
    THEN [family |-> "inet6", port |-> Swapped(e.port), addr |-> mapped_v6(e.addr)]
    ELSE [family |-> IF e.v4 THEN "inet" ELSE "inet6",
          port |-> Swapped(e.port), addr |-> e.addr]

from_sockaddr(sa) ==
    CASE sa.family = "inet"  -> V4(sa.addr, Swapped(sa.port))
      [] sa.family = "inet6" -> V6(sa.addr, Swapped(sa.port))
      [] sa.family \notin {"inet", "inet6"} -> V4(Zeros(4), 0)

\* A local path is a sequence of bytes; 0 is NUL.  One that is too long
\* gives the empty endpoint.
local_endpoint(path) == IF Len(path) > MaxPathLen THEN <<>> ELSE path

is_abstract(path) == path # <<>> /\ path[1] = 0

\* The length names the whole structure unless the path is abstract.
to_sockaddr_un(path) ==
    [path |-> path \o Zeros(SunPath - Len(path)),
     len  |-> IF is_abstract(path) THEN Len(path) ELSE SunPath]

\* What the kernel reports of an address that was bound: the length of a
\* name ends with the terminator.
KernelName(sa) ==
    IF sa.path[1] = 0 THEN sa
    ELSE [sa EXCEPT !.len = CHOOSE n \in 1 .. SunPath :
                               /\ sa.path[n] = 0
                               /\ \A i \in 1 .. n - 1 : sa.path[i] # 0]

from_sockaddr_local(sa) ==
    LET bytes == SubSeq(sa.path, 1, sa.len)
        nul   == SelectInSeq(bytes, LAMBDA b : b = 0)
    IN  IF sa.len = 0 THEN <<>>
        ELSE IF bytes[1] # 0 /\ nul # 0 THEN local_endpoint(SubSeq(bytes, 1, nul - 1))
        ELSE local_endpoint(bytes)

-----------------------------------------------------------------------------
(* The state.                                                              *)

V4Addresses == [1 .. 4 -> Octets]
V6Addresses == [1 .. 8 -> Words]
               \union {mapped_v6(a) : a \in V4Addresses}

\* How a program writes an endpoint; port 0 is left out.
TextOf(e) ==
    LET port == Digits(10, e.port) IN
    CASE e.v4 /\ e.port = 0  -> v4_print_impl(e.addr)
      [] e.v4 /\ e.port # 0  -> v4_print_impl(e.addr) \o <<Colon>> \o port
      [] ~e.v4 /\ e.port = 0 -> v6_print_impl(e.addr)
      [] ~e.v4 /\ e.port # 0 -> <<Open>> \o v6_print_impl(e.addr) \o <<Close, Colon>> \o port

Endpoints ==
    {V4(a, p) : a \in V4Addresses, p \in PortNumbers}
        \union {V6(a, p) : a \in V6Addresses, p \in PortNumbers}

AddrInit ==
    /\ edits = 0
    /\ ep \in Endpoints
    /\ text = TextOf(ep)

Edited == edits < MaxEdits /\ edits' = edits + 1 /\ UNCHANGED ep

InsertChar(i, ch) == Edited /\ text' = InsertAt(text, i, ch)
DeleteChar(i) == Edited /\ text' = RemoveAt(text, i)

AddrNext ==
    \/ \E i \in 1 .. Len(text) + 1, ch \in Insertable : InsertChar(i, ch)
    \/ \E i \in 1 .. Len(text) : DeleteChar(i)

AddrSpec == AddrInit /\ [][AddrNext]_addrVars

-----------------------------------------------------------------------------
(* The grammar, as a second definition of what the texts mean.             *)

RECURSIVE SplitOn(_, _)
SplitOn(s, sep) ==
    LET i == SelectInSeq(s, LAMBDA ch : ch = sep) IN
    IF i = 0 THEN <<s>>
    ELSE <<SubSeq(s, 1, i - 1)>> \o SplitOn(From(s, i + 1), sep)

IsNumeral(f, max) ==
    /\ Len(f) \in 1 .. 5
    /\ \A i \in DOMAIN f : f[i] \in 0 .. 9
    /\ (Len(f) > 1 => f[1] # 0)
    /\ NumberIn(10, f) <= max

IsQuad(s) == LET f == SplitOn(s, Dot) IN
             Len(f) = 4 /\ \A i \in 1 .. 4 : IsNumeral(f[i], 255)
QuadOf(s) == LET f == SplitOn(s, Dot) IN [i \in 1 .. 4 |-> NumberIn(10, f[i])]

\* The words of fields between colons; a quad may stand for the last two.
IsWords(s, quad) ==
    LET f == SplitOn(s, Colon) IN
    \/ s = <<>>
    \/ \A i \in DOMAIN f : \/ Len(f[i]) \in 1 .. 4 /\ \A j \in DOMAIN f[i] : f[i][j] \in 0 .. 15
                           \/ quad /\ i = Len(f) /\ IsQuad(f[i])
WordsIn(s) ==
    IF s = <<>> THEN <<>>
    ELSE LET f == SplitOn(s, Colon) IN
         FlattenSeq([i \in DOMAIN f |-> IF Dot \in Range(f[i]) THEN WordsOf(QuadOf(f[i]))
                                        ELSE <<NumberIn(16, f[i])>>])

\* Eight words, or fewer with one "::" for the missing zeros: the words of the
\* pieces around it, at most seven, or of the whole text.
V6Meanings(s) ==
    LET elisions == {i \in 1 .. Len(s) - 1 : s[i] = Colon /\ s[i + 1] = Colon}
        pieces == {<<s>> : x \in {y \in {1} : s # <<>>}}
                    \union {<<SubSeq(s, 1, i - 1), From(s, i + 2)>> : i \in elisions}
        read == {[j \in DOMAIN p |-> WordsIn(p[j])] :
                   p \in {q \in pieces : \A j \in DOMAIN q : IsWords(q[j], j = Len(q))}}
    IN  {w[1] : w \in {v \in read : Len(v) = 1 /\ Len(v[1]) = 8}}
        \union {w[1] \o Zeros(8 - Len(w[1]) - Len(w[2])) \o w[2] :
                w \in {v \in read : Len(v) = 2 /\ Len(v[1]) + Len(v[2]) <= 7}}

\* An address alone, in brackets if it is an IPv6 address, or followed by a port:
\* the ways to read a text as an address, brackets and a port.
EndpointMeanings(s) ==
    LET whole == [addr |-> s, open |-> FALSE, port |-> {0}]
        port(t) == {NumberIn(10, u) : u \in {v \in {t} : IsNumeral(v, 65535)}}
        colons == {[addr |-> SubSeq(s, 1, i - 1), open |-> FALSE, port |-> port(From(s, i + 1))] :
                     i \in {j \in DOMAIN s : s[j] = Colon}}
        closes == {[addr |-> SubSeq(s, 2, i - 1), open |-> TRUE,
                    port |-> IF i = Len(s) THEN {0} ELSE port(From(s, i + 2))] :
                     i \in {j \in DOMAIN s : /\ j > 1 /\ s[1] = Open /\ s[j] = Close
                                            /\ (j < Len(s) => s[j + 1] = Colon)}}
        reads == {whole} \union colons \union closes
    IN  UNION {{V4(QuadOf(r.addr), p) : p \in r.port} :
                 r \in {x \in reads : ~x.open /\ IsQuad(x.addr)}}
        \union UNION {{V6(a, p) : a \in V6Meanings(r.addr), p \in r.port} :
                        r \in {x \in reads : x.open \/ x = whole}}

-----------------------------------------------------------------------------
(* Properties.                                                             *)

\* No printed address is longer than the 15 and the 49 characters that the
\* buffers of to_string and to_buffer hold.
TextFits ==
    edits = 0 => IF ep.v4 THEN Len(v4_print_impl(ep.addr)) <= 15
                 ELSE Len(v6_print_impl(ep.addr)) <= 49

\* parse_endpoint accepts exactly the texts of the grammar its header
\* gives, and each means one endpoint: a misplaced, missing or doubled
\* colon, dot, digit or bracket is refused, wherever it is.  Of a text that
\* print_impl wrote it gives back the endpoint, whatever run of zeros was
\* elided.
ParseIsGrammar ==
    \A p \in {parse_endpoint(text)} :
        /\ EndpointMeanings(text) = {p.value : x \in {y \in {1} : p.ok}}
        /\ (edits = 0 => p = Parsed(ep))

\* An endpoint comes back from the socket address it was passed in; on an
\* IPv6 socket an IPv4 endpoint comes back as its mapped address, with the
\* same four bytes and port.  A local path, or an abstract name, is the
\* same after to_sockaddr, the kernel's getsockname and from_sockaddr, the
\* longest allowed one included.
SockaddrRoundTrip ==
    edits = 0 =>
        /\ from_sockaddr(to_sockaddr(ep, IF ep.v4 THEN "inet" ELSE "inet6")) = ep
        /\ ep.v4 =>
            LET back == from_sockaddr(to_sockaddr(ep, "inet6")) IN
            /\ ~back.v4 /\ back.port = ep.port
            /\ is_v4_mapped(back.addr)
            /\ BytesOf(back.addr[7], back.addr[8]) = ep.addr
            /\ parse_ipv6_address(v6_print_impl(back.addr)) = Parsed(back.addr)
        /\ \A n \in 0 .. MaxPathLen : \A path \in [1 .. n -> {0, 1}] :
            (is_abstract(path) \/ 0 \notin Range(path)) =>
                from_sockaddr_local(KernelName(to_sockaddr_un(local_endpoint(path)))) = path

(***************************************************************************)
(* Printing, parsing and the socket addresses agree: a printed endpoint is *)
(* parsed back, the parser accepts exactly its grammar with one meaning,   *)
(* and an endpoint survives the way through the kernel.                    *)
(***************************************************************************)
EndpointText ==
    /\ TextFits
    /\ ParseIsGrammar
    /\ SockaddrRoundTrip
=============================================================================
