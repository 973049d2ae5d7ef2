------------------------------- MODULE Text --------------------------------
(***************************************************************************)
(* The algorithms on text that requests go through, as functions of        *)
(* sequences of characters (their codes), each against a reference         *)
(* definition: paths are simplified and URLs decoded (buffer.c), host      *)
(* names checked and normalised and lists split (request.c), text encoded  *)
(* and numbers written (buffer.c), base64 (base64.c).                      *)
(* One step: an input is chosen, one of the functions is applied to it.    *)
(***************************************************************************)
EXTENDS Integers, Sequences, SequencesExt

CONSTANTS
    PathLen, HostLen, ListLen, UrlLen,  \* longest inputs
    SsiBuf, PageLen,                    \* mod_ssi's buffer, the longest page
    IntBits                             \* width of intmax_t

ASSUME TextAssumption == PathLen \in Nat /\ HostLen \in Nat /\ ListLen \in Nat /\ UrlLen \in Nat /\ IntBits \in Nat
                      /\ SsiBuf \in Nat /\ PageLen \in Nat

VARIABLES
    tjob,           \* which function
    tin,            \* its input
    tout,           \* its result
    tdone           \* whether it was applied

textVars == <<tjob, tin, tout, tdone>>

(* Character codes. *)
NUL == 0
LF == 10
Space == 32
Percent == 37
Plus == 43
Comma == 44
Dash == 45
Dot == 46
Slash == 47
Colon == 58
OpenBracket == 91
CloseBracket == 93

IsDigit(c) == c \in 48 .. 57
IsAlnum(c) == c \in 48 .. 57 \/ c \in 65 .. 90 \/ c \in 97 .. 122

----------------------------------------------------------------------------
(* buffer_path_simplify(dest, src), where dest is src: mem is the memory of both, walk
   and out are the places read and written, slash is where the last component began. *)

Put(mem, i, c) == [mem EXCEPT ![i] = c]

(* Back to the component before the one at slash. *)
RECURSIVE StepBack(_, _)
StepBack(mem, out) == IF out > 1 /\ mem[out] # Slash THEN StepBack(mem, out - 1) ELSE out

(* The end of a component: where to go on writing. *)
Component(mem, slash, out, pre2, pre1, end) ==
    LET len == out - slash
        more == IF end THEN 1 ELSE 0
    IN  IF len = 3 /\ pre2 = Dot /\ pre1 = Dot
        THEN more + (IF slash > 1 THEN StepBack(mem, slash - 1) ELSE slash)
        ELSE IF len = 1 \/ (pre2 = Slash /\ pre1 = Dot) THEN slash + more
        ELSE out

RECURSIVE Simplify(_, _, _, _, _, _)
Simplify(mem, walk, out, slash, pre1, c) ==
    IF c = NUL THEN SubSeq(mem, 1, out - 1)
    ELSE LET next == mem[walk]
             written == Put(mem, out, c)
             end == Component(written, slash, out + 1, pre1, c, next = NUL)
         IN  IF next \in {Slash, NUL}
             THEN Simplify(written, walk + 1, end, end, c, next)
             ELSE Simplify(written, walk + 1, out + 1, slash, c, next)

buffer_path_simplify(s) ==
    IF s = <<>> THEN <<>>
    ELSE LET mem == s \o <<NUL, NUL>>
             first == CHOOSE i \in 1 .. Len(s) + 1 : mem[i] # Space /\ \A j \in 1 .. i - 1 : mem[j] = Space
             c == mem[first]
         IN  IF c = Slash THEN Simplify(mem, first + 1, 1, 1, NUL, c)
             ELSE Simplify(Put(mem, 1, Slash), first + 1, 2, 1, Slash, c)

(* Reference: the components between slashes, resolved one by one. *)
RECURSIVE Split(_, _)
Split(s, sep) ==
    IF \E i \in 1 .. Len(s) : s[i] = sep
    THEN LET i == CHOOSE i \in 1 .. Len(s) : s[i] = sep /\ \A j \in 1 .. i - 1 : s[j] # sep
         IN  <<SubSeq(s, 1, i - 1)>> \o Split(SubSeq(s, i + 1, Len(s)), sep)
    ELSE <<s>>

RECURSIVE Stripped(_)
Stripped(s) == IF s # <<>> /\ Head(s) = Space THEN Stripped(Tail(s)) ELSE s

Resolve(s) ==
    LET parts == Split(Stripped(s), Slash)
        up(path) == IF path = <<>> THEN <<>> ELSE Front(path)
        dirs == FoldLeft(LAMBDA path, p : IF p \in {<<>>, <<Dot>>} THEN path
                                          ELSE IF p = <<Dot, Dot>> THEN up(path)
                                          ELSE Append(path, p), <<>>, parts)
        text == FoldLeft(LAMBDA acc, p : acc \o <<Slash>> \o p, <<>>, dirs)
        open == Last(parts) \in {<<>>, <<Dot>>, <<Dot, Dot>>}
    IN  IF open \/ dirs = <<>> THEN text \o <<Slash>> ELSE text

----------------------------------------------------------------------------
(* URL encoding *)

hex2int(c) == IF c \in 48 .. 57 THEN c - 48 ELSE IF c \in 97 .. 102 THEN c - 87 ELSE IF c \in 65 .. 70 THEN c - 55 ELSE -1
HexChar(n) == IF n < 10 THEN 48 + n ELSE 87 + n

(* "%" and two digits at the head of s. *)
HexPair(s) == Len(s) >= 3 /\ hex2int(s[2]) >= 0 /\ hex2int(s[3]) >= 0

(* buffer_urldecode_internal(): control characters become "_". *)
RECURSIVE buffer_urldecode_internal(_, _)
buffer_urldecode_internal(s, query) ==
    IF s = <<>> THEN <<>>
    ELSE IF query /\ s[1] = Plus THEN <<Space>> \o buffer_urldecode_internal(Tail(s), query)
    ELSE IF s[1] = Percent /\ HexPair(s)
    THEN LET c == hex2int(s[2]) * 16 + (IF Len(s) >= 3 THEN hex2int(s[3]) ELSE 0)
         IN  <<IF c < 32 \/ c = 127 THEN 95 ELSE c>> \o buffer_urldecode_internal(SubSeq(s, 4, Len(s)), query)
    ELSE <<s[1]>> \o buffer_urldecode_internal(Tail(s), query)

(* encoded_chars_rel_uri_part and the other tables: what is written as it is. *)
Plain(c, encoding) ==
    CASE encoding = "rel_uri_part" -> IsAlnum(c) \/ c \in {33, 40, 41, 42, Dash, Dot, 95, 126}
      [] encoding = "rel_uri" -> IsAlnum(c) \/ c \in {33, 40, 41, 42, Dash, Dot, 95, 126, Slash}
      [] encoding = "html" -> c \in 32 .. 126 /\ c \notin {34, 38, 39, 60, 62, 96}
      [] encoding = "minimal_xml" -> c >= 32 /\ c \notin {34, 38, 39, 60, 62, 96, 127}
      [] encoding = "hex" -> FALSE
      [] encoding = "http_header" -> c # LF

Encodings == {"rel_uri_part", "rel_uri", "html", "minimal_xml", "hex", "http_header"}

(* The first pass of buffer_append_string_encoded(): the room that is needed. *)
EncodedLength(s, encoding) ==
    FoldLeft(LAMBDA n, c : n + IF Plain(c, encoding) THEN 1
                               ELSE IF encoding \in {"rel_uri_part", "rel_uri"} THEN 3
                               ELSE IF encoding \in {"html", "minimal_xml"} THEN 6 ELSE 2, 0, s)

(* The second pass. *)
Encoded(s, encoding) ==
    FoldLeft(LAMBDA t, c :
                 t \o (CASE Plain(c, encoding) -> <<c>>
                         [] ~Plain(c, encoding) /\ encoding \in {"rel_uri_part", "rel_uri"} ->
                              <<Percent, HexChar(c \div 16), HexChar(c % 16)>>
                         [] ~Plain(c, encoding) /\ encoding \in {"html", "minimal_xml"} ->
                              <<38, 35, 120, HexChar(c \div 16), HexChar(c % 16), 59>>
                         [] ~Plain(c, encoding) /\ encoding = "hex" -> <<HexChar(c \div 16), HexChar(c % 16)>>
                         [] ~Plain(c, encoding) /\ encoding = "http_header" -> <<c, 9>>), <<>>, s)

(* buffer_append_string_c_escaped() *)
Escaped(s) ==
    FoldLeft(LAMBDA t, c :
                 t \o (CASE c \in 32 .. 126 -> <<c>>
                         [] c \in {9, 10, 13} -> <<92, IF c = 9 THEN 116 ELSE IF c = 10 THEN 110 ELSE 114>>
                         [] OTHER -> <<92, 120, HexChar(c \div 16), HexChar(c % 16)>>), <<>>, s)

----------------------------------------------------------------------------
(* Lists: http_request_split_value() *)

SplitStep(a, c) ==
    IF a.state = 0
    THEN IF c \in {Space, Comma, NUL} THEN a ELSE [a EXCEPT !.state = 1, !.token = <<c>>, !.space = <<>>]
    ELSE IF c \in {Comma, NUL} THEN [a EXCEPT !.state = 0, !.vals = Append(@, a.token)]
    ELSE IF c = Space THEN [a EXCEPT !.space = Append(@, c)]
    ELSE [a EXCEPT !.token = @ \o a.space \o <<c>>, !.space = <<>>]

http_request_split_value(s) ==
    FoldLeft(SplitStep, [state |-> 0, token |-> <<>>, space |-> <<>>, vals |-> <<>>], Append(s, NUL)).vals

(* Reference: what is between commas, without the spaces around it. *)
Tokens(s) ==
    LET trim(t) == Reverse(Stripped(Reverse(Stripped(t))))
        parts == Split(s, Comma)
    IN  SelectSeq([i \in 1 .. Len(parts) |-> trim(parts[i])], LAMBDA t : t # <<>>)

----------------------------------------------------------------------------
(* Host names: request_check_hostname() *)

(* The address in brackets, and the port after it. *)
CheckIPv6(s) ==
    LET ends == {i \in 2 .. Len(s) : s[i] = CloseBracket}
        end == CHOOSE i \in ends : \A j \in ends : i <= j
    IN  /\ ends # {}
        /\ \A i \in 2 .. end - 1 : s[i] \in {Colon, Dot} \/ hex2int(s[i]) >= 0
        /\ Len(SelectSeq(SubSeq(s, 2, end - 1), LAMBDA c : c = Colon)) <= 7
        /\ end = Len(s) \/ (s[end + 1] = Colon /\ \A i \in end + 2 .. Len(s) : IsDigit(s[i]))

(* A character of a label that is not the last one; the name is read from the right. *)
DomainChar(h, i, a) ==
    LET c == h[i]
    IN  IF a.ip = 1
        THEN IF c = Dot THEN [a EXCEPT !.len = 0, !.level = @ + 1, !.ok = @ /\ a.len # 0]
             ELSE [a EXCEPT !.len = @ + 1, !.ok = @ /\ IsDigit(c)]
        ELSE IF c = Dot THEN [a EXCEPT !.len = 0, !.level = @ + 1, !.ok = @ /\ a.len # 0 /\ h[i + 1] # Dash]
        ELSE [a EXCEPT !.len = @ + 1, !.ok = @ /\ (IsAlnum(c) \/ (c = Dash /\ i # 1))]

(* A character of the last label; the dot before it tells a name from an address. *)
TopChar(h, i, a) ==
    LET c == h[i]
    IN  CASE c = Dot /\ i # Len(h) ->
               [a EXCEPT !.stage = "domain", !.len = 0, !.level = @ + 1,
                         !.ip = IF a.ip = 0 \/ ~IsDigit(h[i + 1]) THEN 0 ELSE 1,
                         !.ok = @ /\ a.len # 0 /\ (a.ip = 0 => IsAlnum(h[i + 1]))]
          [] c = Dot /\ i = Len(h) -> [a EXCEPT !.ok = @ /\ i # 1]
          [] c # Dot /\ i = 1 -> [a EXCEPT !.len = @ + 1, !.ok = @ /\ IsAlnum(c)]
          [] c # Dot /\ i # 1 ->
               [a EXCEPT !.len = @ + 1, !.ok = @ /\ (c = Dash \/ IsAlnum(c)),
                         !.ip = IF @ = -1 /\ ~IsDigit(c) THEN 0 ELSE @]

CheckName(h) ==
    LET a == FoldLeft(LAMBDA acc, i : IF acc.stage = "top" THEN TopChar(h, i, acc) ELSE DomainChar(h, i, acc),
                      [stage |-> "top", len |-> 0, ip |-> -1, level |-> 0, ok |-> TRUE],
                      Reverse([i \in 1 .. Len(h) |-> i]))
    IN  a.ok /\ (a.ip = 1 => a.level = 3) /\ a.len # 0

(* Whether the name is taken, and what is kept of it: one dot at the end is dropped. *)
request_check_hostname(s) ==
    LET colons == {i \in 1 .. Len(s) : s[i] = Colon}
        colon == IF colons = {} THEN Len(s) + 1 ELSE CHOOSE i \in colons : \A j \in colons : i <= j
        name == SubSeq(s, 1, colon - 1)
        port == SubSeq(s, colon, Len(s))
        bare == IF name # <<>> /\ Last(name) = Dot THEN Front(name) ELSE name
    IN  IF s # <<>> /\ s[1] = OpenBracket THEN [ok |-> CheckIPv6(s), host |-> s]
        ELSE [ok |-> /\ \A i \in 2 .. Len(port) : IsDigit(port[i])
                     /\ bare # <<>> /\ CheckName(bare),
              host |-> bare \o port]

(* Reference: the grammar in the comment of request_check_hostname(). *)
Hostname(s) ==
    LET parts == Split(s, Colon)
        labels == Split(parts[1], Dot)
        names == IF Len(labels) > 1 /\ Last(labels) = <<>> THEN Front(labels) ELSE labels
        label(l) == /\ l # <<>> /\ IsAlnum(l[1]) /\ IsAlnum(Last(l))
                    /\ \A i \in 1 .. Len(l) : IsAlnum(l[i]) \/ l[i] = Dash
        digits(l) == l # <<>> /\ \A i \in 1 .. Len(l) : IsDigit(l[i])
    IN  /\ Len(parts) <= 2 /\ (Len(parts) = 2 => \A i \in 1 .. Len(parts[2]) : IsDigit(parts[2][i]))
        /\ \/ (\A i \in 1 .. Len(names) : label(names[i])) /\ ~IsDigit(Last(names)[1])
           \/ Len(labels) = 4 /\ \A i \in 1 .. 4 : digits(labels[i])

(* Ways to write a host and its port: a name, an IPv4 address with dots or as one number
   in some base, an IPv6 address short or in full, or a broken one; no port, a colon
   alone, a number in some base, one that is out of range or no number. *)
HostForms == [kind : {"name", "dotted", "number", "octal", "v6short", "v6full", "v6broken"},
              port : {"none", "colon", "octal", "hex", "decimal", "range", "junk"}]

(* http_request_host_normalize(): the address is written anew from its value, and so is
   the port, which is left out if there is none. *)
http_request_host_normalize(h) ==
    IF h.port \in {"range", "junk"} \/ h.kind = "v6broken" THEN [ok |-> FALSE, host |-> h]
    ELSE [ok |-> TRUE,
          host |-> [kind |-> IF h.kind \in {"number", "octal"} THEN "dotted"
                             ELSE IF h.kind = "v6full" THEN "v6short" ELSE h.kind,
                    port |-> IF h.port \in {"none", "colon"} THEN "none" ELSE "decimal"]]

(* Reference: the host and the port that are meant. *)
Meaning(h) ==
    [host |-> CASE h.kind = "name" -> "name"
                [] h.kind \in {"dotted", "number", "octal"} -> "v4"
                [] h.kind \in {"v6short", "v6full"} -> "v6"
                [] h.kind = "v6broken" -> "nothing",
     port |-> IF h.port \in {"none", "colon"} THEN "default" ELSE IF h.port \in {"range", "junk"} THEN "wrong" ELSE "number"]

----------------------------------------------------------------------------
(* Numbers *)

RECURSIVE Utostr(_)
Utostr(v) == IF v < 10 THEN <<48 + v>> ELSE Append(Utostr(v \div 10), 48 + (v % 10))

(* itostr(): the value in two's complement, so that the smallest number has an absolute
   value. *)
Itostr(v) ==
    LET uval == IF v >= 0 THEN v ELSE ((-v - 1) + 1) % 2^IntBits
    IN  IF v < 0 THEN <<Dash>> \o Utostr(uval) ELSE Utostr(uval)

(* buffer_append_uint_hex(): an even number of digits. *)
RECURSIVE Nibbles(_)
Nibbles(v) == IF v < 256 THEN 2 ELSE 2 + Nibbles(v \div 256)
UintHex(v) == [i \in 1 .. Nibbles(v) |-> HexChar((v \div 16^(Nibbles(v) - i)) % 16)]

(* Reference: what a text of digits is worth. *)
Value(s, base) == FoldLeft(LAMBDA n, c : n * base + hex2int(c), 0, s)

----------------------------------------------------------------------------
(* base64, with digits 0 .. 63 for the characters of its table, Pad for the padding and
   Skip for white space (base64.c) *)

Pad == 64
Skip == 65
Bad == 66

(* The last group: one digit is too few, and bits that belong to no byte must be 0. *)
DecodeEnd(group, bits) == group # 1 /\ (group \in {2, 3} => bits = 0)

Rejected == [ok |-> FALSE, bytes |-> <<>>]

(* buffer_append_base64_decode(): out has the complete bytes, bits the begun one. *)
RECURSIVE Decode(_, _, _, _)
Decode(s, out, group, bits) ==
    IF s = <<>> \/ s[1] = Pad
    THEN IF (s # <<>> /\ group < 2) \/ ~DecodeEnd(group, bits) THEN Rejected ELSE [ok |-> TRUE, bytes |-> out]
    ELSE IF s[1] = Bad THEN Rejected
    ELSE IF s[1] = Skip THEN Decode(Tail(s), out, group, bits)
    ELSE LET d == s[1]
         IN  CASE group = 0 -> Decode(Tail(s), out, 1, d * 4)
               [] group = 1 -> Decode(Tail(s), Append(out, bits + d \div 16), 2, (d % 16) * 16)
               [] group = 2 -> Decode(Tail(s), Append(out, bits + d \div 4), 3, (d % 4) * 64)
               [] group = 3 -> Decode(Tail(s), Append(out, bits + d), 0, 0)

buffer_append_base64_decode(s) == Decode(s, <<>>, 0, 0)

(* li_to_base64_no_padding(): three bytes are four digits. *)
RECURSIVE li_to_base64_no_padding(_)
li_to_base64_no_padding(b) ==
    CASE Len(b) = 0 -> <<>>
      [] Len(b) = 1 -> LET v == b[1] * 16 IN <<v \div 64, v % 64>>
      [] Len(b) = 2 -> LET v == b[1] * 1024 + b[2] * 4 IN <<v \div 4096, (v \div 64) % 64, v % 64>>
      [] Len(b) >= 3 -> LET v == b[1] * 65536 + b[2] * 256 + b[3]
                        IN  <<v \div 262144, (v \div 4096) % 64, (v \div 64) % 64, v % 64>>
                            \o li_to_base64_no_padding(SubSeq(b, 4, Len(b)))

li_to_base64(b) ==
    li_to_base64_no_padding(b) \o [i \in 1 .. (IF Len(b) % 3 = 0 THEN 0 ELSE 3 - (Len(b) % 3)) |-> Pad]

----------------------------------------------------------------------------
(* mod_ssi_read_fd(): a page is read through a buffer of SsiBuf characters and cut into
   text and statements.  Here "<#" stands for "<!--#" and ">" for "-->"; a statement
   whose name is "x" hides or shows the text after it, as if and endif do. *)

OpenTag == 60
Hash == 35
CloseTag == 62
Quote == 34
Executed == 1           \* a statement was executed
DirectiveTooLong == 2            \* "directive too long"

(* mod_ssi_stmt_len(): the first end outside quotes, or 0. *)
RECURSIVE StmtLen(_, _, _)
StmtLen(s, n, quoted) ==
    IF n > Len(s) THEN 0
    ELSE IF s[n] = CloseTag /\ ~quoted THEN n
    ELSE StmtLen(s, n + 1, IF s[n] = Quote THEN ~quoted ELSE quoted)

mod_ssi_stmt_len(s) == StmtLen(s, 3, FALSE)

(* mod_ssi_parse_ssi_stmt(): a statement that has no name is put out as it is. *)
mod_ssi_parse_ssi_stmt(r, stmt) ==
    IF stmt[3] = 97 THEN [r EXCEPT !.hidden = ~@, !.out = Append(@, Executed)]
                    ELSE [r EXCEPT !.out = @ \o stmt]

PutText(r, text) == IF r.hidden THEN r ELSE [r EXCEPT !.out = @ \o text]

From(s, i) == SubSeq(s, i, Len(s))

(* Mutant: an opening that is cut by the end of the buffer is text. *)
CutOpening_IsText(r, at) == [r EXCEPT !.again = at + 1]

(* The "<" is the last character in the buffer: it is kept for the next read. *)
CutOpening(r, at) ==
    [PutText(r, SubSeq(r.buf, r.pretag, at - 1)) EXCEPT !.buf = From(r.buf, at), !.pretag = 1, !.again = 0]

(* A statement begins at `at'. *)
Opening(r, at) ==
    LET before == PutText(r, SubSeq(r.buf, r.pretag, at - 1))
        len == mod_ssi_stmt_len(From(r.buf, at))
        after == at + len
        run == mod_ssi_parse_ssi_stmt(before, SubSeq(r.buf, at, after - 1))
    IN  IF len > 0
        THEN IF after > Len(r.buf) THEN [run EXCEPT !.buf = <<>>, !.pretag = 1, !.again = 0]
                                   ELSE [run EXCEPT !.pretag = after, !.again = after]
        ELSE IF at = 1 /\ Len(r.buf) = SsiBuf
        THEN [before EXCEPT !.out = Append(@, DirectiveTooLong), !.buf = <<>>, !.pretag = 1, !.again = 0]
        ELSE [before EXCEPT !.buf = From(r.buf, at), !.pretag = 1, !.again = 0]

(* The loop over the "<" of the buffer; again is where it goes on, 0 when it is left. *)
RECURSIVE ScanBuffer(_)
ScanBuffer(r) ==
    LET tags == {i \in 1 .. Len(r.buf) : i >= r.again /\ r.buf[i] = OpenTag}
        at == CHOOSE i \in tags : \A j \in tags : i <= j
    IN  IF r.again = 0 \/ tags = {} THEN r
        ELSE IF at = Len(r.buf) THEN ScanBuffer(CutOpening(r, at))
        ELSE IF r.buf[at + 1] = Hash THEN ScanBuffer(Opening(r, at))
        ELSE ScanBuffer([r EXCEPT !.again = at + 1])

(* The reads: each fills the buffer, until the end of the file. *)
RECURSIVE mod_ssi_read_fd(_, _)
mod_ssi_read_fd(r, rest) ==
    IF rest = <<>> THEN PutText(r, From(r.buf, r.pretag)).out
    ELSE LET free == SsiBuf - Len(r.buf)
             n == IF Len(rest) < free THEN Len(rest) ELSE free
             scanned == ScanBuffer([r EXCEPT !.buf = @ \o SubSeq(rest, 1, n), !.again = 1])
             flushed == IF Len(scanned.buf) < SsiBuf THEN scanned
                        ELSE [PutText(scanned, From(scanned.buf, scanned.pretag)) EXCEPT !.buf = <<>>, !.pretag = 1]
         IN  mod_ssi_read_fd(flushed, From(rest, n + 1))

SsiPage(s) == mod_ssi_read_fd([buf |-> <<>>, pretag |-> 1, hidden |-> FALSE, out |-> <<>>, again |-> 1], s)

(* Reference: the page cut in one go. *)
RECURSIVE WholePage(_, _)
WholePage(s, r) ==
    IF s = <<>> THEN r.out
    ELSE IF Len(s) > 1 /\ s[1] = OpenTag /\ s[2] = Hash /\ mod_ssi_stmt_len(s) > 0
    THEN WholePage(From(s, mod_ssi_stmt_len(s) + 1), mod_ssi_parse_ssi_stmt(r, SubSeq(s, 1, mod_ssi_stmt_len(s))))
    ELSE WholePage(Tail(s), PutText(r, <<s[1]>>))

(* No statement, and no begun one, is longer than the buffer. *)
RECURSIVE StatementsFit(_)
StatementsFit(s) ==
    IF s = <<>> THEN TRUE
    ELSE IF Len(s) > 1 /\ s[1] = OpenTag /\ s[2] = Hash
    THEN LET n == mod_ssi_stmt_len(s)
         IN  IF n = 0 THEN Len(s) < SsiBuf ELSE n <= SsiBuf /\ StatementsFit(From(s, n + 1))
    ELSE StatementsFit(Tail(s))

----------------------------------------------------------------------------
(* Inputs *)

Strings(chars, n) == UNION {[1 .. k -> chars] : k \in 0 .. n}

Jobs == {"path", "url", "encode", "list", "host", "normalize", "number", "base64", "base64text", "page"}

Inputs(job) ==
    CASE job = "path" -> Strings({Slash, Dot, 97, Space}, PathLen)
      [] job = "url" -> Strings({Percent, 50, 101, 70, Plus, Slash}, UrlLen)
      [] job = "encode" -> Strings({LF, Space, Percent, Plus, Slash, 60, 127, 200}, 2)
      [] job = "list" -> Strings({97, Space, Comma}, ListLen)
      [] job = "host" -> Strings({97, 49, Dash, Dot, Colon, OpenBracket, CloseBracket}, HostLen)
                         \cup [1 .. 7 -> {97, 49, Dot}]
      [] job = "normalize" -> HostForms
      [] job = "number" -> -(2^(IntBits - 1)) .. 2^(IntBits - 1) - 1
      [] job = "base64" -> Strings({0, 1, 127, 255}, 4)
      [] job = "base64text" -> Strings({0, 16, 63, Pad, Skip, Bad}, 4)
      [] job = "page" -> Strings({OpenTag, Hash, CloseTag, Quote, 97}, PageLen)
                         \cup [1 .. PageLen + 1 -> {OpenTag, Hash, CloseTag, 97}]

Result(job, in) ==
    CASE job = "path" -> buffer_path_simplify(in)
      [] job = "url" -> [path |-> buffer_urldecode_internal(in, FALSE), query |-> buffer_urldecode_internal(in, TRUE)]
      [] job = "encode" -> [e \in Encodings |-> Encoded(in, e)]
      [] job = "list" -> http_request_split_value(in)
      [] job = "host" -> request_check_hostname(in)
      [] job = "normalize" -> http_request_host_normalize(in)
      [] job = "number" -> Itostr(in)
      [] job = "base64" -> li_to_base64(in)
      [] job = "base64text" -> buffer_append_base64_decode(in)
      [] job = "page" -> SsiPage(in)

TextInit ==
    /\ tjob \in Jobs
    /\ tin \in Inputs(tjob)
    /\ tout = <<>> /\ tdone = FALSE

Apply ==
    /\ ~tdone /\ tdone' = TRUE
    /\ tout' = Result(tjob, tin)
    /\ UNCHANGED <<tjob, tin>>

TextSpec == TextInit /\ [][Apply]_textVars

Done(job) == tjob = job /\ tdone

----------------------------------------------------------------------------
(* Properties *)

(* A simplified path is the path resolved component by component, although it is
   rewritten in place, and simplifying it again changes nothing: no "..", "." or empty
   component is left (buffer_path_simplify). *)
PathResolved ==
    Done("path") => /\ tout = IF tin = <<>> THEN <<>> ELSE Resolve(tin)
                    /\ buffer_path_simplify(tout) = tout

(* Decoding undoes encoding, but for control characters, and takes nothing that is not
   complete; the room that buffer_append_string_encoded() reserves is the room it fills;
   what is escaped for the log has only printable characters. *)
UrlRoundTrip ==
    /\ Done("encode") => /\ \A e \in Encodings : Len(tout[e]) = EncodedLength(tin, e)
                         /\ LET t == Escaped(tin) IN \A i \in 1 .. Len(t) : t[i] \in 32 .. 126
                         /\ \A e \in {"rel_uri", "rel_uri_part"} :
                              buffer_urldecode_internal(tout[e], TRUE)
                                = [i \in 1 .. Len(tin) |-> IF tin[i] < 32 \/ tin[i] = 127 THEN 95 ELSE tin[i]]
    /\ Done("url") => Len(tout.path) <= Len(tin) /\ Len(tout.query) = Len(tout.path)
                       /\ (tin # <<>> /\ Last(tin) = Percent => Last(tout.path) = Percent)

(* A list is split into what stands between its commas (http_request_split_value). *)
ListSplit == Done("list") => tout = Tokens(tin)

(* Every host name of the grammar is taken, without the dot at its end and with its port;
   and what is taken has no empty label inside it and no character that a name cannot
   have (request_check_hostname). *)
HostChecked ==
    /\ Done("host") /\ Hostname(tin) => tout.ok
    /\ Done("host") /\ tout.ok /\ tin[1] # OpenBracket
         => LET name == Split(tout.host, Colon)[1]
                labels == Split(name, Dot)
            IN  /\ \A i \in 1 .. Len(name) : IsAlnum(name[i]) \/ name[i] \in {Dot, Dash}
                /\ \A i \in 1 .. Len(labels) - 1 : labels[i] # <<>>
                /\ IsAlnum(name[1])

(* However a host is written, a normalised one is compared by what it means: two that mean
   the same are the same text, and none is changed again (http_request_host_normalize). *)
HostCanonical ==
    Done("normalize") /\ tout.ok =>
        /\ \A h \in HostForms : Meaning(h) = Meaning(tin) => http_request_host_normalize(h) = tout
        /\ http_request_host_normalize(tout.host) = tout

(* A number is written so that it can be read back, the smallest one too
   (buffer_append_int, buffer_append_uint_hex). *)
NumbersReadBack ==
    Done("number") =>
        /\ IF tin < 0 THEN tout[1] = Dash /\ Value(Tail(tout), 10) = -tin ELSE Value(tout, 10) = tin
        /\ tin >= 0 => Value(UintHex(tin), 16) = tin

(* What is encoded is decoded to itself, with or without its padding; and whatever is
   decoded is what one encoding, and only one, stands for (base64.c). *)
Base64RoundTrip ==
    /\ Done("base64") => /\ buffer_append_base64_decode(tout) = [ok |-> TRUE, bytes |-> tin]
                         /\ buffer_append_base64_decode(li_to_base64_no_padding(tin)) = [ok |-> TRUE, bytes |-> tin]
    /\ Done("base64text") /\ tout.ok
         => LET digits == SelectSeq(tin, LAMBDA c : c < Pad)
            IN  (\A i \in 1 .. Len(tin) - 1 : tin[i] # Pad) => li_to_base64_no_padding(tout.bytes) = digits

(* Where the reads cut a page does not matter: its text and statements come out as if it
   were read in one go, as long as each statement fits in the buffer (mod_ssi_read_fd). *)
PageCutRight ==
    Done("page") /\ StatementsFit(tin) => tout = WholePage(tin, [hidden |-> FALSE, out |-> <<>>])

(* The functions on texts, each with the bounds of its buffer, do what their callers take
   them to do. *)
TextCorrect ==
    /\ PathResolved /\ UrlRoundTrip /\ ListSplit /\ HostChecked
    /\ HostCanonical /\ NumbersReadBack /\ Base64RoundTrip /\ PageCutRight
=============================================================================
