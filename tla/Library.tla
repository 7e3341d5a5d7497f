------------------------------ MODULE Library ------------------------------
(***************************************************************************)
(* lib/string.c and the printf path of lib/stdio.c.  The calls run on one *)
(* byte memory mem, addresses 0..N-1; a pointer is an address.  Every loop *)
(* of the C code is a RECURSIVE operator that walks the pointers as the    *)
(* loop does; a call that writes is an action, a call that only reads is   *)
(* an operator checked in every reachable memory.  A call whose loop would *)
(* leave mem (an unterminated string, a destination too short) corrupts   *)
(* memory outside the model, and is not taken.                            *)
(*                                                                         *)
(* char is signed on i386: a byte read through a char pointer is compared *)
(* as SignedChar of it.                                                    *)
(***************************************************************************)
EXTENDS Integers, Sequences, FiniteSets, FiniteSetsExt

CONSTANTS
    N,        \* bytes of mem
    Bytes,    \* the byte values stored and passed as arguments, 0 among them
    Formats,  \* format strings given to printf, byte sequences without NUL
    Words,    \* the 32-bit words pushed as printf arguments, [hi, lo] halves
    BufLen    \* the bytes of printf's char buf[1024] the model keeps

VARIABLES
    mem,   \* the bytes of memory
    call   \* the last call and its arguments (and, for printf, what it wrote)

vars == <<mem, call>>

Addr == 0..N-1
NUL == 0
NullPtr == -1                    \* NULL, an address outside mem

SignedChar(c) == IF c >= 128 THEN c - 256 ELSE c

Terminated(m, p) == NUL \in {m[i] : i \in p..N-1}

(* Both ranges [a, a+na) and [b, b+nb) are apart.                          *)
Disjoint(a, na, b, nb) == a + na <= b \/ b + nb <= a

(***************************************************************************)
(* The loops of string.c.                                                  *)
(***************************************************************************)

(* strlen: p walks to the NUL, the address returned here.                 *)
RECURSIVE StrEnd(_, _)
StrEnd(m, p) == IF m[p] = NUL THEN p ELSE StrEnd(m, p + 1)

StrlenPastNul(m, str) == StrEnd(m, str) - str + 1

(* return p - str - 1, p having moved one past the NUL.                    *)
Strlen(m, str) == StrEnd(m, str) - str

(* strcmp: walk while *a is not NUL and equals *b, then order the chars.  *)
RECURSIVE Strcmp(_, _, _)
Strcmp(m, a, b) ==
    IF m[a] # NUL /\ m[a] = m[b] THEN Strcmp(m, a + 1, b + 1)
    ELSE IF SignedChar(m[a]) < SignedChar(m[b]) THEN -1
    ELSE IF SignedChar(m[a]) > SignedChar(m[b]) THEN 1
    ELSE 0

(* memcmp: the first differing byte of size bytes decides.                 *)
RECURSIVE Memcmp(_, _, _, _)
Memcmp(m, a, b, size) ==
    IF size = 0 THEN 0
    ELSE IF m[a] # m[b] THEN (IF SignedChar(m[a]) > SignedChar(m[b]) THEN 1 ELSE -1)
    ELSE Memcmp(m, a + 1, b + 1, size - 1)

(* strchr: the first char equal to ch, NULL at the NUL.                    *)
RECURSIVE Strchr(_, _, _)
Strchr(m, str, ch) ==
    IF m[str] = NUL THEN NullPtr
    ELSE IF SignedChar(m[str]) = ch THEN str
    ELSE Strchr(m, str + 1, ch)

(* strrchr: last_char is moved to every char equal to ch.                  *)
RECURSIVE StrrchrLoop(_, _, _, _)
StrrchrLoop(m, str, ch, last_char) ==
    IF m[str] = NUL THEN last_char
    ELSE StrrchrLoop(m, str + 1, ch, IF SignedChar(m[str]) = ch THEN str ELSE last_char)

Strrchr(m, str, ch) == StrrchrLoop(m, str, ch, NullPtr)

(* strchrs: ch_cnt counts the chars equal to ch.                            *)
RECURSIVE Strchrs(_, _, _)
Strchrs(m, p, ch) ==
    IF m[p] = NUL THEN 0
    ELSE (IF SignedChar(m[p]) = ch THEN 1 ELSE 0) + Strchrs(m, p + 1, ch)

(* memset: size bytes from dst set to value.                               *)
Memset(m, dst, value, size) ==
    [i \in Addr |-> IF i - dst \in 0..size-1 THEN value ELSE m[i]]

(* memcpy: a forward copy, one byte at a time.                             *)
RECURSIVE Memcpy(_, _, _, _)
Memcpy(m, dst, src, size) ==
    IF size = 0 THEN m
    ELSE Memcpy([m EXCEPT ![dst] = m[src]], dst + 1, src + 1, size - 1)

RECURSIVE CopyLoopNoNul(_, _, _)
CopyLoopNoNul(m, dst, src) ==
    IF dst \notin Addr \/ src \notin Addr THEN [ok |-> FALSE, m |-> m]
    ELSE IF m[src] = NUL THEN [ok |-> TRUE, m |-> m]
    ELSE CopyLoopNoNul([m EXCEPT ![dst] = m[src]], dst + 1, src + 1)

(* The copy loop of strcpy and strcat, *dst_++ = *src_++ until the byte   *)
(* copied is the NUL; ok is FALSE when a pointer leaves mem first.        *)
RECURSIVE CopyLoop(_, _, _)
CopyLoop(m, dst, src) ==
    IF dst \notin Addr \/ src \notin Addr THEN [ok |-> FALSE, m |-> m]
    ELSE LET m2 == [m EXCEPT ![dst] = m[src]]
         IN IF m[src] = NUL THEN [ok |-> TRUE, m |-> m2]
            ELSE CopyLoop(m2, dst + 1, src + 1)

(* strcat: str walks to dst's NUL, then src is copied from there.         *)
Strcat(m, dst, src) == CopyLoop(m, StrEnd(m, dst), src)

(***************************************************************************)
(* stdio.c.  TLC's integers are 32-bit signed, so a 32-bit word is kept   *)
(* as its 16-bit halves [hi, lo]; these operators are word arithmetic,     *)
(* not code.                                                               *)
(***************************************************************************)
Half == 65536

WordDiv(w, b) == [hi |-> w.hi \div b, lo |-> ((w.hi % b) * Half + w.lo) \div b]
WordMod(w, b) == ((w.hi % b) * Half + w.lo) % b
WordIsZero(w) == w.hi = 0 /\ w.lo = 0

(* int32_t arg_int < 0: the sign bit.                                      *)
WordNegative(w) == w.hi >= Half \div 2

(* 0 - arg_int, taken mod 2^32 as the i386 build computes it (INT_MIN     *)
(* stays INT_MIN, and reaches itoa as 2^31).                               *)
WordNeg(w) ==
    IF w.lo = 0 THEN [hi |-> (Half - w.hi) % Half, lo |-> 0]
    ELSE [hi |-> Half - 1 - w.hi, lo |-> Half - w.lo]

Percent == 37
Minus == 45
CharC == 99
CharD == 100
CharS == 115
CharX == 120

(* The ASCII digit of m: '0' + m below 10, else m - 10 + 'A'.              *)
Digit(m) == IF m < 10 THEN m + 48 ELSE m - 10 + 65

RECURSIVE ItoaDigitsReversed(_, _)
ItoaDigitsReversed(value, base) ==
    LET q == WordDiv(value, base) IN
    <<Digit(WordMod(value, base))>> \o
        (IF WordIsZero(q) THEN <<>> ELSE ItoaDigitsReversed(q, base))

(* itoa: the quotient's digits first (if it is not 0), then the remainder. *)
RECURSIVE Itoa(_, _)
Itoa(value, base) ==
    LET q == WordDiv(value, base) IN
    (IF WordIsZero(q) THEN <<>> ELSE Itoa(q, base)) \o <<Digit(WordMod(value, base))>>

(* A format string with its NUL, indexed from 0 as index_ptr walks it.     *)
CStr(s) == [i \in 0..Len(s) |-> IF i < Len(s) THEN s[i + 1] ELSE NUL]

(* The bytes s written at buf_ptr, which moves past them; ok is FALSE     *)
(* when they do not fit the buffer.  buf holds the bytes up to the last    *)
(* one written (buf_ptr is an index into it); the rest are still NUL.      *)
Emit(st, s) ==
    IF st.bp + Len(s) <= BufLen
    THEN [st EXCEPT !.buf = SubSeq(@, 1, st.bp) \o s \o SubSeq(@, st.bp + Len(s) + 1, Len(@)),
                    !.bp = st.bp + Len(s)]
    ELSE [st EXCEPT !.ok = FALSE]

(* va_arg(ap, char): the char at the pushed word, its low byte.            *)
VaArgChar(w) == w.lo % 256

(* A %s argument: a pointer to a string inside mem.                        *)
IsString(m, w) == w.hi = 0 /\ w.lo \in Addr /\ Terminated(m, w.lo)

(* What strcpy(buf_ptr, arg_str) copies: the string and its NUL.           *)
StrBytes(m, p) == [k \in 1..Strlen(m, p) + 1 |-> m[p + k - 1]]

(* The switch on the char c after '%'; index_ptr is at c.  va_arg takes    *)
(* the next pushed word (reading past them is outside the model: ok is    *)
(* FALSE); each case moves index_ptr past c, and a char with no case       *)
(* leaves it at c, which the loop reads next.                              *)
Conversion(c, args, m, st) ==
    IF c \notin {CharS, CharD, CharX, CharC} THEN st
    ELSE IF st.ap >= Len(args) THEN [st EXCEPT !.ok = FALSE]
    ELSE LET w == args[st.ap + 1]
             nx == [st EXCEPT !.ap = @ + 1, !.ip = @ + 1]
         IN CASE c = CharS ->
                   IF IsString(m, w)
                   THEN [Emit(nx, StrBytes(m, w.lo)) EXCEPT !.bp = @ - 1]
                   ELSE [nx EXCEPT !.ok = FALSE]
              [] c = CharD ->
                   IF WordNegative(w) THEN Emit(Emit(nx, <<Minus>>), Itoa(WordNeg(w), 10))
                   ELSE Emit(nx, Itoa(w, 10))
              [] c = CharX -> Emit(nx, Itoa(w, 16))
              [] c = CharC -> Emit(nx, <<VaArgChar(w)>>)

(* vsprintf's while (index_char): a plain char is copied, a '%' hands the *)
(* char after it to the switch.  Nothing writes a NUL after the output.    *)
RECURSIVE Vsprintf(_, _, _, _)
Vsprintf(fmt, args, m, st) ==
    LET index_char == fmt[st.ip] IN
    IF ~st.ok \/ index_char = NUL THEN st
    ELSE IF index_char # Percent
         THEN Vsprintf(fmt, args, m, [Emit(st, <<index_char>>) EXCEPT !.ip = @ + 1])
    ELSE Vsprintf(fmt, args, m, Conversion(fmt[st.ip + 1], args, m, [st EXCEPT !.ip = @ + 1]))

(* char buf[1024] = {0} of printf: nothing written, every byte NUL.       *)
PrintfBuf == <<>>

(* write(1, buf, strlen(buf)): the bytes before the first NUL.             *)
BufText(buf) ==
    LET Z == {k \in DOMAIN buf : buf[k] = NUL}
    IN SubSeq(buf, 1, IF Z = {} THEN Len(buf) ELSE Min(Z) - 1)

(* The argument lists a caller of printf with format fmt pushes: a word   *)
(* for each '%' (the formats of Formats have no "%%").                    *)
ArgSeqs(fmt) == [1..Cardinality({i \in DOMAIN fmt : fmt[i] = Percent}) -> Words]

(* printf: vsprintf into the zeroed buf, then write(1, buf, strlen(buf)). *)
(* The call pushes exactly the words its format takes.                     *)
Printf(fmt, args) ==
    LET st == Vsprintf(CStr(fmt), args, mem,
                       [buf |-> PrintfBuf, bp |-> 0, ip |-> 0, ap |-> 0, ok |-> TRUE])
    IN /\ st.ok
       /\ st.ap = Len(args)
       /\ IF Len(st.buf) < BufLen THEN TRUE ELSE NUL \in {st.buf[i] : i \in DOMAIN st.buf}
       /\ call' = [op |-> "printf", fmt |-> fmt, args |-> args, text |-> BufText(st.buf)]
       /\ UNCHANGED mem

(***************************************************************************)
(* The calls.  Any byte memory is a state the kernel's buffers can be in. *)
(***************************************************************************)
NoCall == [op |-> "none", dst |-> 0, src |-> 0, size |-> 0]

Init ==
    /\ mem \in [Addr -> Bytes]
    /\ call = NoCall

CallMemset ==
    \E dst \in Addr, value \in Bytes, size \in 0..N :
        /\ dst + size <= N
        /\ mem' = Memset(mem, dst, value, size)
        /\ call' = [op |-> "memset", dst |-> dst, src |-> value, size |-> size]

CallMemcpy ==
    \E dst, src \in Addr, size \in 0..N :
        /\ dst + size <= N /\ src + size <= N
        /\ mem' = Memcpy(mem, dst, src, size)
        /\ call' = [op |-> "memcpy", dst |-> dst, src |-> src, size |-> size]

CallStrcpy ==
    \E dst, src \in Addr :
        LET r == CopyLoop(mem, dst, src) IN
        /\ r.ok
        /\ mem' = r.m
        /\ call' = [op |-> "strcpy", dst |-> dst, src |-> src, size |-> 0]

CallStrcat ==
    \E dst, src \in Addr :
        /\ Terminated(mem, dst)
        /\ LET r == Strcat(mem, dst, src) IN
           /\ r.ok
           /\ mem' = r.m
           /\ call' = [op |-> "strcat", dst |-> dst, src |-> src, size |-> 0]

CallPrintf == \E fmt \in Formats : \E args \in ArgSeqs(fmt) : Printf(fmt, args)

Next == CallMemset \/ CallMemcpy \/ CallStrcpy \/ CallStrcat \/ CallPrintf

Spec == Init /\ [][Next]_vars

(***************************************************************************)
(* Reference definitions: what the C library calls promise, stated over   *)
(* the string as a sequence rather than by walking pointers.               *)
(***************************************************************************)

(* The bytes of the string at p, before its first NUL.                     *)
RefStr(m, p) ==
    LET e == Min({i \in p..N-1 : m[i] = NUL}) IN [k \in 1..e - p |-> m[p + k - 1]]

(* The order C gives two byte sequences: the first differing char decides, *)
(* compared as char.                                                        *)
RefOrder(u, v) ==
    LET D == {k \in 1..Len(u) : k <= Len(v) /\ u[k] # v[k]} IN
    IF D = {} THEN 0
    ELSE IF SignedChar(u[Min(D)]) < SignedChar(v[Min(D)]) THEN -1 ELSE 1

RefBytes(m, p, n) == [k \in 1..n |-> m[p + k - 1]]

RECURSIVE DivPow(_, _, _)
DivPow(w, b, k) == IF k = 0 THEN w ELSE DivPow(WordDiv(w, b), b, k - 1)

(* The digits of w in base b, most significant first: the i-th of n is    *)
(* (w / b^(n-i)) mod b, n the least count with w / b^n = 0.                *)
RefDigits(w, b) ==
    LET n == CHOOSE n \in 1..32 :
                 WordIsZero(DivPow(w, b, n)) /\ (n = 1 \/ ~WordIsZero(DivPow(w, b, n - 1)))
        chars == <<48, 49, 50, 51, 52, 53, 54, 55, 56, 57, 65, 66, 67, 68, 69, 70>>
    IN [i \in 1..n |-> chars[WordMod(DivPow(w, b, n - i), b) + 1]]

(* The magnitude of a negative int32, as the two's complement ~w + 1.      *)
RefMagnitude(w) ==
    LET lo == Half - w.lo IN
    [hi |-> (Half - 1 - w.hi + lo \div Half) % Half, lo |-> lo % Half]

(* printf's text for a format whose conversions are %s, %d, %x and %c.    *)
RECURSIVE RefFormat(_, _, _)
RefFormat(f, args, m) ==
    IF f = <<>> THEN <<>>
    ELSE IF Head(f) # Percent THEN <<Head(f)>> \o RefFormat(Tail(f), args, m)
    ELSE LET w == Head(args)
             conv == CASE f[2] = CharS -> RefStr(m, w.lo)
                       [] f[2] = CharC -> <<w.lo % 256>>
                       [] f[2] = CharX -> RefDigits(w, 16)
                       [] f[2] = CharD ->
                            IF WordNegative(w) THEN <<Minus>> \o RefDigits(RefMagnitude(w), 10)
                            ELSE RefDigits(w, 10)
         IN conv \o RefFormat(SubSeq(f, 3, Len(f)), Tail(args), m)

(***************************************************************************)
(* Properties.                                                             *)
(***************************************************************************)
(* The calls that only read, walking their pointers, return what C       *)
(* promises for every string (byte range) of memory: strlen its length;    *)
(* strchr, strrchr and strchrs the first and last position (NULL if none) *)
(* and the count of an ASCII ch; strcmp and memcmp the order of the first  *)
(* differing char, the NUL taking part in strcmp so that a prefix sorts    *)
(* first.                                                                  *)
ReadsAgree ==
    \A p, q \in Addr :
        /\ Terminated(mem, p) =>
             LET s == RefStr(mem, p) IN
             /\ Strlen(mem, p) = Len(s)
             /\ \A ch \in Bytes \cap 1..127 :
                  LET H == {k \in 1..Len(s) : s[k] = ch} IN
                  /\ Strchr(mem, p, ch) = IF H = {} THEN NullPtr ELSE p + Min(H) - 1
                  /\ Strrchr(mem, p, ch) = IF H = {} THEN NullPtr ELSE p + Max(H) - 1
                  /\ Strchrs(mem, p, ch) = Cardinality(H)
             /\ Terminated(mem, q) =>
                  Strcmp(mem, p, q) = RefOrder(s \o <<NUL>>, RefStr(mem, q) \o <<NUL>>)
        /\ \A size \in 0..N :
             p + size <= N /\ q + size <= N =>
                 Memcmp(mem, p, q, size) = RefOrder(RefBytes(mem, p, size), RefBytes(mem, q, size))

(* memcpy, strcpy and strcat on apart source and destination leave at dst *)
(* the source bytes, the source string, the old string followed by the    *)
(* source string, and change no byte but those their loops write.          *)
CopiesAgree ==
    [][LET d == call'.dst
           s == call'.src
           ls == Len(RefStr(mem, s))
       IN /\ call'.op = "memcpy" /\ Disjoint(d, call'.size, s, call'.size) =>
                 mem' = [i \in Addr |-> IF i - d \in 0..call'.size - 1 THEN mem[s + i - d]
                                        ELSE mem[i]]
          /\ call'.op = "strcpy" /\ Terminated(mem, s) /\ Disjoint(d, ls + 1, s, ls + 1) =>
                 /\ Terminated(mem', d) /\ RefStr(mem', d) = RefStr(mem, s)
                 /\ \A i \in Addr \ (d..d + ls) : mem'[i] = mem[i]
          /\ call'.op = "strcat" /\ Terminated(mem, s) =>
                 LET ld == Len(RefStr(mem, d)) IN
                 Disjoint(d, ld + ls + 1, s, ls + 1) =>
                     /\ Terminated(mem', d)
                     /\ RefStr(mem', d) = RefStr(mem, d) \o RefStr(mem, s)
                     /\ \A i \in Addr \ (d + ld..d + ld + ls) : mem'[i] = mem[i]
    ]_vars

(* printf writes the text C gives its format and arguments: numbers in    *)
(* decimal with a '-' (INT_MIN included) or in hex, strings and chars as  *)
(* they are, when that text has no NUL (a %c of 0 ends it early).          *)
PrintfAgrees ==
    call.op = "printf" =>
        LET t == RefFormat(call.fmt, call.args, mem) IN
        (\A k \in 1..Len(t) : t[k] # NUL) => call.text = t

=============================================================================
