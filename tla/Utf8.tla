-------------------------------- MODULE Utf8 --------------------------------
(***************************************************************************)
(* The utf8 library: text arrives octet by octet, an iterator walks over   *)
(* it in both directions, and the functions convert what has arrived.      *)
(* A position counts the octets before it; octet p + 1 is the one *it of   *)
(* an iterator at position p.                                              *)
(***************************************************************************)
EXTENDS Integers, Sequences

CONSTANTS
  Octets,       \* the octets that may arrive (bound of the model)
  MaxOctets     \* bound of the model on the text

VARIABLES
  octets,       \* the text
  it            \* the position of the iterator

vars == <<octets, it>>

Init == octets = <<>> /\ it = 0

is_trail(oc) == oc \div 64 = 2
is_lead_surrogate(cp) == cp >= \hD800 /\ cp <= \hDBFF
is_trail_surrogate(cp) == cp >= \hDC00 /\ cp <= \hDFFF
is_surrogate(cp) == cp >= \hD800 /\ cp <= \hDFFF
is_code_point_valid(cp) == cp <= \h10FFFF /\ ~is_surrogate(cp)

sequence_length(lead) ==
  IF lead < \h80 THEN 1
  ELSE IF lead \div 32 = \h6 THEN 2
  ELSE IF lead \div 16 = \hE THEN 3
  ELSE IF lead \div 8 = \h1E THEN 4 ELSE 0

MutIsOverlongSequence(cp, length) ==
  \/ cp < \h80 /\ length # 1
  \/ cp >= \h80 /\ cp < \h800 /\ length # 2

is_overlong_sequence(cp, length) ==
  \/ cp < \h80 /\ length # 1
  \/ cp >= \h80 /\ cp < \h800 /\ length # 2
  \/ cp >= \h800 /\ cp < \h10000 /\ length # 3

(* increase_safely for the trail octets of a sequence, in their order: the *)
(* error of the first that is not there or is none.                        *)
increase_safely(text, p, length) ==
  LET last == p + length
      wrong == {q \in (p + 2)..last : q > Len(text) \/ ~is_trail(text[q])}
      first == CHOOSE q \in wrong : \A r \in wrong : q <= r
  IN IF wrong = {} THEN "UTF8_OK"
     ELSE IF first > Len(text) THEN "NOT_ENOUGH_ROOM" ELSE "INCOMPLETE_SEQUENCE"

(* get_sequence_1 to 4: the bits of the lead octet and of each trail octet *)
(* are shifted to their place and masked.                                  *)
get_sequence(text, p, length) ==
  LET oc(k) == text[p + k] IN
  IF length = 1 THEN oc(1)
  ELSE IF length = 2 THEN ((oc(1) * 64) % 2048) + (oc(2) % 64)
  ELSE IF length = 3
    THEN ((oc(1) * 4096) % 65536) + ((oc(2) * 64) % 4096) + (oc(3) % 64)
    ELSE ((oc(1) * 262144) % 2097152) + ((oc(2) * 4096) % 262144)
           + ((oc(3) * 64) % 4096) + (oc(4) % 64)

validate_next(text, p) ==
  LET length == sequence_length(text[p + 1])
      err == IF length = 0 THEN "INVALID_LEAD" ELSE increase_safely(text, p, length)
      cp == get_sequence(text, p, length)
      Error(e) == [err |-> e, cp |-> 0, it |-> p]
  IN IF err # "UTF8_OK" THEN Error(err)
     ELSE IF ~is_code_point_valid(cp) THEN Error("INVALID_CODE_POINT")
     ELSE IF is_overlong_sequence(cp, length) THEN Error("OVERLONG_SEQUENCE")
     ELSE [err |-> "UTF8_OK", cp |-> cp, it |-> p + length]

Valid(next) == next.err = "UTF8_OK"

(* unchecked::next decodes without checks; a wrong lead octet is taken as  *)
(* a code point.                                                           *)
unchecked_next(text, p) ==
  LET length == sequence_length(text[p + 1]) IN
  IF length = 0 THEN [cp |-> text[p + 1], it |-> p + 1]
  ELSE [cp |-> get_sequence(text, p, length), it |-> p + length]
-----------------------------------------------------------------------------
(* find_invalid and is_valid.                                              *)
find_invalid(text) ==
  LET From[p \in 0..Len(text)] ==
        IF p = Len(text) \/ ~Valid(validate_next(text, p)) THEN p
        ELSE From[validate_next(text, p).it]
  IN From[0]

is_valid(text) == find_invalid(text) = Len(text)

append(cp) ==
  IF cp < \h80 THEN <<cp>>
  ELSE IF cp < \h800 THEN <<(cp \div 64) + \hC0, (cp % 64) + \h80>>
  ELSE IF cp < \h10000
    THEN <<(cp \div 4096) + \hE0, ((cp \div 64) % 64) + \h80, (cp % 64) + \h80>>
    ELSE <<(cp \div 262144) + \hF0, ((cp \div 4096) % 64) + \h80,
           ((cp \div 64) % 64) + \h80, (cp % 64) + \h80>>

(* The conversions walk over their text from the position p on; where one  *)
(* throws, what it has written so far stays.  utf8to32 and utf32to8:       *)
utf8to32(text) ==
  LET From[p \in 0..Len(text)] ==
        LET next == validate_next(text, p) IN
        IF p = Len(text) \/ ~Valid(next) THEN <<>>
        ELSE <<next.cp>> \o From[next.it]
  IN From[0]

utf32to8(cps) ==
  LET From[p \in 0..Len(cps)] ==
        IF p = Len(cps) \/ ~is_code_point_valid(cps[p + 1]) THEN <<>>
        ELSE append(cps[p + 1]) \o From[p + 1]
  IN From[0]

(* utf8to16 makes surrogate pairs, utf16to8 takes them apart.              *)
Words(cp) ==
  IF cp > \hFFFF
    THEN <<((cp \div 1024) + (\hD800 - 64)) % 65536, (cp % 1024) + \hDC00>>
    ELSE <<cp>>

utf8to16(text) ==
  LET From[p \in 0..Len(text)] ==
        LET next == validate_next(text, p) IN
        IF p = Len(text) \/ ~Valid(next) THEN <<>>
        ELSE Words(next.cp) \o From[next.it]
  IN From[0]

SURROGATE_OFFSET == \h10000 - \hD800 * 1024 - \hDC00

utf16to8(words) ==
  LET Pair(p) == p + 2 <= Len(words) /\ is_trail_surrogate(words[p + 2])
      From[p \in 0..Len(words)] ==
        IF p = Len(words) THEN <<>>
        ELSE IF is_lead_surrogate(words[p + 1])
          THEN IF ~Pair(p) THEN <<>>
               ELSE append(words[p + 1] * 1024 + words[p + 2] + SURROGATE_OFFSET) \o From[p + 2]
          ELSE IF is_trail_surrogate(words[p + 1]) THEN <<>>
               ELSE append(words[p + 1]) \o From[p + 1]
  IN From[0]

(* replace_invalid: one marker for an invalid lead, or for a wrong         *)
(* sequence with its trail octets; a sequence cut short is thrown, here as *)
(* <<>>.                                                                   *)
replacement_marker == \hFFFD

replace_invalid(text) ==
  LET AfterTrails(p) ==
        CHOOSE q \in p..Len(text) :
          /\ \A r \in (p + 1)..q : is_trail(text[r])
          /\ q = Len(text) \/ ~is_trail(text[q + 1])
      From[p \in 0..Len(text)] ==
        LET next == validate_next(text, p) IN
        IF p = Len(text) \/ next.err = "NOT_ENOUGH_ROOM" THEN <<>>
        ELSE IF Valid(next) THEN SubSeq(text, p + 1, next.it) \o From[next.it]
        ELSE append(replacement_marker) \o
               From[IF next.err = "INVALID_LEAD" THEN p + 1 ELSE AfterTrails(p + 1)]
  IN From[0]

(* The functions of the namespace unchecked neither check nor throw; they  *)
(* walk to the end of the text, or up to three octets past it where the    *)
(* last sequence is cut short.  unchecked::append:                         *)
unchecked_append(cp) == append(cp)

unchecked_utf32to8(cps) ==
  LET From[p \in 0..Len(cps)] ==
        IF p = Len(cps) THEN <<>> ELSE unchecked_append(cps[p + 1]) \o From[p + 1]
  IN From[0]

unchecked_utf8to32(text) ==
  LET From[p \in 0..(Len(text) + 3)] ==
        IF p >= Len(text) THEN <<>>
        ELSE <<unchecked_next(text, p).cp>> \o From[unchecked_next(text, p).it]
  IN From[0]

unchecked_utf8to16(text) ==
  LET From[p \in 0..(Len(text) + 3)] ==
        IF p >= Len(text) THEN <<>>
        ELSE Words(unchecked_next(text, p).cp) \o From[unchecked_next(text, p).it]
  IN From[0]
-----------------------------------------------------------------------------
(* An octet arrives, as long as what is there may be the beginning of a    *)
(* text.                                                                   *)
Receive(oc) ==
  /\ Len(octets) < MaxOctets
  /\ ~is_valid(octets) =>
       validate_next(octets, find_invalid(octets)).err = "NOT_ENOUGH_ROOM"
  /\ octets' = Append(octets, oc)
  /\ UNCHANGED it

(* iterator::operator ++: the iterator stays where next throws.            *)
Increment ==
  /\ it < Len(octets)
  /\ it' = validate_next(octets, it).it
  /\ UNCHANGED octets

(* prior, for operator --: back to the octet that is no trail, or to the   *)
(* start, whence the sequence is decoded again.                            *)
prior(p) ==
  LET leads == {q \in 0..(p - 1) : ~is_trail(octets[q + 1])}
  IN IF leads = {} THEN 0 ELSE CHOOSE q \in leads : \A r \in leads : r <= q

(* unchecked::prior relies on there being such an octet.                   *)
unchecked_prior(text, p) ==
  LET leads == {q \in 0..(p - 1) : ~is_trail(text[q + 1])}
  IN CHOOSE q \in leads : \A r \in leads : r <= q

Decrement ==
  /\ it > 0
  /\ it' = prior(it)
  /\ UNCHANGED octets

Next == \/ \E oc \in Octets : Receive(oc)
        \/ Increment
        \/ Decrement

Spec == Init /\ [][Next]_vars
-----------------------------------------------------------------------------
(* The well-formed sequences, as Unicode lists them.                       *)
Trail == \h80..\hBF
WellFormedSequence(s) ==
  \/ Len(s) = 1 /\ s[1] \in 0..\h7F
  \/ Len(s) = 2 /\ s[1] \in \hC2..\hDF /\ s[2] \in Trail
  \/ /\ Len(s) = 3 /\ s[3] \in Trail
     /\ \/ s[1] = \hE0 /\ s[2] \in \hA0..\hBF
        \/ s[1] \in (\hE1..\hEF) \ {\hED} /\ s[2] \in Trail
        \/ s[1] = \hED /\ s[2] \in \h80..\h9F
  \/ /\ Len(s) = 4 /\ s[3] \in Trail /\ s[4] \in Trail
     /\ \/ s[1] = \hF0 /\ s[2] \in \h90..\hBF
        \/ s[1] \in \hF1..\hF3 /\ s[2] \in Trail
        \/ s[1] = \hF4 /\ s[2] \in \h80..\h8F

(* A text is well-formed if it can be cut into well-formed sequences.      *)
WellFormed(text) ==
  \E cuts \in SUBSET (0..Len(text)) :
    /\ 0 \in cuts
    /\ \A c \in cuts \ {Len(text)} : \E k \in 1..4 :
         c + k \in cuts /\ WellFormedSequence(SubSeq(text, c + 1, c + k))

(* What the library accepts is what Unicode defines, including overlong    *)
(* forms, surrogates and the last code point; accepted text survives the   *)
(* way through UTF-32 and UTF-16; what replace_invalid returns is          *)
(* acceptable; and the iterator is never within a sequence (validate_next, *)
(* append, utf8to16, utf16to8, replace_invalid, prior); on such text the   *)
(* unchecked functions are as good, and their iterator comes to the same   *)
(* places.                                                                 *)
CodecIsUtf8 ==
  /\ is_valid(octets) <=> WellFormed(octets)
  /\ is_valid(octets) => /\ utf32to8(utf8to32(octets)) = octets
                         /\ utf16to8(utf8to16(octets)) = octets
  /\ WellFormed(replace_invalid(octets))
  /\ WellFormed(SubSeq(octets, 1, it))
  /\ is_valid(octets) =>
       /\ unchecked_utf8to32(octets) = utf8to32(octets)
       /\ unchecked_utf8to16(octets) = utf8to16(octets)
       /\ unchecked_utf32to8(utf8to32(octets)) = octets
  /\ it > 0 => unchecked_prior(octets, it) = prior(it)
  /\ is_valid(octets) /\ it < Len(octets) =>
       LET next == validate_next(octets, it) IN
       unchecked_next(octets, it) = [cp |-> next.cp, it |-> next.it]
============================================================================
