---- MODULE Utf8Stream ----
(***************************************************************************)
(* How the bytes of a session become text (AnsiParser::feed/decodeChunk).  *)
(* The link cuts the output of the board anywhere, also inside a character *)
(* and next to noise.  QStringDecoder (external) loses bytes when a chunk  *)
(* ends inside a sequence that turns out to be invalid, so decodeChunk     *)
(* keeps such a tail back itself.                                          *)
(***************************************************************************)
EXTENDS Integers, Sequences, FiniteSetsExt

CONSTANTS MaxBytes,     \* bound: bytes of the stream
          MaxChunk      \* bound: bytes one read of the link returns

VARIABLES given,      \* every byte received since the encoding was chosen
          text,       \* the characters handed to processCodePoint()
          bytes,      \* what decodeChunk() has not looked at yet
          pending,    \* m_pendingBytes
          carry       \* what QStringDecoder keeps of a cut-off sequence

decoding == <<given, text, bytes, pending, carry>>

(* An ASCII byte, the lead byte of a sequence of two and of three, and a   *)
(* continuation byte.                                                      *)
Byte == {"ascii", "lead2", "lead3", "cont"}

(* utf8SequenceLength(): zero for a byte that starts no sequence.          *)
SequenceLength(b) == CASE b = "lead2" -> 2 [] b = "lead3" -> 3 [] OTHER -> 0

IsContinued(s, from, to) == \A j \in from..to : s[j] = "cont"

(* A sequence that starts at i and is valid as far as the bytes go.        *)
CutOff(s, i) == /\ SequenceLength(s[i]) > Len(s) - i + 1
                /\ IsContinued(s, i + 1, Len(s))

(* The text of s, from its first byte to the start of a cut-off tail: each *)
(* whole sequence one character, each other byte of no sequence U+FFFD.    *)
TextOf(s) ==
    LET at[i \in 1..(Len(s) + 1)] ==
            IF i > Len(s) THEN <<>>
            ELSE LET k == SequenceLength(s[i])
                 IN  IF s[i] = "ascii" THEN <<s[i]>> \o at[i + 1]
                     ELSE IF CutOff(s, i) THEN <<>>
                     ELSE IF k > 0 /\ i + k - 1 <= Len(s) /\ IsContinued(s, i + 1, i + k - 1)
                          THEN <<s[i]>> \o at[i + k]
                     ELSE <<"bad">> \o at[i + 1]
    IN  at[1]

TailOf(s) == LET cut == {i \in 1..Len(s) : CutOff(s, i)}
             IN  IF cut = {} THEN <<>> ELSE SubSeq(s, Min(cut), Len(s))

(* QStringDecoder::decode(s) with a sequence kept from the call before: if *)
(* that sequence is invalid, the first byte of s is lost with it.          *)
Decode(s) ==
    LET whole == carry \o s
        lost  == /\ carry # <<>>
                 /\ ~CutOff(whole, 1)
                 /\ ~IsContinued(whole, 2, Min({SequenceLength(whole[1]), Len(whole)}))
        rest  == IF lost THEN Tail(s) ELSE whole
    IN  [text |-> (IF lost THEN <<"bad">> ELSE <<>>) \o TextOf(rest), carry |-> TailOf(rest)]

(* The first byte whose sequence runs past the end of the chunk.           *)
Overruns(s) == {i \in Max({1, Len(s) - 2})..Len(s) :
                   /\ SequenceLength(s[i]) > 0
                   /\ Len(s) - i + 1 < SequenceLength(s[i])}

(* Mutant: the split is not moved back over a sequence it cuts.            *)
SplitAtLead(s, lead) == lead

(* The split moves back over every sequence it would cut, until stable.    *)
SplitBefore(s, lead) ==
    LET back[l \in 1..Len(s)] ==
            LET cut == {i \in Max({1, l - 3})..(l - 1) :
                           SequenceLength(s[i]) > 0 /\ i + SequenceLength(s[i]) > l}
            IN  IF cut = {} THEN l ELSE back[Min(cut)]
    IN  back[lead]

StreamInit == given = <<>> /\ text = <<>> /\ bytes = <<>> /\ pending = <<>> /\ carry = <<>>

(* feed(): the kept tail goes in front of the new bytes.                   *)
Feed(chunk) ==
    /\ bytes = <<>>
    /\ Len(given) + Len(chunk) <= MaxBytes
    /\ given' = given \o chunk
    /\ bytes' = pending \o chunk
    /\ pending' = <<>>
    /\ UNCHANGED <<text, carry>>

(* No sequence runs past the end: the decoder takes everything.            *)
DecodeRest ==
    /\ bytes # <<>> /\ Overruns(bytes) = {}
    /\ text' = text \o Decode(bytes).text
    /\ carry' = Decode(bytes).carry
    /\ bytes' = <<>>
    /\ UNCHANGED <<given, pending>>

(* Some sequence does: the decoder takes what is before the split.  If the *)
(* tail is valid so far it waits for the rest of its character, otherwise  *)
(* its lead byte alone is invalid and the bytes after it are looked at     *)
(* again.                                                                  *)
DecodeToLead ==
    /\ bytes # <<>> /\ Overruns(bytes) # {}
    /\ LET lead == SplitBefore(bytes, Min(Overruns(bytes)))
           done == IF lead > 1 THEN Decode(SubSeq(bytes, 1, lead - 1)) ELSE [text |-> <<>>, carry |-> carry]
           rest == SubSeq(bytes, lead, Len(bytes))
           good == IsContinued(rest, 2, Len(rest))
       IN  /\ text' = text \o done.text \o (IF good THEN <<>> ELSE <<"bad">>)
           /\ carry' = done.carry
           /\ pending' = IF good THEN rest ELSE <<>>
           /\ bytes' = IF good THEN <<>> ELSE Tail(rest)
    /\ UNCHANGED given

(* setEncoding() and reset() forget the tail and the decoder's state.      *)
Forget ==
    /\ bytes = <<>> /\ given # <<>>
    /\ given' = <<>> /\ text' = <<>> /\ pending' = <<>> /\ carry' = <<>>
    /\ UNCHANGED bytes

StreamNext ==
    \/ \E n \in 1..MaxChunk : \E chunk \in [1..n -> Byte] : Feed(chunk)
    \/ DecodeRest
    \/ DecodeToLead
    \/ Forget

StreamSpec == StreamInit /\ [][StreamNext]_decoding

(* A board's output reads the same however the link cuts it: whenever all  *)
(* received bytes are decoded, the text is that of the whole stream up to  *)
(* a character still incomplete, and the decoder itself keeps nothing      *)
(* (decodeChunk).                                                          *)
CutsDoNotShow ==
    bytes = <<>> => /\ text = TextOf(given)
                    /\ pending = TailOf(given)
                    /\ carry = <<>>

====
