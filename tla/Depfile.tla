------------------------------- MODULE Depfile ------------------------------
(***************************************************************************)
(* parseDepfile: the reader of the .d files that compilers write.  A text  *)
(* is a sequence of character classes; a state is between two rounds of    *)
(* the main loop.                                                          *)
(***************************************************************************)
EXTENDS Integers, Sequences

CONSTANTS
    Targets,        \* targets as they are written
    Names,          \* lists of names that a compiler may write
    Gaps,           \* what it may put between them
    Others          \* other texts: truncated files, and those of other programs

(* Character classes: a letter, '\', a space or tab, '#', '$', a colon, a  *)
(* slash, LF and CR.                                                       *)
Classes == {"x", "bs", "blank", "hash", "dollar", "colon", "slash", "lf", "cr"}
Newlines == {"lf", "cr"}
Blanks == {"blank"} \cup Newlines

VARIABLES
    text,           \* the content of the file
    names,          \* the names it was made of
    known,          \* whether it was made of names
    ptr,            \* position in the text; 0: before the target is read
    found           \* what the callback has been given

depVars == <<text, names, known, ptr, found>>

End == Len(text) + 1
At(p) == IF p < End THEN text[p] ELSE "end"
FirstOf(stops, p) ==
    CHOOSE q \in p .. End : /\ q = End \/ text[q] \in stops
                            /\ \A r \in p .. q - 1 : text[r] \notin stops
RunOf(s, p) == CHOOSE n \in 0 .. Len(s) : /\ \A i \in p .. p + n - 1 : i <= Len(s) /\ s[i] = "bs"
                                          /\ p + n > Len(s) \/ s[p + n] # "bs"

(***************************************************************************)
(* The compiler's side.  GCC puts a backslash before a blank and doubles   *)
(* those that precede it, puts one before '#', and doubles '$'.            *)
(***************************************************************************)
Quoted(name) ==
    LET Before(i) == CHOOSE n \in 0 .. i - 1 :
                        /\ \A j \in i - n .. i - 1 : name[j] = "bs"
                        /\ n = i - 1 \/ name[i - n - 1] # "bs"
        enc[i \in 0 .. Len(name)] ==
            IF i = 0 THEN <<>>
            ELSE enc[i - 1] \o
                 CASE name[i] = "blank" -> [j \in 1 .. Before(i) + 1 |-> "bs"] \o <<"blank">>
                   [] name[i] = "hash" -> <<"bs", "hash">>
                   [] name[i] = "dollar" -> <<"dollar", "dollar">>
                   [] OTHER -> <<name[i]>>
    IN  enc[Len(name)]

(* What it quotes: no newlines, and a backslash at the end of a name could *)
(* not be told from one that quotes what follows.                          *)
IsName(name) == name \in Seq(Classes \ Newlines) /\ name # <<>> /\ name[Len(name)] # "bs"

(* What it puts between names: blanks and continued lines.                 *)
IsGap(gap) ==
    /\ gap # <<>> /\ gap[1] = "blank"
    /\ \E cuts \in SUBSET (1 .. Len(gap) + 1) :
         /\ 1 \in cuts
         /\ \A b \in cuts :
              \/ b = Len(gap) + 1
              \/ gap[b] = "blank" /\ b + 1 \in cuts
              \/ gap[b] = "bs" /\ b + 2 \in cuts /\ gap[b + 1] = "lf"
              \/ gap[b] = "bs" /\ b + 3 \in cuts /\ gap[b + 1] = "cr" /\ gap[b + 2] = "lf"

(* A target, with what would end it quoted, or after a drive's letter.     *)
IsTarget(target) ==
    \E cuts \in SUBSET (1 .. Len(target) + 1) :
        /\ 1 \in cuts
        /\ \A b \in cuts :
             \/ b = Len(target) + 1
             \/ target[b] \notin Blanks \cup {"bs", "hash", "colon"} /\ b + 1 \in cuts
             \/ target[b] = "bs" /\ b + 2 \in cuts /\ target[b + 1] \notin Newlines
             \/ b = 2 /\ target[b] = "colon" /\ b + 1 \in cuts /\ b < Len(target) /\ target[b + 1] \in {"slash", "bs"}

(* A rule, and a second one as -MP adds them.                              *)
Written(target, list, gap) ==
    LET rest[i \in 0 .. Len(list)] ==
            IF i = 0 THEN <<>> ELSE rest[i - 1] \o (gap \o Quoted(list[i]))
    IN  target \o <<"colon">> \o rest[Len(list)] \o <<"lf", "x", "colon", "blank", "x", "lf">>

DepInit ==
    /\ known \in BOOLEAN
    /\ names \in IF known THEN Names ELSE {<<>>}
    /\ text \in IF known THEN {Written(target, names, gap) : target \in Targets, gap \in Gaps}
                         ELSE Others
    /\ ptr = 0
    /\ found = <<>>

(***************************************************************************)
(* The target separator, past escaped colons and drive prefixes.           *)
(***************************************************************************)
Positions == 1 .. End + 2
AfterTarget ==
    LET scan[d \in Positions \X Positions] ==
        LET p == d[1]
            start == d[2]
        IN  IF p >= End \/ At(p) \in Newlines \cup {"hash"} THEN End
            ELSE IF At(p) = "bs" /\ p + 1 < End
                 THEN scan[<<IF At(p + 1) = "cr" /\ At(p + 2) = "lf" THEN p + 3 ELSE p + 2, start>>]
            ELSE IF At(p) = "colon"
                 THEN IF p = start + 1 /\ At(p + 1) \in {"slash", "bs"}
                      THEN scan[<<p + 1, start>>] ELSE p + 1
            ELSE scan[<<p + 1, IF At(p) = "blank" THEN p + 1 ELSE start>>]
    IN  scan[<<1, 1>>]

SkipBlanks(p) == FirstOf(Classes \ {"blank"}, p)                      \* mutant: stops at continuations
skipWhitespace(p) ==
    LET skip[q \in 1 .. End] ==
        IF At(q) = "blank" THEN skip[q + 1]
        ELSE IF At(q) = "bs" /\ At(q + 1) = "cr" /\ At(q + 2) = "lf" THEN skip[q + 3]
        ELSE IF At(q) = "bs" /\ At(q + 1) \in Newlines THEN skip[q + 2]
        ELSE q
    IN  skip[p]

findTokenSpecial(p) == FirstOf(Blanks \cup {"bs", "hash", "dollar"}, p)

(* extractToken: where the token that begins at p ends.  From the first    *)
(* backslash on, runs of backslashes decide what is quoted.                *)
TokenEnd(p) ==
    LET plain[q \in 1 .. End] ==
            LET s == findTokenSpecial(q) IN IF At(s) = "dollar" THEN plain[s + 1] ELSE s
        quoted[q \in 1 .. End] ==
            IF At(q) = "bs"
            THEN LET r == q + RunOf(text, q)
                     odd == (r - q) % 2 = 1
                 IN  IF At(r) \in Newlines THEN (IF odd THEN r - 1 ELSE r)
                     ELSE IF At(r) = "hash" \/ (odd /\ At(r) = "blank") THEN quoted[r + 1]
                     ELSE quoted[r]
            ELSE IF At(q) \in Blanks \cup {"hash", "end"} THEN q
            ELSE quoted[q + 1]
    IN  IF At(plain[p]) = "bs" THEN quoted[plain[p]] ELSE plain[p]

(* decodeDepfileToken                                                      *)
DecodeAlike(token) ==                   \* mutant: '#' is treated as whitespace is
    LET dec[i \in 1 .. Len(token) + 3] ==
        IF i > Len(token) THEN <<>>
        ELSE IF token[i] = "bs"
             THEN LET n == RunOf(token, i)
                      next == IF i + n <= Len(token) THEN token[i + n] ELSE "end"
                      kept == IF next \in {"hash", "blank"} THEN n \div 2 ELSE n
                  IN  [j \in 1 .. kept |-> "bs"] \o dec[i + n]
        ELSE <<token[i]>> \o dec[i + (IF token[i] = "dollar" /\ i < Len(token) /\ token[i + 1] = "dollar"
                                      THEN 2 ELSE 1)]
    IN  dec[1]

decodeDepfileToken(token) ==
    LET dec[i \in 1 .. Len(token) + 3] ==
        IF i > Len(token) THEN <<>>
        ELSE IF token[i] = "bs"
             THEN LET n == RunOf(token, i)
                      next == IF i + n <= Len(token) THEN token[i + n] ELSE "end"
                      kept == CASE next = "hash" -> n - 1 [] next = "blank" -> n \div 2 [] OTHER -> n
                  IN  [j \in 1 .. kept |-> "bs"] \o dec[i + n]
        ELSE <<token[i]>> \o dec[i + (IF token[i] = "dollar" /\ i < Len(token) /\ token[i + 1] = "dollar"
                                      THEN 2 ELSE 1)]
    IN  dec[1]

(***************************************************************************)
(* parseDepfile                                                            *)
(***************************************************************************)
ReadTarget ==
    /\ ptr = 0
    /\ ptr' = AfterTarget
    /\ UNCHANGED <<text, names, known, found>>

ReadName ==
    /\ ptr # 0
    /\ LET start == skipWhitespace(ptr)
       IN  /\ At(start) \notin Newlines \cup {"hash", "end"}
           /\ ptr' = TokenEnd(start)
           /\ found' = IF ptr' = start THEN found
                       ELSE Append(found, decodeDepfileToken(SubSeq(text, start, ptr' - 1)))
    /\ UNCHANGED <<text, names, known>>

DepNext == ReadTarget \/ ReadName

-----------------------------------------------------------------------------
Stopped == ptr # 0 /\ At(skipWhitespace(ptr)) \in Newlines \cup {"hash", "end"}

(* Names come back as they were before the compiler quoted them, those of  *)
(* the first rule and no others: quoting, continuations, CRLF and drive    *)
(* prefixes included.  A wrong name would be a missing source and rebuild  *)
(* its step for ever, a lost one would leave it stale.                     *)
NamesSurvive == known /\ Stopped => found = names

(* On any text at all, every round of the loop moves on, so that a broken  *)
(* .d file cannot hang the parser.                                         *)
EveryRoundAdvances == ptr # 0 /\ ~Stopped => TokenEnd(skipWhitespace(ptr)) > ptr
=============================================================================
