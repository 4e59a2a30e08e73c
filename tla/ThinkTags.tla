------------------------------- MODULE ThinkTags -------------------------------
(***************************************************************************)
(* Inline reasoning in a model's text (agents/nodes.py 256-346): the splitter   *)
(* that sorts what arrives, chunk by chunk, into reasoning and answer, and the    *)
(* expression that strips the stored answer (server/session_runner.py 514-525).     *)
(* A text is a sequence of symbols, upper and lower case are one.  A symbol that      *)
(* is shown is known by its place in the text.                                          *)
(***************************************************************************)
EXTENDS Integers, Sequences

CONSTANTS
  Texts,   \* texts the model may write
  Word     \* the letters of the word in a tag

Blank == " "

ASSUME TextAssumption ==
  /\ Texts \subseteq Seq(STRING)
  /\ Word \in Seq(STRING) /\ Word # <<>>
  /\ \A i \in DOMAIN Word : Word[i] \notin {"<", "/", ">", Blank}

VARIABLES
  text,      \* the text of this stream
  fed,       \* how many of its symbols have arrived
  buf,       \* the splitter's _buf
  thinking,  \* the splitter's in_thinking
  panes,     \* places of the text shown, each with its channel
  feeding    \* inside feed(), before it, or after flush()

tagVars == <<text, fed, buf, thinking, panes, feeding>>

Opener == <<"<">> \o Word
Closer == <<"<", "/">> \o Word

\* _THINK_TAG_RE: from s[i] to s[j] there is a tag, with blanks but in the word, which
\* begins at k.
Blanks(s, i, j) == \A m \in i .. j : s[m] = Blank
IsTag(s, i, j) ==
  /\ s[i] = "<" /\ s[j] = ">"
  /\ \E k \in i + 1 .. j - Len(Word) :
       /\ \A n \in DOMAIN Word : s[k + n - 1] = Word[n]
       /\ Blanks(s, k + Len(Word), j - 1)
       /\ \/ Blanks(s, i + 1, k - 1)
          \/ \E m \in i + 1 .. k - 1 : s[m] = "/" /\ Blanks(s, i + 1, m - 1) /\ Blanks(s, m + 1, k - 1)
Tags(s) == {t \in (DOMAIN s) \X (DOMAIN s) : t[1] < t[2] /\ IsTag(s, t[1], t[2])}
Shuts(s, tag) == \E k \in tag[1] .. tag[2] : s[k] = "/"
Angles(s) == {i \in DOMAIN s : s[i] = "<"}
LastAngle(s) == CHOOSE i \in {0} \cup Angles(s) : \A j \in Angles(s) : j <= i

\* What is not blank in s are the first n symbols of w.
Begins(s, w, n) ==
  LET solid == {k \in DOMAIN s : s[k] # Blank} IN
  \E f \in [1 .. n -> solid] :
    /\ \A k \in solid : \E i \in 1 .. n : f[i] = k
    /\ \A i \in 1 .. n : s[f[i]] = w[i] /\ \A h \in 1 .. i - 1 : f[h] < f[i]

Channel(on) == IF on THEN "thinking" ELSE "assistant"
\* The symbols up to place k that are in the buffer, shown in the channel of the moment.
Done == fed - Len(buf)
Shown(k) == [i \in 1 .. k |-> [in |-> Channel(thinking), at |-> Done + i]]

\* Mutant: nothing is held back between chunks.
HoldNothing(s) == 0
\* _partial_tail: how much of the end may still become a tag.
Hold(s) ==
  LET tail == SubSeq(s, LastAngle(s), Len(s)) IN
  IF /\ LastAngle(s) # 0 /\ \A k \in DOMAIN tail : tail[k] # ">"
     /\ \/ \E n \in DOMAIN Opener : Begins(tail, Opener, n)
        \/ \E n \in DOMAIN Closer : Begins(tail, Closer, n)
  THEN Len(tail) ELSE 0

TagInit ==
  /\ text \in Texts
  /\ fed = 0 /\ buf = <<>> /\ thinking = FALSE /\ panes = <<>> /\ feeding = "no"

\* A chunk of any length arrives.
Feed ==
  /\ feeding = "no"
  /\ \E n \in fed + 1 .. Len(text) :
       fed' = n /\ buf' = buf \o SubSeq(text, fed + 1, n)
  /\ feeding' = "yes"
  /\ UNCHANGED <<text, thinking, panes>>

\* The first tag of the buffer is consumed, what is before it is shown.
TakeTag ==
  /\ feeding = "yes" /\ Tags(buf) # {}
  /\ LET tag == CHOOSE t \in Tags(buf) : \A u \in Tags(buf) : t[1] <= u[1] IN
       /\ panes' = panes \o Shown(tag[1] - 1)
       /\ thinking' = ~Shuts(buf, tag)
       /\ buf' = SubSeq(buf, tag[2] + 1, Len(buf))
  /\ UNCHANGED <<text, fed, feeding>>

\* The rest is shown, but for a tail that may become a tag.
ShowSafe ==
  /\ feeding = "yes" /\ Tags(buf) = {}
  /\ LET safe == Len(buf) - Hold(buf) IN
       /\ panes' = panes \o Shown(safe)
       /\ buf' = SubSeq(buf, safe + 1, Len(buf))
  /\ feeding' = "no"
  /\ UNCHANGED <<text, fed, thinking>>

\* flush(), when the stream is over.
Flush ==
  /\ feeding = "no" /\ fed = Len(text)
  /\ panes' = panes \o Shown(Len(buf)) /\ buf' = <<>> /\ feeding' = "over"
  /\ UNCHANGED <<text, fed, thinking>>

TagNext == Feed \/ TakeTag \/ ShowSafe \/ Flush

TagSpec == TagInit /\ [][TagNext]_tagVars

\* _strip_thinking_tags: from each opening tag to the next closing one.
Stripped(s, k) ==
  \E o \in Tags(s) : \E c \in Tags(s) :
    /\ ~Shuts(s, o) /\ Shuts(s, c) /\ o[1] <= k /\ k <= c[2] /\ o[1] < c[1]
    /\ \A d \in Tags(s) : Shuts(s, d) /\ o[1] < d[1] => c[1] <= d[1]
Stored(s) == {k \in DOMAIN s : ~Stripped(s, k)}

----------------------------------------------------------------------------
\* Types of buffer and channels.
TagTypeOK ==
  /\ fed \in 0 .. Len(text) /\ Len(buf) <= fed
  /\ thinking \in BOOLEAN /\ feeding \in {"no", "yes", "over"}
  /\ \A i \in DOMAIN panes : panes[i].in \in {"thinking", "assistant"} /\ panes[i].at \in 1 .. fed

\* The text read at once: every place outside a tag, in the channel of the last tag.
InsideThinking(s, k) ==
  \E t \in Tags(s) : t[2] < k /\ ~Shuts(s, t) /\ \A u \in Tags(s) : u[2] < k => u[1] <= t[1]
Outside(s, k) == \A t \in Tags(s) : k \notin t[1] .. t[2]
Read(s) ==
  {[in |-> Channel(InsideThinking(s, k)), at |-> k] :
     k \in {k \in DOMAIN s : Outside(s, k)}}
InOrder(p) == \A i \in DOMAIN p : \A j \in DOMAIN p : i < j => p[i].at < p[j].at
Pieces(p)  == {p[i] : i \in DOMAIN p}
Answer(p)  == {p[i].at : i \in {i \in DOMAIN p : p[i].in = "assistant"}}

\* Every closing tag of s closes something and no tag is left open.
Paired(s) ==
  /\ \A t \in Tags(s) : Shuts(s, t) => InsideThinking(s, t[1])
  /\ Tags(s) # {} => \E t \in Tags(s) : Shuts(s, t) /\ \A u \in Tags(s) : u[1] <= t[1]

\* However the text was cut into chunks, the panes show it as if it had come at once
\* ("tags split across chunk boundaries", nodes.py 270; "matches exactly what the user
\* saw", nodes.py 893), and what is stored is what was shown as the answer if the tags
\* are paired ("to match the live splitter's regex", session_runner.py 519).
SplitsAlike ==
  /\ InOrder(panes)
  /\ feeding = "no" => Pieces(panes \o Shown(Len(buf))) = Read(SubSeq(text, 1, fed))
  /\ feeding = "over" =>
       /\ Pieces(panes) = Read(text)
       /\ Paired(text) => Stored(text) = Answer(panes)

\* The same of every text ("the persisted-message DB row [is] tag-free",
\* session_runner.py 518).
StoredAsShown == feeding = "over" => Stored(text) = Answer(panes)
=============================================================================
