----------------------------- MODULE Redaction -----------------------------
(***************************************************************************)
(* What leaves the machine (internal/redact): the layered configuration,   *)
(* the engine that hides keys, secrets and private details line by line,   *)
(* the gate that records before it sends, and the commands that edit a     *)
(* layer while others do.  A line is a sequence of words; a word stands    *)
(* for what one rule matches.                                              *)
(***************************************************************************)
EXTENDS Naturals, Sequences, FiniteSets, SequencesExt

CONSTANTS
    Environ,    \* variables: [name, value, credential, length]
    Cases,      \* initial files, payloads and edits of this instance
    LayerEdits,    \* what `redact add` and `redact remove` may be given
    Editors     \* such commands at work at a time

VARIABLES
    layers, \* [user, project -> spec]: the two files
    payload, \* what is to be sent: [subject, json, texts, keys]
    sender, \* [at, conf, out]
    editor, \* [Editors -> [at, layer, spec, base]]
    redactPast \* history: [edits: left, logged, sent, crossed, broken]

redactVars == <<layers, payload, sender, editor, redactPast>>

Mark == "mark"
Soft == {"home", "mail", "hex"}
-----------------------------------------------------------------------------
(***************************************************************************)
(* Configuration                                                           *)
(***************************************************************************)
\* checkMode, readRegular: a user file is its owner's alone, and a file has a bounded size.
SoundFile(s) == s.sound

\* validate, after the schema: rules of their own, and soft rules alone turned off.
ValidSpec(s) ==
    /\ SoundFile(s) /\ s.off \subseteq Soft /\ s.allow \subseteq Soft \ {"home"}
    /\ Cardinality({r.id : r \in s.rules}) = Cardinality(s.rules)

\* A project file may only add.
Additive(s) == s.off = {} /\ s.allow = {}

RuleIds(s) == {r.id : r \in s.rules}

Loaded(f) ==
    /\ ValidSpec(f.user) /\ ValidSpec(f.project) /\ Additive(f.project)
    /\ RuleIds(f.user) \cap RuleIds(f.project) = {}
    /\ f.user.strict \/ f.project.strict => f.user.off = {} /\ f.user.allow = {}

\* OptionsFromEnv, literals, and what env_values name.
KnownSecrets(f) ==
    f.user.literals \cup f.project.literals
      \cup {e.value : e \in {v \in Environ : \/ v.credential /\ v.length >= 8
                                             \/ v.name \in f.user.envs \cup f.project.envs /\ v.length >= 4}}

\* secretPieces: redaction is by line, so is a secret.
Pieces(secrets) == UNION {{s[i] : i \in DOMAIN s} : s \in secrets} \ {<<>>}

\* Mutant of Ordered: the shorter ones first.
ShortestFirst(pieces) == SetToSortSeq(pieces, LAMBDA p, q : Len(p) < Len(q))

Ordered(pieces) == SetToSortSeq(pieces, LAMBDA p, q : Len(p) > Len(q))

Resolved(f) ==
    [pieces |-> Ordered(Pieces(KnownSecrets(f))), rules |-> f.user.rules \cup f.project.rules,
     never |-> f.user.never \cup f.project.never,
     soft |-> (Soft \ (f.user.off \cup f.user.allow))
                 \ (IF f.user.strict \/ f.project.strict THEN {} ELSE {"hex"})]
-----------------------------------------------------------------------------
(***************************************************************************)
(* The engine                                                              *)
(***************************************************************************)
\* redactPrivateKeys: a block may span lines; each of them leaves one mark.
HiddenWord(b, w) ==
    IF b.in THEN [b EXCEPT !.in = w # "end"]
    ELSE IF w = "begin" THEN [in |-> TRUE, line |-> Append(b.line, Mark)]
    ELSE [b EXCEPT !.line = Append(@, w)]

HiddenLine(b, line) ==
    LET h == FoldLeft(HiddenWord, [in |-> b.in, line |-> IF b.in THEN <<Mark>> ELSE <<>>], line)
    IN  [in |-> h.in, text |-> Append(b.text, h.line)]

KeysHidden(text) == FoldLeft(HiddenLine, [in |-> FALSE, text |-> <<>>], text).text

\* A rule rewrites what it matches, from left to right.
RECURSIVE Replaced(_, _)
Replaced(line, needle) ==
    IF Len(line) < Len(needle) THEN line
    ELSE IF SubSeq(line, 1, Len(needle)) = needle
         THEN <<Mark>> \o Replaced(SubSeq(line, Len(needle) + 1, Len(line)), needle)
         ELSE <<Head(line)>> \o Replaced(Tail(line), needle)

\* literalRule of the known secrets, in their order.
SecretsHidden(line, pieces) == FoldLeft(Replaced, line, pieces)

\* The built-in hard rules: a name and the value assigned to it, unless that is hidden.
RECURSIVE AssignmentsHidden(_)
AssignmentsHidden(line) ==
    IF Len(line) < 2 THEN line
    ELSE IF line[1] = "key" /\ line[2] # Mark
         THEN <<Mark>> \o AssignmentsHidden(SubSeq(line, 3, Len(line)))
         ELSE <<line[1]>> \o AssignmentsHidden(Tail(line))

\* Custom rules: the placeholder, or the replacement as it is written.
CustomHidden(line, rules) ==
    [i \in DOMAIN line |-> IF \E r \in rules : r.word = line[i]
                           THEN (CHOOSE r \in rules : r.word = line[i]).as ELSE line[i]]

\* The soft rules that are on, after all others: the home directory, addresses, digests.
SoftHidden(line, soft) ==
    LET homes  == [i \in DOMAIN line |-> IF line[i] = "home" /\ "home" \in soft THEN "~" ELSE line[i]]
        mails  == IF "mail" \in soft THEN Replaced(homes, <<"who", "host">>) ELSE homes
    IN  IF "hex" \in soft THEN Replaced(mails, <<"digest">>) ELSE mails

\* run
Run(text, c) ==
    LET shown == KeysHidden(text)
    IN  [i \in DOMAIN shown |->
            SoftHidden(CustomHidden(AssignmentsHidden(SecretsHidden(shown[i], c.pieces)), c.rules), c.soft)]

Occurs(piece, line) ==
    \E i \in 1 .. Len(line) - Len(piece) + 1 : SubSeq(line, i, i + Len(piece) - 1) = piece

\* verify
Verified(in, out, c) ==
    /\ Len(in) = Len(out)
    /\ \A i \in DOMAIN out : /\ \A p \in ToSet(c.pieces) : ~Occurs(p, out[i])
                             /\ ~Occurs(<<"begin">>, out[i])

\* Apply, or ApplyJSON of each string and key: keys that become one are refused.
Output(p, c) == [k \in DOMAIN p.texts |-> Run(p.texts[k], c)]

Accepted(p, out, c) ==
    /\ \A k \in DOMAIN p.texts : Verified(p.texts[k], out[k], c)
    /\ p.json => \A k, l \in p.keys : k # l => out[k] # out[l]
-----------------------------------------------------------------------------
(***************************************************************************)
(* Gate                                                                    *)
(***************************************************************************)
NoSend == [at |-> "rest", conf |-> <<>>, out |-> <<>>]

\* A subject is matched as a whole and by its segments, its `commands`.
Refuses(c) == payload.subject \cap c.never # {}

GateRedacts ==
    /\ sender = NoSend /\ Loaded(layers)
    /\ LET c   == Resolved(layers)
           out == Output(payload, c)
       IN  /\ ~Refuses(c)
           /\ sender' = IF Accepted(payload, out, c) THEN [at |-> "log", conf |-> c, out |-> out]
                        ELSE [at |-> "rejected", conf |-> c, out |-> <<>>]
    /\ UNCHANGED <<layers, payload, editor, redactPast>>

\* The audit line, then the review entry; what cannot be recorded is not sent.
GateRecords(at, next) ==
    /\ sender.at = at
    /\ sender' = [sender EXCEPT !.at = next]
    /\ redactPast' = [redactPast EXCEPT !.logged = IF at = "log" THEN @ + 1 ELSE @,
                                        !.sent = IF at = "send" THEN @ + 1 ELSE @]
    /\ UNCHANGED <<layers, payload, editor>>

\* No at the prompt, an error, or the end of the process.
GateStops ==
    /\ sender.at \in {"log", "review", "send"}
    /\ sender' = [sender EXCEPT !.at = "stopped"]
    /\ UNCHANGED <<layers, payload, editor, redactPast>>
-----------------------------------------------------------------------------
(***************************************************************************)
(* redact add, redact remove                                               *)
(***************************************************************************)
NoEdit == [at |-> "idle", layer |-> "user", spec |-> <<>>, other |-> <<>>]
Other(layer) == IF layer = "user" THEN "project" ELSE "user"

\* nextRuleID: the first that is unused in the file.
NextRuleID(s) == CHOOSE n \in 1 .. Cardinality(s.rules) + 1 :
                     n \notin RuleIds(s) /\ \A m \in 1 .. n - 1 : m \in RuleIds(s)

WithEntry(s, e) ==
    IF e.kind = "rules"
    THEN [s EXCEPT !.rules = @ \cup {[id |-> NextRuleID(s), word |-> e.word, as |-> Mark]}]
    ELSE [s EXCEPT ![e.kind] = @ \cup {e.word}]

WithoutEntry(s, e) ==
    IF e.kind = "rules" THEN [s EXCEPT !.rules = {r \in @ : r.id # e.id}]
    ELSE [s EXCEPT ![e.kind] = @ \ {e.word}]

\* The staged file and the other layer are loaded together before it takes its place.
StagesEdit(d, layer, e) ==
    LET s == IF e.add THEN WithEntry(layers[layer], e) ELSE WithoutEntry(layers[layer], e)
    IN  /\ editor[d].at = "idle" /\ redactPast.edits > 0
        /\ s # layers[layer] /\ Loaded([layers EXCEPT ![layer] = s])
        /\ editor' = [editor EXCEPT ![d] = [at |-> "staged", layer |-> layer, spec |-> s,
                                            other |-> layers[Other(layer)]]]
        /\ redactPast' = [redactPast EXCEPT !.edits = @ - 1]
        /\ UNCHANGED <<layers, payload, sender>>

CommitsEdit(d) ==
    /\ editor[d].at = "staged"
    /\ layers' = [layers EXCEPT ![editor[d].layer] = editor[d].spec]
    /\ editor' = [editor EXCEPT ![d] = NoEdit]
    /\ redactPast' = [redactPast EXCEPT !.crossed = @ \/ layers[Other(editor[d].layer)] # editor[d].other,
                                        !.broken = @ \/ (Loaded(layers) /\ ~Loaded(layers'))]
    /\ UNCHANGED <<payload, sender>>

EditStops(d) ==
    /\ editor[d].at = "staged"
    /\ editor' = [editor EXCEPT ![d] = NoEdit]
    /\ UNCHANGED <<layers, payload, sender, redactPast>>

RedactionStart(c) ==
    /\ layers = [user |-> c.user, project |-> c.project] /\ payload = c.payload
    /\ redactPast = [edits |-> c.edits, logged |-> 0, sent |-> 0, crossed |-> FALSE, broken |-> FALSE]
    /\ sender = NoSend
    /\ editor = [d \in Editors |-> NoEdit]

RedactionInit == \E c \in Cases : RedactionStart(c)

RedactionNext ==
    \/ GateRedacts \/ GateStops
    \/ GateRecords("log", "review") \/ GateRecords("review", "send") \/ GateRecords("send", "sent")
    \/ \E d \in Editors : \/ CommitsEdit(d) \/ EditStops(d)
                          \/ \E layer \in {"user", "project"}, e \in LayerEdits : StagesEdit(d, layer, e)
-----------------------------------------------------------------------------
(***************************************************************************)
(* What is to be hidden, said of the places of the original text.          *)
(***************************************************************************)
Places(text) == {<<i, j>> \in (1 .. Len(text)) \X (1 .. 8) : j <= Len(text[i])}
Before(p, q) == p[1] < q[1] \/ (p[1] = q[1] /\ p[2] < q[2])
Word(text, p) == text[p[1]][p[2]]
Right(p) == <<p[1], p[2] + 1>>

\* From the beginning of a key to its end, or to the end of the text.
InKey(text) ==
    {p \in Places(text) :
        \E b \in Places(text) :
            /\ Word(text, b) = "begin" /\ ~Before(p, b)
            /\ ~\E e \in Places(text) : Word(text, e) = "end" /\ Before(b, e) /\ Before(e, p)}

\* Any occurrence of a known secret, a longer one or one within it.
InSecret(text, c) ==
    UNION {{<<p[1], j>> : j \in p[2] .. p[2] + Len(s) - 1} :
              <<p, s>> \in {<<q, t>> \in Places(text) \X ToSet(c.pieces) :
                               /\ q[2] + Len(t) - 1 <= Len(text[q[1]])
                               /\ SubSeq(text[q[1]], q[2], q[2] + Len(t) - 1) = t}}

\* A pair of words, if neither is hidden before.
PairsOf(text, hidden, A(_), B(_)) ==
    LET firsts == {p \in Places(text) : /\ Right(p) \in Places(text) /\ {p, Right(p)} \cap hidden = {}
                                        /\ A(Word(text, p)) /\ B(Word(text, Right(p)))}
    IN  firsts \cup {Right(p) : p \in firsts}

ToHide(text, c) ==
    LET known  == InKey(text) \cup InSecret(text, c)
        named  == known \cup PairsOf(text, known, LAMBDA w : w = "key", LAMBDA w : TRUE)
        custom == named \cup {p \in Places(text) : \E r \in c.rules : r.word = Word(text, p)}
        mails  == IF "mail" \in c.soft
                  THEN PairsOf(text, custom, LAMBDA w : w = "who", LAMBDA w : w = "host") ELSE {}
        words  == {w \in {"home", "digest"} : (IF w = "home" THEN "home" ELSE "hex") \in c.soft}
    IN  custom \cup mails \cup {p \in Places(text) : Word(text, p) \in words}

Placed(c) == {Mark, "~"} \cup {r.as : r \in c.rules}

RECURSIVE WordsOf(_, _, _, _)
WordsOf(text, hidden, i, j) ==
    IF j > Len(text[i]) THEN <<>>
    ELSE (IF <<i, j>> \in hidden THEN <<>> ELSE <<text[i][j]>>) \o WordsOf(text, hidden, i, j + 1)

\* What is recorded and sent shows all that is not to be hidden and nothing else, line by
\* line, whichever rules overlap.  Text is refused only when a known secret is part of
\* what would be written in its place, or keys of one object become the same.  Edits of
\* the two files leave a configuration that loads, unless each was checked with the file
\* that the other replaced.
SentAsConfigured ==
    /\ sender.at = "log" =>
          \A k \in DOMAIN payload.texts :
              LET text   == payload.texts[k]
                  hidden == ToHide(text, sender.conf)
              IN  \A i \in DOMAIN text :
                      SelectSeq(sender.out[k][i], LAMBDA w : w \notin Placed(sender.conf))
                          = WordsOf(text, hidden, i, 1)
    /\ sender.at = "rejected" =>
          \/ \E p \in ToSet(sender.conf.pieces), w \in Placed(sender.conf) : Occurs(<<w>>, p)
          \/ payload.json /\ Cardinality(payload.keys) > 1
    /\ redactPast.sent <= redactPast.logged
    /\ redactPast.broken => redactPast.crossed
=============================================================================
