------------------------- MODULE FlowBuilderProofs -------------------------
(* Proofs about the builder: the settings of a node and the sheets they are *)
(* edited in, for every type of node and every sequence of edits; and the   *)
(* flow that is drawn and what it is compiled to, for every palette, every  *)
(* set of labels and every sequence of edits.                               *)
EXTENDS FlowBuilder, NodeSettings, FiniteSetTheorems, SequenceTheorems, WellFoundedInduction, TLAPS

(***************************************************************************)
(* Settings.                                                               *)
(***************************************************************************)

(* The four copies of the settings. What the form of the node holds is as   *)
(* sound as what is stored, and comes from the same places, because any of  *)
(* its fields stores all of it; and the sheet of the HTTP tool, which       *)
(* validates nothing when it is confirmed, never holds anything that would  *)
(* have to be.                                                              *)
SettingsInv ==
    /\ sheet \in DOMAIN SheetOf
    /\ data \in {Untouched} \cup Settings
    /\ confirmed \in {Untouched} \cup Settings
    /\ own \in Settings /\ initial \in Settings /\ draft \in Settings
    /\ typed \in BOOLEAN /\ open \in BOOLEAN
    /\ typed => sheet = "http-tool"
    /\ own \in {confirmed, FormOf(confirmed), initial}
    /\ data # Untouched => data \in {confirmed, FormOf(confirmed), initial}
    /\ sheet # "ai-agent" => Valid(own) /\ (data # Untouched => Valid(data))
    /\ sheet = "http-tool" => initial.text # "invalid" /\ draft.text # "invalid"

SheetTypes ==
    {"chat-openai", "chat-anthropic", "chat-mistral", "chat-ollama", "ai-agent",
     "chat-openai-as-tool", "sdk-notifier-tool", "sonar-search-tool",
     "firecrawl-scraper-tool", "http-tool", "code-executor", "postgres-query-tool"}

LEMMA SheetFacts ==
    /\ DOMAIN SheetOf = SheetTypes
    /\ \A type \in SheetTypes :
          /\ SheetOf[type].form \subseteq Settings
          /\ type \notin {"ai-agent", "http-tool"} => SheetOf[type].validated
          /\ SheetOf[type].cancel = "submit" => type # "firecrawl-scraper-tool"
    /\ \A values \in SheetOf["http-tool"].form : values.text # "invalid"
<1>1. DOMAIN SheetOf = SheetTypes
  BY DEF SheetOf, SheetTypes
<1>2. ASSUME NEW type \in SheetTypes
      PROVE  /\ SheetOf[type].form \subseteq Settings
             /\ type \notin {"ai-agent", "http-tool"} => SheetOf[type].validated
             /\ SheetOf[type].cancel = "submit" => type # "firecrawl-scraper-tool"
  BY DEF SheetTypes, SheetOf,
         OpenAIChatSheet, AnthropicChatSheet, MistralChatSheet, OllamaChatSheet,
         AIAgentSheet, OpenAIToolSheet, SDKNotifierSheet, SonarSheet, FirecrawlSheet,
         HttpToolSheet, CodeEditorSheet, SqlEditorSheet,
         OpenAIChatForm, AnthropicChatForm, MistralChatForm, OllamaChatForm, AIAgentForm,
         OpenAIToolForm, SDKNotifierForm, SonarForm, FirecrawlForm, HttpToolForm,
         CodeEditorForm, SqlEditorForm,
         Settings, Fields, FormatFields, CheckedFields, Texts, Formats
<1>3. SheetOf["http-tool"].form = CheckedFields
  BY DEF SheetOf, HttpToolSheet, HttpToolForm
<1>4. \A values \in CheckedFields : values.text # "invalid"
  BY DEF CheckedFields
<1>5. QED
  BY <1>1, <1>2, <1>3, <1>4

LEMMA FormSound ==
    ASSUME NEW stored \in {Untouched} \cup Settings
    PROVE  /\ FormOf(stored) \in Settings
           /\ (stored # Untouched => Valid(stored)) => Valid(FormOf(stored))
BY DEF FormOf, Valid, Settings, Texts, Formats

LEMMA ValuesSound ==
    ASSUME NEW values \in Settings
    PROVE  /\ DefaultsOf(values) \in Settings /\ DefaultsOf(values).text = values.text
           /\ Effects(values) \in Settings /\ Effects(values).text = values.text
BY DEF DefaultsOf, Effects, Settings, Texts, Formats

LEMMA InitSettings == SettingsInit => SettingsInv
<1> SUFFICES ASSUME SettingsInit PROVE SettingsInv
  OBVIOUS
<1>1. sheet \in SheetTypes
  BY SheetFacts DEF SettingsInit
<1>2. data \in {Untouched} \cup Settings /\ (data # Untouched => Valid(data))
  BY <1>1, SheetFacts DEF SettingsInit, Valid
<1>3. own \in Settings /\ Valid(own)
  BY <1>2, FormSound DEF SettingsInit
<1>4. initial \in Settings /\ draft \in Settings /\ initial.text = own.text /\ draft.text = own.text
  BY <1>3, ValuesSound DEF SettingsInit
<1>5. QED
  BY <1>1, <1>2, <1>3, <1>4, SheetFacts DEF SettingsInit, SettingsInv, Valid

LEMMA SettingsStep == SettingsInv /\ [SettingsNext]_settingsVars => SettingsInv'
<1> SUFFICES ASSUME SettingsInv, [SettingsNext]_settingsVars PROVE SettingsInv'
  OBVIOUS
<1> USE DEF SettingsInv
<1>0. sheet \in SheetTypes
  BY SheetFacts
<1>1. CASE Remount
  <2>1. own' \in Settings /\ (sheet # "ai-agent" => Valid(own'))
    BY <1>1, FormSound DEF Remount, Mount
  <2>2. /\ initial' \in Settings /\ draft' \in Settings
        /\ initial'.text = own'.text /\ draft'.text = own'.text
    BY <1>1, <2>1, ValuesSound DEF Remount, Mount
  <2>3. own' = FormOf(confirmed)' /\ confirmed' = data /\ data' = data /\ sheet' = sheet
    BY <1>1 DEF Remount, Mount, FormOf
  <2>4. typed' = FALSE /\ open' = FALSE
    BY <1>1 DEF Remount, Mount
  <2>5. QED
    BY <2>1, <2>2, <2>3, <2>4 DEF Valid
<1>2. CASE Open
  BY <1>2 DEF Open, Valid, FormOf
<1>3. CASE Enter
  <2>1. PICK values \in SheetOf[sheet].form : draft' = Effects(values)
    BY <1>3 DEF Enter
  <2>2. values \in Settings /\ (sheet = "http-tool" => values.text # "invalid")
    BY <1>0, <2>1, SheetFacts
  <2>3. draft' \in Settings /\ (sheet = "http-tool" => draft'.text # "invalid")
    BY <2>1, <2>2, ValuesSound
  <2>4. QED
    BY <1>3, <2>3 DEF Enter, Valid, FormOf
<1>4. Reset \in Settings /\ (sheet = "http-tool" => Reset.text # "invalid")
  BY ValuesSound DEF Reset, Valid
<1>5. CASE TypeHeader
  <2>1. \A values \in HttpToolForm : values \in Settings /\ values.text # "invalid"
    BY SheetFacts DEF SheetTypes, SheetOf, HttpToolSheet
  <2>2. draft' \in Settings /\ draft'.text # "invalid"
    BY <1>5, <2>1 DEF TypeHeader
  <2>3. QED
    BY <1>5, <2>2 DEF TypeHeader, Valid, FormOf
<1>6. CASE CloseSheet
  BY <1>4, <1>6 DEF CloseSheet, Valid, FormOf
<1>7. CASE Cancel
  <2>1. draft' \in Settings /\ (sheet = "http-tool" => draft'.text # "invalid")
    BY <1>4, <1>7 DEF Cancel
  <2>2. CASE SheetOf[sheet].cancel = "submit" /\ Valid(Reset)
    <3>1. Reset = initial
      BY <1>0, <2>2, SheetFacts DEF Reset, Effects
    <3>2. own' = initial /\ data' = initial /\ Valid(initial)
      BY <1>7, <2>2, <3>1 DEF Cancel
    <3>3. QED
      BY <1>7, <2>1, <3>2 DEF Cancel, Valid, FormOf
  <2>3. CASE ~(SheetOf[sheet].cancel = "submit" /\ Valid(Reset))
    <3>1. UNCHANGED <<own, data>>
      BY <1>7, <2>3 DEF Cancel
    <3>2. QED
      BY <1>7, <2>1, <3>1 DEF Cancel, Valid, FormOf
  <2>4. QED
    BY <2>2, <2>3
<1>8. CASE Submit
  <2>1. sheet # "ai-agent" => Valid(draft)
    BY <1>0, <1>8, SheetFacts DEF Submit, Valid
  <2>2. QED
    BY <1>8, <2>1 DEF Submit, Valid, FormOf
<1>9. CASE EditField
  BY <1>9 DEF EditField, Valid, FormOf
<1>10. CASE UNCHANGED settingsVars
  BY <1>10 DEF settingsVars, Valid, FormOf
<1>11. QED
  BY <1>1, <1>2, <1>3, <1>5, <1>6, <1>7, <1>8, <1>9, <1>10 DEF SettingsNext

(* Through every sequence of sheets, fields and reloads, what is stored is  *)
(* what was confirmed last or what the node was mounted with, which Cancel  *)
(* may store again; and it could have been confirmed in its sheet, although *)
(* any field of a node writes the whole form and two sheets validate        *)
(* nothing.                                                                 *)
THEOREM StoredSound == SettingsSpec => []StoredSettingsSound
<1>1. SettingsInv => StoredSettingsSound
  BY DEF SettingsInv, StoredSettingsSound, Valid
<1>2. QED
  BY <1>1, InitSettings, SettingsStep, PTL DEF SettingsSpec

(* A closed sheet holds what the form of the node holds or what the node    *)
(* was mounted with, unless it is an editor's; and no sheet but that of the *)
(* HTTP tool keeps a header that was half typed.                            *)
THEOREM DraftsGone == SettingsSpec => []DraftsDiscarded
<1>1. SettingsInit => DraftsDiscarded
  BY DEF SettingsInit, DraftsDiscarded
<1>2. SettingsInv /\ DraftsDiscarded /\ [SettingsNext]_settingsVars => DraftsDiscarded'
  BY DEF SettingsInv, DraftsDiscarded, SettingsNext, settingsVars, Remount, Mount, Open, Enter,
         TypeHeader, CloseSheet, Cancel, Reset, Submit, EditField, Effects
<1>3. QED
  BY <1>1, <1>2, InitSettings, SettingsStep, PTL DEF SettingsSpec

(***************************************************************************)
(* Sequences.                                                              *)
(***************************************************************************)

(* A set of numbers has a least one.                                       *)
LEMMA LeastNat ==
    ASSUME NEW T \in SUBSET Nat, T # {}
    PROVE  \E m \in T : \A n \in T : m <= n
<1> DEFINE R == {ss \in Nat \X Nat : ss[1] < ss[2]}
<1>1. IsWellFoundedOn(R, Nat)
  BY NatLessThanWellFounded DEF OpToRel
<1>2. PICK m \in T : \A y \in T : ~(<<y, m>> \in R)
  BY <1>1, WFMin
<1>3. \A x, y \in Nat : x < y => <<x, y>> \in R
  OBVIOUS
<1>4. \A x, y \in Nat : x < y \/ y <= x
  OBVIOUS
<1> HIDE DEF R
<1>5. QED
  BY <1>2, <1>3, <1>4

LEMMA Appended ==
    ASSUME NEW T, NEW s \in Seq(T), NEW e \in T
    PROVE  /\ Append(s, e) \in Seq(T)
           /\ ToSet(Append(s, e)) = ToSet(s) \cup {e}
           /\ IsInjective(Append(s, e)) <=> IsInjective(s) /\ e \notin ToSet(s)
<1> DEFINE n == Len(s)
           t == Append(s, e)
<1>1. /\ n \in Nat /\ DOMAIN s = 1..n /\ t \in Seq(T) /\ DOMAIN t = 1..(n + 1) /\ t[n + 1] = e
      /\ \A i \in 1..n : t[i] = s[i]
  BY AppendProperties
<1> HIDE DEF t
<1>2. \A i \in 1..(n + 1) : i \in 1..n \/ i = n + 1
  BY <1>1
<1>3. n + 1 \in 1..(n + 1) /\ n + 1 \notin 1..n /\ \A i \in 1..n : i \in 1..(n + 1)
  BY <1>1
<1> HIDE DEF n
<1>4. ToSet(t) = ToSet(s) \cup {e}
  BY <1>1, <1>2, <1>3 DEF ToSet
<1>5. ASSUME IsInjective(t) PROVE IsInjective(s) /\ e \notin ToSet(s)
  <2>1. \A i, j \in 1..(n + 1) : t[i] = t[j] => i = j
    BY <1>1, <1>5 DEF IsInjective
  <2>2. \A i, j \in 1..n : s[i] = s[j] => i = j
    BY <1>1, <1>3, <2>1
  <2>3. \A i \in 1..n : s[i] # e
    BY <1>1, <1>3, <2>1
  <2>4. QED
    BY <1>1, <2>2, <2>3 DEF IsInjective, ToSet
<1>6. ASSUME IsInjective(s), e \notin ToSet(s) PROVE IsInjective(t)
  <2>1. (\A i, j \in 1..n : s[i] = s[j] => i = j) /\ \A i \in 1..n : s[i] # e
    BY <1>1, <1>6 DEF IsInjective, ToSet
  <2>2. \A i, j \in 1..(n + 1) : t[i] = t[j] => i = j
    BY <1>1, <1>2, <2>1
  <2>3. QED
    BY <1>1, <2>2 DEF IsInjective
<1>7. QED
  BY <1>1, <1>4, <1>5, <1>6 DEF t

LEMMA InSeq ==
    ASSUME NEW A, NEW B, NEW s \in Seq(A), ToSet(s) \subseteq B
    PROVE  s \in Seq(B)
<1>1. \A i \in 1..Len(s) : s[i] \in B
  BY DEF ToSet
<1>2. QED
  BY <1>1, SeqDef

LEMMA SetOf ==
    ASSUME NEW A, NEW s \in Seq(A)
    PROVE  ToSet(s) \subseteq A
BY DEF ToSet

(* What is kept of a sequence up to each element.                          *)
Keep(kept, e, set) == IF e \in set THEN Append(kept, e) ELSE kept

LEMMA KeepSeq ==
    ASSUME NEW T, NEW kept \in Seq(T), NEW e \in T, NEW set
    PROVE  Keep(kept, e, set) \in Seq(T)
<1>1. Append(kept, e) \in Seq(T)
  BY AppendProperties
<1>2. QED
  BY <1>1 DEF Keep

LEMMA ThoseBy ==
    ASSUME NEW T, NEW seq \in Seq(T), NEW set
    PROVE  \E f \in [0..Len(seq) -> Seq(T)] :
              /\ f[0] = <<>>
              /\ \A n \in 1..Len(seq) : f[n] = Keep(f[n - 1], seq[n], set)
              /\ Those(seq, set) = f[Len(seq)]
<1> DEFINE L == Len(seq)
           Q == Seq(T)
           Keeps(f, k) == /\ f \in [0..k -> Q] /\ f[0] = <<>>
                          /\ \A n \in 1..k : f[n] = Keep(f[n - 1], seq[n], set)
           step(f) == [n \in 0..L |-> IF n = 0 THEN <<>> ELSE Keep(f[n - 1], seq[n], set)]
           Bad == {k \in Nat : k <= L /\ ~\E f : Keeps(f, k)}
<1>1. L \in Nat /\ \A n \in 1..L : seq[n] \in T
  OBVIOUS
<1>2. <<>> \in Q
  OBVIOUS
<1>3. Those(seq, set) = (CHOOSE f : f = step(f))[L]
  BY DEF Those, Keep
<1>0. \A kept \in Q : \A n \in 1..L : Keep(kept, seq[n], set) \in Q
  BY <1>1, KeepSeq
<1> HIDE DEF Q
<1>4. Bad = {}
  <2> SUFFICES ASSUME Bad # {} PROVE FALSE
    OBVIOUS
  <2>1. PICK k \in Bad : \A n \in Bad : k <= n
    BY LeastNat
  <2>2. k \in Nat /\ k <= L /\ ~\E f : Keeps(f, k)
    OBVIOUS
  <2>3. CASE k = 0
    <3>1. Keeps([n \in 0..0 |-> <<>>], 0)
      BY <1>2
    <3>2. QED
      BY <2>2, <2>3, <3>1
  <2>4. CASE k # 0
    <3>1. k - 1 \in Nat /\ k - 1 <= L /\ ~(k <= k - 1) /\ k \in 1..L
      BY <1>1, <2>2, <2>4
    <3>2. k - 1 \notin Bad
      BY <2>1, <3>1
    <3>3. PICK f : Keeps(f, k - 1)
      BY <3>1, <3>2
    <3> DEFINE last == Keep(f[k - 1], seq[k], set)
               g == [n \in 0..k |-> IF n = k THEN last ELSE f[n]]
    <3>4. last \in Q
      BY <1>0, <3>1, <3>3
    <3>5. /\ \A n \in 0..(k - 1) : g[n] = f[n] /\ f[n] \in Q
          /\ g[k] = last
      BY <3>1, <3>3
    <3>6. g \in [0..k -> Q]
      BY <3>1, <3>3, <3>4
    <3> HIDE DEF last
    <3>7. ASSUME NEW n \in 1..k PROVE g[n] = Keep(g[n - 1], seq[n], set)
      <4>1. n - 1 \in 0..(k - 1) /\ (n = k \/ n \in 1..(k - 1))
        BY <3>1
      <4>2. CASE n = k
        BY <3>5, <4>1, <4>2 DEF last
      <4>3. CASE n \in 1..(k - 1)
        BY <3>1, <3>3, <3>5, <4>1, <4>3
      <4>4. QED
        BY <4>1, <4>2, <4>3
    <3>8. g[0] = <<>>
      BY <3>1, <3>3, <3>5
    <3>9. Keeps(g, k)
      <4> HIDE DEF g
      <4>1. QED
        BY <3>6, <3>7, <3>8
    <3>10. QED
      BY <2>2, <3>9
  <2>5. QED
    BY <2>3, <2>4
<1>5. PICK f : Keeps(f, L)
  BY SMTT(60), <1>1, <1>4
<1>6. f = step(f)
  BY <1>1, <1>5
<1>7. ASSUME NEW h, h = step(h) PROVE h = f
  <2>1. /\ h[0] = <<>> /\ \A n \in 1..L : h[n] = Keep(h[n - 1], seq[n], set)
        /\ h = [n \in 0..L |-> h[n]]
    BY <1>1, <1>7
  <2> DEFINE Differ == {n \in Nat : n <= L /\ h[n] # f[n]}
  <2>2. Differ = {}
    <3> SUFFICES ASSUME Differ # {} PROVE FALSE
      OBVIOUS
    <3>1. PICK n \in Differ : \A k \in Differ : n <= k
      BY LeastNat
    <3>2. n # 0
      BY <1>5, <2>1
    <3>3. n \in 1..L /\ n - 1 \in Nat /\ n - 1 <= L /\ ~(n <= n - 1)
      BY <1>1, <3>2
    <3>4. h[n - 1] = f[n - 1]
      BY <3>1, <3>3
    <3>5. QED
      BY <1>5, <2>1, <3>3, <3>4
  <2>3. \A n \in 0..L : h[n] = f[n]
    BY <1>1, <2>2
  <2>4. QED
    BY <1>5, <2>1, <2>3
<1>8. (CHOOSE h : h = step(h)) = f
  <2> HIDE DEF step
  <2>1. QED
    BY <1>6, <1>7
<1>9. QED
  BY <1>3, <1>5, <1>8 DEF Q

LEMMA ThoseNone == ASSUME NEW set PROVE Those(<<>>, set) = <<>>
<1> DEFINE s == <<>>
           T == {}
<1>1. s \in Seq(T) /\ Len(s) = 0
  OBVIOUS
<1> HIDE DEF s, T
<1>2. PICK f \in [0..Len(s) -> Seq(T)] :
              /\ f[0] = <<>>
              /\ \A n \in 1..Len(s) : f[n] = Keep(f[n - 1], s[n], set)
              /\ Those(s, set) = f[Len(s)]
  BY ZenonT(60), <1>1, ThoseBy
<1>3. QED
  BY <1>1, <1>2 DEF s

LEMMA ThoseAppend ==
    ASSUME NEW T, NEW seq \in Seq(T), NEW e \in T, NEW set
    PROVE  Those(Append(seq, e), set) = Keep(Those(seq, set), e, set)
<1> DEFINE L == Len(seq)
           more == Append(seq, e)
<1>1. /\ L \in Nat /\ more \in Seq(T) /\ Len(more) = L + 1 /\ more[L + 1] = e
      /\ \A n \in 1..L : more[n] = seq[n]
  BY AppendProperties
<1>2. PICK f \in [0..L -> Seq(T)] :
              /\ f[0] = <<>>
              /\ \A n \in 1..L : f[n] = Keep(f[n - 1], seq[n], set)
              /\ Those(seq, set) = f[L]
  BY ZenonT(60), ThoseBy
<1> HIDE DEF more
<1>7. more \in Seq(T)
  BY <1>1
<1>8. PICK g \in [0..Len(more) -> Seq(T)] :
              /\ g[0] = <<>>
              /\ \A n \in 1..Len(more) : g[n] = Keep(g[n - 1], more[n], set)
              /\ Those(more, set) = g[Len(more)]
  BY ZenonT(60), <1>7, ThoseBy
<1>3. /\ g \in [0..(L + 1) -> Seq(T)] /\ g[0] = <<>>
      /\ \A n \in 1..(L + 1) : g[n] = Keep(g[n - 1], more[n], set)
      /\ Those(more, set) = g[L + 1]
  BY <1>1, <1>8
<1> DEFINE Differ == {n \in Nat : n <= L /\ g[n] # f[n]}
<1>4. Differ = {}
  <2> SUFFICES ASSUME Differ # {} PROVE FALSE
    OBVIOUS
  <2>1. PICK n \in Differ : \A k \in Differ : n <= k
    BY LeastNat
  <2>2. n # 0
    BY <1>2, <1>3
  <2>3. n \in 1..L /\ n \in 1..(L + 1) /\ n - 1 \in Nat /\ n - 1 <= L /\ ~(n <= n - 1)
    BY <1>1, <2>2
  <2>4. g[n - 1] = f[n - 1]
    BY <2>1, <2>3
  <2>5. QED
    BY <1>1, <1>2, <1>3, <2>3, <2>4
<1>5. g[L] = f[L] /\ L + 1 \in 1..(L + 1) /\ L + 1 - 1 = L
  BY <1>1, <1>4
<1>6. QED
  BY <1>1, <1>2, <1>3, <1>5 DEF more

(* What is kept: the elements that are in the set, none twice that was not *)
(* there twice.                                                            *)
LEMMA ThoseAre ==
    ASSUME NEW T, NEW seq \in Seq(T), NEW set
    PROVE  /\ Those(seq, set) \in Seq(T)
           /\ ToSet(Those(seq, set)) = ToSet(seq) \cap set
           /\ IsInjective(seq) => IsInjective(Those(seq, set))
<1> DEFINE Right(s) == /\ Those(s, set) \in Seq(T)
                       /\ ToSet(Those(s, set)) = ToSet(s) \cap set
                       /\ IsInjective(s) => IsInjective(Those(s, set))
           Bad == {k \in Nat : \E s \in Seq(T) : Len(s) = k /\ ~Right(s)}
<1>1. Bad = {}
  <2> SUFFICES ASSUME Bad # {} PROVE FALSE
    OBVIOUS
  <2>1. PICK k \in Bad : \A n \in Bad : k <= n
    BY LeastNat
  <2>2. PICK s \in Seq(T) : Len(s) = k /\ ~Right(s)
    OBVIOUS
  <2>3. CASE s = <<>>
    <3>1. Those(<<>>, set) = <<>> /\ <<>> \in Seq(T)
      BY ThoseNone
    <3>2. ToSet(<<>>) = {}
      BY DEF ToSet
    <3>3. QED
      BY <2>2, <2>3, <3>1, <3>2
  <2>4. CASE s # <<>>
    <3>1. PICK before \in Seq(T), e \in T : s = Append(before, e)
      BY <2>4, SequenceEmptyOrAppend
    <3>2. Len(before) \in Nat /\ ~(k <= Len(before))
      BY <2>2, <3>1
    <3> DEFINE kept == Those(before, set)
    <3>3. Right(before)
      BY <2>1, <3>2
    <3>4. kept \in Seq(T) /\ ToSet(kept) = ToSet(before) \cap set /\ (IsInjective(before) => IsInjective(kept))
      BY <3>3
    <3>5. Those(s, set) = Keep(kept, e, set)
      BY <3>1, ThoseAppend
    <3> HIDE DEF kept
    <3>6. ToSet(s) = ToSet(before) \cup {e} /\ (IsInjective(s) <=> IsInjective(before) /\ e \notin ToSet(before))
      BY <3>1, Appended
    <3>7. /\ Append(kept, e) \in Seq(T)
          /\ ToSet(Append(kept, e)) = ToSet(kept) \cup {e}
          /\ IsInjective(Append(kept, e)) <=> IsInjective(kept) /\ e \notin ToSet(kept)
      BY <3>4, Appended
    <3>8. Right(s)
      <4>1. CASE e \in set
        <5>1. Those(s, set) = Append(kept, e)
          BY <3>5, <4>1 DEF Keep
        <5>2. QED
          BY <3>4, <3>6, <3>7, <4>1, <5>1
      <4>2. CASE e \notin set
        <5>1. Those(s, set) = kept
          BY <3>5, <4>2 DEF Keep
        <5>2. QED
          BY <3>4, <3>6, <4>2, <5>1
      <4>3. QED
        BY <4>1, <4>2
    <3>9. QED
      BY <2>2, <3>8
  <2>5. QED
    BY <2>3, <2>4
<1>2. Len(seq) \in Nat
  OBVIOUS
<1>3. QED
  BY <1>1, <1>2

(***************************************************************************)
(* Drawing.                                                                *)
(***************************************************************************)

(* What an edge is.                                                        *)
LEMMA Joins ==
    ASSUME NEW nodes, NEW e
    PROVE  e \in Connections(nodes) <=>
              /\ e = [source |-> e.source, sourceHandle |-> e.sourceHandle,
                      target |-> e.target, targetHandle |-> e.targetHandle]
              /\ e.source \in DOMAIN nodes /\ e.target \in DOMAIN nodes
              /\ e.sourceHandle \in SourceHandles(nodes[e.source])
              /\ e.targetHandle \in TargetHandles(nodes[e.target])
              /\ ValidConnection(e)
<1> DEFINE From(s) == {Between(nodes, s, t) : t \in DOMAIN nodes}
           All == {UNION From(s) : s \in DOMAIN nodes}
<1>1. e \in Connections(nodes) <=> e \in UNION All /\ ValidConnection(e)
  BY Zenon DEF Connections
<1>2. e \in UNION All <=> \E s \in DOMAIN nodes : e \in UNION From(s)
  <2> HIDE DEF From
  <2>1. QED
    BY Zenon
<1>3. ASSUME NEW s
      PROVE  e \in UNION From(s) <=> \E t \in DOMAIN nodes : e \in Between(nodes, s, t)
  BY Zenon
<1>4. e \in UNION All <=> \E s \in DOMAIN nodes : \E t \in DOMAIN nodes : e \in Between(nodes, s, t)
  <2> HIDE DEF From, All
  <2>1. QED
    BY <1>2, <1>3
<1> HIDE DEF From, All
<1>5. ASSUME NEW s, NEW t
      PROVE  e \in Between(nodes, s, t) <=>
                /\ e = [source |-> e.source, sourceHandle |-> e.sourceHandle,
                        target |-> e.target, targetHandle |-> e.targetHandle]
                /\ e.source = s /\ e.target = t
                /\ e.sourceHandle \in SourceHandles(nodes[s])
                /\ e.targetHandle \in TargetHandles(nodes[t])
  BY DEF Between
<1>6. QED
  BY <1>1, <1>4, <1>5

LEMMA Changed ==
    ASSUME WellDrawn, NEW nodes, NEW edges, Change(nodes, edges),
           Drawable([nodes |-> nodes, edges |-> edges])
    PROVE  WellDrawn'
<1>1. flow' = [nodes |-> nodes, edges |-> edges] /\ edits' = edits + 1 /\ edits < MaxEdits
  BY DEF Change
<1>2. edits' \in 0..MaxEdits
  BY <1>1, EditsAssumption DEF WellDrawn
<1>3. QED
  BY <1>1, <1>2 DEF WellDrawn

WellFormed(nodes) ==
    /\ \A id \in DOMAIN nodes :
          /\ nodes[id] \in Nodes
          /\ IsInjective(nodes[id].ins) /\ IsInjective(nodes[id].outs)
    /\ ResultNode \in DOMAIN nodes /\ nodes[ResultNode].type = "result"

LEMMA DrawableIs ==
    ASSUME NEW nodes, NEW edges
    PROVE  Drawable([nodes |-> nodes, edges |-> edges]) <=>
              WellFormed(nodes) /\ edges \in Seq(Connections(nodes)) /\ IsInjective(edges)
<1>1. [nodes |-> nodes, edges |-> edges].nodes = nodes /\ [nodes |-> nodes, edges |-> edges].edges = edges
  OBVIOUS
<1>2. QED
  BY <1>1 DEF Drawable, WellFormed

LEMMA DrawnFacts ==
    ASSUME WellDrawn
    PROVE  /\ WellFormed(flow.nodes) /\ flow.edges \in Seq(Connections(flow.nodes)) /\ IsInjective(flow.edges)
           /\ ToSet(flow.edges) \subseteq Connections(flow.nodes)
<1>1. WellFormed(flow.nodes) /\ flow.edges \in Seq(Connections(flow.nodes)) /\ IsInjective(flow.edges)
  BY DEF WellDrawn, Drawable, WellFormed
<1>2. QED
  BY <1>1, SetOf

(* Edges are dropped, and those that are left can be drawn.                *)
LEMMA Dropped ==
    ASSUME WellDrawn, NEW nodes, NEW set, WellFormed(nodes),
           \A e \in ToSet(flow.edges) \cap set : e \in Connections(nodes),
           Change(nodes, Those(flow.edges, set))
    PROVE  WellDrawn'
<1> DEFINE edges == Those(flow.edges, set)
           C == Connections(flow.nodes)
           D == Connections(nodes)
<1>1. flow.edges \in Seq(C) /\ IsInjective(flow.edges)
  BY DrawnFacts
<1> HIDE DEF C, D
<1>2. edges \in Seq(C) /\ ToSet(edges) = ToSet(flow.edges) \cap set /\ IsInjective(edges)
  BY <1>1, ThoseAre
<1>3. ToSet(edges) \subseteq D
  BY <1>2 DEF D
<1>4. edges \in Seq(D)
  BY <1>2, <1>3, InSeq
<1> HIDE DEF edges
<1>5. Drawable([nodes |-> nodes, edges |-> edges])
  BY <1>2, <1>4, DrawableIs DEF D
<1>6. Change(nodes, edges)
  BY DEF edges
<1>7. QED
  BY <1>5, <1>6, Changed

LEMMA NewNodes ==
    ASSUME NEW type \in NodeTypes
    PROVE  /\ NewNode(type) \in Nodes
           /\ IsInjective(NewNode(type).ins) /\ IsInjective(NewNode(type).outs)
<1>1. <<>> \in Seq(Labels) /\ IsInjective(<<>>)
  BY DEF IsInjective
<1>2. QED
  BY <1>1 DEF NewNode, Nodes, Configs

LEMMA AddNodeStep ==
    ASSUME WellDrawn, NEW id \in Palette, AddNode(id)
    PROVE  WellDrawn'
<1> DEFINE new == NewNode(TypeOf[id])
           nodes == [n \in DOMAIN flow.nodes \cup {id} |-> IF n = id THEN new ELSE flow.nodes[n]]
           C == Connections(flow.nodes)
           D == Connections(nodes)
<1>1. id \notin DOMAIN flow.nodes /\ Change(nodes, flow.edges)
  BY DEF AddNode
<1>2. /\ WellFormed(flow.nodes) /\ flow.edges \in Seq(C) /\ IsInjective(flow.edges)
      /\ ToSet(flow.edges) \subseteq C
  BY DrawnFacts
<1>3. new \in Nodes /\ IsInjective(new.ins) /\ IsInjective(new.outs)
  BY NewNodes, PaletteAssumption
<1> HIDE DEF new
<1>4. /\ DOMAIN nodes = DOMAIN flow.nodes \cup {id}
      /\ nodes[id] = new /\ \A n \in DOMAIN flow.nodes : nodes[n] = flow.nodes[n]
  BY <1>1
<1> HIDE DEF nodes
<1>5. WellFormed(nodes)
  BY <1>1, <1>2, <1>3, <1>4 DEF WellFormed
<1>6. C \subseteq D
  <2> SUFFICES ASSUME NEW e \in C PROVE e \in D
    OBVIOUS
  <2>1. /\ e = [source |-> e.source, sourceHandle |-> e.sourceHandle,
                target |-> e.target, targetHandle |-> e.targetHandle]
        /\ e.source \in DOMAIN flow.nodes /\ e.target \in DOMAIN flow.nodes
        /\ e.sourceHandle \in SourceHandles(flow.nodes[e.source])
        /\ e.targetHandle \in TargetHandles(flow.nodes[e.target])
        /\ ValidConnection(e)
    BY Joins
  <2>2. QED
    BY <1>4, <2>1, Joins
<1>7. flow.edges \in Seq(D)
  <2> HIDE DEF C, D
  <2>1. QED
    BY <1>2, <1>6, InSeq
<1>8. Drawable([nodes |-> nodes, edges |-> flow.edges])
  BY <1>2, <1>5, <1>7, DrawableIs
<1>9. QED
  BY <1>1, <1>8, Changed

LEMMA DeleteNodeStep ==
    ASSUME WellDrawn, NEW id \in DOMAIN flow.nodes, DeleteNode(id)
    PROVE  WellDrawn'
<1> DEFINE nodes == [n \in DOMAIN flow.nodes \ {id} |-> flow.nodes[n]]
           set == {e \in ToSet(flow.edges) : id \notin {e.source, e.target}}
<1>1. flow.nodes[id].type # "result" /\ Change(nodes, Those(flow.edges, set))
  BY DEF DeleteNode
<1>2. WellFormed(flow.nodes) /\ ToSet(flow.edges) \subseteq Connections(flow.nodes)
  BY DrawnFacts
<1>3. DOMAIN nodes = DOMAIN flow.nodes \ {id} /\ \A n \in DOMAIN nodes : nodes[n] = flow.nodes[n]
  OBVIOUS
<1>4. WellFormed(nodes)
  <2> HIDE DEF nodes
  <2>1. QED
    BY <1>1, <1>2, <1>3 DEF WellFormed
<1>5. ASSUME NEW e \in ToSet(flow.edges) \cap set PROVE e \in Connections(nodes)
  <2>1. /\ e = [source |-> e.source, sourceHandle |-> e.sourceHandle,
                target |-> e.target, targetHandle |-> e.targetHandle]
        /\ e.source \in DOMAIN flow.nodes /\ e.target \in DOMAIN flow.nodes
        /\ e.sourceHandle \in SourceHandles(flow.nodes[e.source])
        /\ e.targetHandle \in TargetHandles(flow.nodes[e.target])
        /\ ValidConnection(e)
    BY <1>2, Joins
  <2>2. e.source # id /\ e.target # id
    OBVIOUS
  <2> HIDE DEF nodes
  <2>3. QED
    BY <1>3, <2>1, <2>2, Joins
<1> HIDE DEF nodes, set
<1>6. QED
  BY <1>1, <1>4, <1>5, Dropped

LEMMA DeleteEdgeStep ==
    ASSUME WellDrawn, NEW e, DeleteEdge(e)
    PROVE  WellDrawn'
<1> DEFINE set == ToSet(flow.edges) \ {e}
<1>1. Change(flow.nodes, Those(flow.edges, set))
  BY DEF DeleteEdge
<1>2. WellFormed(flow.nodes) /\ ToSet(flow.edges) \subseteq Connections(flow.nodes)
  BY DrawnFacts
<1> HIDE DEF set
<1>3. QED
  BY <1>1, <1>2, Dropped

LEMMA ConnectStep ==
    ASSUME WellDrawn, NEW e \in Connections(flow.nodes), Connect(e)
    PROVE  WellDrawn'
<1> DEFINE C == Connections(flow.nodes)
           edges == Append(flow.edges, e)
<1>1. e \notin ToSet(flow.edges) /\ Change(flow.nodes, edges)
  BY DEF Connect
<1>2. WellFormed(flow.nodes) /\ flow.edges \in Seq(C) /\ IsInjective(flow.edges) /\ e \in C
  BY DrawnFacts
<1> HIDE DEF C
<1>3. edges \in Seq(C) /\ IsInjective(edges)
  BY <1>1, <1>2, Appended
<1> HIDE DEF edges
<1>4. Drawable([nodes |-> flow.nodes, edges |-> edges])
  BY <1>2, <1>3, DrawableIs DEF C
<1>5. QED
  BY <1>1, <1>4, Changed

(* A node's data changes: its ghost edges go, and no others.               *)
LEMMA SetDataStep ==
    ASSUME WellDrawn, NEW id \in DOMAIN flow.nodes, NEW node \in Nodes,
           node.type = flow.nodes[id].type,
           IsInjective(node.ins), IsInjective(node.outs), SetData(id, node)
    PROVE  WellDrawn'
<1> DEFINE nodes == [flow.nodes EXCEPT ![id] = node]
           set == {e \in ToSet(flow.edges) : ~HandleGone(e, nodes)}
<1>1. Change(nodes, Those(flow.edges, set))
  BY DEF SetData
<1>2. WellFormed(flow.nodes) /\ ToSet(flow.edges) \subseteq Connections(flow.nodes)
  BY DrawnFacts
<1>3. /\ DOMAIN nodes = DOMAIN flow.nodes /\ nodes[id] = node
      /\ \A n \in DOMAIN nodes \ {id} : nodes[n] = flow.nodes[n]
  OBVIOUS
<1>4. WellFormed(nodes)
  <2> HIDE DEF nodes
  <2>1. QED
    BY <1>2, <1>3 DEF WellFormed
<1>5. ASSUME NEW e \in ToSet(flow.edges) \cap set PROVE e \in Connections(nodes)
  <2>1. /\ e = [source |-> e.source, sourceHandle |-> e.sourceHandle,
                target |-> e.target, targetHandle |-> e.targetHandle]
        /\ e.source \in DOMAIN flow.nodes /\ e.target \in DOMAIN flow.nodes
        /\ ValidConnection(e)
    BY <1>2, Joins
  <2>2. ~HandleGone(e, nodes)
    OBVIOUS
  <2> HIDE DEF nodes
  <2>3. QED
    BY <1>3, <2>1, <2>2, Joins DEF HandleGone
<1> HIDE DEF nodes, set
<1>6. QED
  BY <1>1, <1>4, <1>5, Dropped

(* The names a user enters stay distinct.                                  *)
LEMMA EnteredLabels ==
    ASSUME NEW labels \in Seq(Labels), IsInjective(labels), NEW label \in Labels
    PROVE  Entered(labels, label) \in Seq(Labels) /\ IsInjective(Entered(labels, label))
<1>1. CASE label \notin ToSet(labels)
  <2>1. Append(labels, label) \in Seq(Labels) /\ IsInjective(Append(labels, label))
    BY <1>1, Appended
  <2>2. QED
    BY <1>1, <2>1 DEF Entered
<1>2. CASE label \in ToSet(labels)
  <2> DEFINE found == {i \in 1..Len(labels) : labels[i] = label}
             k == CHOOSE x \in found : \A y \in found : x <= y
             cut == SubSeq(labels, 1, k)
  <2>1. found # {} /\ found \in SUBSET Nat
    BY <1>2 DEF ToSet
  <2>2. \E x \in found : \A y \in found : x <= y
    BY <2>1, LeastNat
  <2>3. Entered(labels, label) = cut
    BY <1>2, <2>1 DEF Entered, SelectInSeq, Min
  <2>4. k \in found
    <3> HIDE DEF found
    <3>1. QED
      BY <2>2
  <2> HIDE DEF k
  <2>5. k \in 1..Len(labels) /\ Len(labels) \in Nat
    BY <2>4
  <2>6. cut \in Seq(Labels) /\ Len(cut) = k /\ \A i \in 1..k : cut[i] = labels[i]
    BY <2>5, SubSeqProperties
  <2>7. IsInjective(cut)
    <3> HIDE DEF cut
    <3>1. DOMAIN cut = 1..k /\ DOMAIN labels = 1..Len(labels) /\ \A i \in 1..k : i \in 1..Len(labels)
      BY <2>5, <2>6
    <3>2. QED
      BY <2>6, <3>1 DEF IsInjective
  <2>8. QED
    BY <2>3, <2>6, <2>7
<1>3. QED
  BY <1>1, <1>2

LEMMA EditHandlesStep ==
    ASSUME WellDrawn, NEW id \in DOMAIN flow.nodes, EditHandles(id)
    PROVE  WellDrawn'
<1> DEFINE node == flow.nodes[id]
<1>1. /\ node \in Nodes /\ node.ins \in Seq(Labels) /\ node.outs \in Seq(Labels)
      /\ IsInjective(node.ins) /\ IsInjective(node.outs)
  BY DrawnFacts DEF WellFormed, Nodes
<1>2. PICK label \in Labels :
        \/ SetData(id, [node EXCEPT !.outs = Entered(@, label)])
        \/ SetData(id, [node EXCEPT !.outs = Those(@, Labels \ {label})])
        \/ SetData(id, [node EXCEPT !.ins = Entered(@, label)])
        \/ SetData(id, [node EXCEPT !.ins = Those(@, Labels \ {label})])
  BY DEF EditHandles
<1> HIDE DEF node
<1>3. ASSUME NEW outs \in Seq(Labels), IsInjective(outs), SetData(id, [node EXCEPT !.outs = outs])
      PROVE  WellDrawn'
  <2> DEFINE new == [node EXCEPT !.outs = outs]
  <2>1. new \in Nodes /\ new.type = node.type /\ new.ins = node.ins /\ new.outs = outs
    BY <1>1 DEF Nodes
  <2>2. new.type = flow.nodes[id].type
    BY <2>1 DEF node
  <2>3. SetData(id, new)
    BY <1>3
  <2> HIDE DEF new
  <2>4. QED
    BY <1>1, <1>3, <2>1, <2>2, <2>3, SetDataStep
<1>4. ASSUME NEW ins \in Seq(Labels), IsInjective(ins), SetData(id, [node EXCEPT !.ins = ins])
      PROVE  WellDrawn'
  <2> DEFINE new == [node EXCEPT !.ins = ins]
  <2>1. new \in Nodes /\ new.type = node.type /\ new.ins = ins /\ new.outs = node.outs
    BY <1>1 DEF Nodes
  <2>2. new.type = flow.nodes[id].type
    BY <2>1 DEF node
  <2>3. SetData(id, new)
    BY <1>4
  <2> HIDE DEF new
  <2>4. QED
    BY <1>1, <1>4, <2>1, <2>2, <2>3, SetDataStep
<1>5. /\ Entered(node.outs, label) \in Seq(Labels) /\ IsInjective(Entered(node.outs, label))
      /\ Entered(node.ins, label) \in Seq(Labels) /\ IsInjective(Entered(node.ins, label))
  BY <1>1, EnteredLabels
<1>6. \A set : /\ Those(node.outs, set) \in Seq(Labels) /\ IsInjective(Those(node.outs, set))
               /\ Those(node.ins, set) \in Seq(Labels) /\ IsInjective(Those(node.ins, set))
  BY <1>1, ThoseAre
<1>7. CASE SetData(id, [node EXCEPT !.outs = Entered(node.outs, label)])
  BY <1>3, <1>5, <1>7
<1>8. CASE SetData(id, [node EXCEPT !.outs = Those(node.outs, Labels \ {label})])
  BY <1>3, <1>6, <1>8
<1>9. CASE SetData(id, [node EXCEPT !.ins = Entered(node.ins, label)])
  BY <1>4, <1>5, <1>9
<1>10. CASE SetData(id, [node EXCEPT !.ins = Those(node.ins, Labels \ {label})])
  BY <1>4, <1>6, <1>10
<1>11. QED
  BY <1>2, <1>7, <1>8, <1>9, <1>10

LEMMA Listed ==
    ASSUME NEW S \in SUBSET Labels
    PROVE  SetToSeq(S) \in Seq(Labels) /\ IsInjective(SetToSeq(S))
<1>1. IsFiniteSet(S)
  BY LabelsAssumption, FS_Subset
<1>2. Cardinality(S) \in Nat /\ ExistsBijection(1..Cardinality(S), S)
  BY <1>1, FS_CardinalityType
<1>3. \E f \in [1..Cardinality(S) -> S] : IsInjective(f)
  BY <1>2 DEF ExistsBijection, Bijection, Injection, IsInjective
<1>4. SetToSeq(S) \in [1..Cardinality(S) -> S] /\ IsInjective(SetToSeq(S))
  BY <1>3 DEF SetToSeq
<1> DEFINE s == SetToSeq(S)
           n == Cardinality(S)
<1>5. s \in [1..n -> S] /\ n \in Nat
  BY <1>2, <1>4
<1> HIDE DEF s, n
<1>6. s \in [1..n -> Labels]
  BY <1>5
<1>7. s \in Seq(Labels)
  BY <1>5, <1>6, SeqDef
<1>8. QED
  BY <1>4, <1>7 DEF s

LEMMA EditCodeStep ==
    ASSUME WellDrawn, NEW id \in DOMAIN flow.nodes, EditCode(id)
    PROVE  WellDrawn'
<1> DEFINE node == flow.nodes[id]
<1>1. node \in Nodes
  BY DrawnFacts DEF WellFormed
<1>2. PICK ins \in SUBSET Labels, outs \in SUBSET Labels :
         SetData(id, [node EXCEPT !.ins = SetToSeq(ins), !.outs = SetToSeq(outs)])
  BY DEF EditCode
<1> DEFINE new == [node EXCEPT !.ins = SetToSeq(ins), !.outs = SetToSeq(outs)]
<1>3. /\ SetToSeq(ins) \in Seq(Labels) /\ IsInjective(SetToSeq(ins))
      /\ SetToSeq(outs) \in Seq(Labels) /\ IsInjective(SetToSeq(outs))
  BY Listed
<1> HIDE DEF node
<1>4. new \in Nodes /\ new.type = node.type /\ new.ins = SetToSeq(ins) /\ new.outs = SetToSeq(outs)
  BY <1>1, <1>3 DEF Nodes
<1>5. new.type = flow.nodes[id].type
  BY <1>4 DEF node
<1> HIDE DEF new
<1>6. SetData(id, new)
  BY <1>2 DEF new
<1>7. IsInjective(new.ins) /\ IsInjective(new.outs)
  BY <1>3, <1>4
<1>8. QED
  BY <1>4, <1>5, <1>6, <1>7, SetDataStep

LEMMA ConfigureStep ==
    ASSUME WellDrawn, NEW id \in DOMAIN flow.nodes, Configure(id)
    PROVE  WellDrawn'
<1> DEFINE node == flow.nodes[id]
<1>1. node \in Nodes /\ IsInjective(node.ins) /\ IsInjective(node.outs)
  BY DrawnFacts DEF WellFormed
<1>2. PICK config \in Configs : SetData(id, [node EXCEPT !.config = config])
  BY DEF Configure
<1> DEFINE new == [node EXCEPT !.config = config]
<1> HIDE DEF node
<1>3. new \in Nodes /\ new.type = node.type /\ new.ins = node.ins /\ new.outs = node.outs
  BY <1>1 DEF Nodes
<1>4. new.type = flow.nodes[id].type
  BY <1>3 DEF node
<1> HIDE DEF new
<1>5. SetData(id, new)
  BY <1>2 DEF new
<1>6. QED
  BY <1>1, <1>3, <1>4, <1>5, SetDataStep

LEMMA DrawingStep == WellDrawn /\ [Next]_vars => WellDrawn'
<1> SUFFICES ASSUME WellDrawn, [Next]_vars PROVE WellDrawn'
  OBVIOUS
<1>1. CASE \E id \in Palette : AddNode(id)
  BY <1>1, AddNodeStep
<1>2. CASE \E id \in DOMAIN flow.nodes :
              DeleteNode(id) \/ EditHandles(id) \/ EditCode(id) \/ Configure(id)
  BY <1>2, DeleteNodeStep, EditHandlesStep, EditCodeStep, ConfigureStep
<1>3. CASE \E e \in ToSet(flow.edges) : DeleteEdge(e)
  BY <1>3, DeleteEdgeStep
<1>4. CASE \E e \in Connections(flow.nodes) : Connect(e)
  BY <1>4, ConnectStep
<1>5. CASE UNCHANGED vars
  BY <1>5 DEF vars, WellDrawn
<1>6. QED
  BY <1>1, <1>2, <1>3, <1>4, <1>5 DEF Next

(* Whatever is added, removed, renamed or re-coded in whatever order, on a *)
(* flow that was drawn so, every edge joins two handles that are there and *)
(* may be joined.                                                          *)
THEOREM DrawnSoundly == Spec => []WellDrawn
<1>1. Init => WellDrawn
  BY LoadedAssumption, EditsAssumption DEF Init, WellDrawn
<1>2. QED
  BY <1>1, DrawingStep, PTL DEF Spec

(***************************************************************************)
(* Compiling what is drawn.                                                *)
(***************************************************************************)

LEMMA HandlesOf ==
    ASSUME NEW type, NEW names, NEW h
    PROVE  h \in Handles(type, names) <=>
              h = [type |-> type, name |-> h.name] /\ h.name \in names
<1>1. h \in Handles(type, names) <=> \E x \in names : h = [type |-> type, name |-> x]
  BY DEF Handles
<1>2. \A x : h = [type |-> type, name |-> x] => h.name = x
  OBVIOUS
<1>3. QED
  BY <1>1, <1>2

(* The handles of each component: no node offers two of one name, and what *)
(* offers a value is compiled and is not the result.                       *)
LEMMA HandleFacts ==
    ASSUME NEW node \in Nodes
    PROVE  /\ \A h \in TargetHandles(node) :
                 /\ h = [type |-> h.type, name |-> h.name]
                 /\ h.type \in CapabilityTypes <=> h.type \notin ValueTypes
                 /\ h.type \in ValueTypes => node.type \in CompiledTypes \ {"result"}
                 /\ \A g \in TargetHandles(node) : h.name = g.name => h = g
           /\ \A h \in SourceHandles(node) : h = [type |-> h.type, name |-> h.name]
           /\ node.type = "entrypoint" =>
                 /\ SourceHandles(node) = {}
                 /\ \A h \in TargetHandles(node) : h.name \in ToSet(node.outs)
           /\ node.type = "result" =>
                 /\ TargetHandles(node) = {}
                 /\ \A h \in SourceHandles(node) : h.type = "text" /\ h.name \in ToSet(node.ins)
           /\ node.type = "chat-openai" => \A h \in TargetHandles(node) : h.name = "response"
<1> DEFINE from == Component(node).from
           to == Component(node).to
<1>1. SourceHandles(node) = from /\ TargetHandles(node) = to
  BY DEF SourceHandles, TargetHandles
<1>2. node.type \in NodeTypes
  BY DEF Nodes
<1>3. ASSUME NEW type, NEW names, NEW h \in Handles(type, names)
      PROVE  /\ h.type = type /\ h.name \in names
             /\ h = [type |-> h.type, name |-> h.name]
             /\ \A g \in Handles(type, names) : h.name = g.name => h = g
  <2>1. \A g \in Handles(type, names) : g = [type |-> type, name |-> g.name] /\ g.name \in names
    BY HandlesOf
  <2>2. h.type = type
    BY <2>1
  <2>3. QED
    BY <2>1, <2>2
<1>4. CASE node.type = "entrypoint"
  <2>1. from = {} /\ to = Handles("text", ToSet(node.outs))
    BY <1>4 DEF Component, EntrypointNode
  <2> HIDE DEF from, to
  <2>2. QED
    BY <1>1, <1>3, <1>4, <2>1 DEF CapabilityTypes, ValueTypes, CompiledTypes
<1>5. CASE node.type = "result"
  <2>1. from = Handles("text", ToSet(node.ins)) /\ to = {}
    BY <1>5 DEF Component, ResultsNode
  <2> HIDE DEF from, to
  <2>2. QED
    BY <1>1, <1>3, <1>5, <2>1
<1>6. CASE node.type = "code-executor"
  <2>1. from = Handles("any", ToSet(node.ins)) /\ to = Handles("any", ToSet(node.outs))
    BY <1>6 DEF Component, CodeExecutorNode
  <2> HIDE DEF from, to
  <2>2. QED
    BY <1>1, <1>3, <1>6, <2>1 DEF CapabilityTypes, ValueTypes, CompiledTypes
<1>7. CASE node.type \in ChatTypes
  <2>1. from = Prompt /\ to = Answer
    BY <1>7 DEF Component, ChatTypes, OpenAIChatNode, AnthropicChatNode, MistralChatNode, OllamaChatNode
  <2> HIDE DEF from, to
  <2>2. node.type \in CompiledTypes \ {"entrypoint", "result"}
    BY <1>7 DEF CompiledTypes, ChatTypes
  <2>3. /\ from = Handles("text", {"prompt"}) /\ to = Handles("text", {"response"})
        /\ "text" \in ValueTypes /\ "text" \notin CapabilityTypes
    BY <2>1 DEF Prompt, Answer, CapabilityTypes, ValueTypes
  <2>4. \A h \in to : h.type = "text" /\ h.name = "response"
    BY <1>3, <2>3
  <2>5. QED
    BY <1>1, <1>3, <2>2, <2>3, <2>4
<1>8. CASE node.type = "ai-agent"
  <2>1. /\ from = Prompt \cup Handles("memory", {"conversation-memory"})
                  \cup Handles("ai-model", {"model"}) \cup Handles("tools", {"tools"})
        /\ to = Answer
    BY <1>8 DEF Component, AIAgentNode
  <2> HIDE DEF from, to
  <2>2. /\ to = Handles("text", {"response"})
        /\ "text" \in ValueTypes /\ "text" \notin CapabilityTypes
        /\ node.type \in CompiledTypes \ {"result"}
    BY <1>8, <2>1 DEF Answer, CapabilityTypes, ValueTypes, CompiledTypes
  <2>3. \A h \in from : h = [type |-> h.type, name |-> h.name]
    BY <1>3, <2>1 DEF Prompt
  <2>4. QED
    BY <1>1, <1>3, <1>8, <2>2, <2>3
<1>9. CASE node.type \in {"model-openai", "local-memory"} \cup ToolTypes
  <2>1. PICK type, name :
           type \in CapabilityTypes /\ from = {} /\ to = Handles(type, {name})
    <3>1. /\ node.type = "model-openai" => from = {} /\ to = Handles("ai-model", {"ai-agent"})
          /\ node.type = "local-memory" => from = {} /\ to = Handles("memory", {"connection"})
      BY DEF Component, ModelOpenAINode, LocalMemoryNode
    <3>2. node.type \in ToolTypes => from = {} /\ \E name : to = Handles("tools", {name})
      BY DEF Component, ToolTypes, OpenAIToolNode, SDKNotifierNode, PostgresQueryNode,
             BraveSearchNode, SonarSearchNode, FirecrawlNode
    <3> HIDE DEF from, to
    <3>3. QED
      BY <1>9, <3>1, <3>2 DEF CapabilityTypes
  <2> HIDE DEF from, to
  <2>2. type \notin ValueTypes
    BY <2>1 DEF CapabilityTypes, ValueTypes
  <2>3. node.type \notin {"entrypoint", "result", "chat-openai"}
    BY <1>9 DEF ToolTypes
  <2>4. \A h \in to : /\ h.type = type /\ h = [type |-> h.type, name |-> h.name]
                      /\ \A g \in to : h.name = g.name => h = g
    BY <1>3, <2>1
  <2>5. QED
    BY <1>1, <2>1, <2>2, <2>3, <2>4
<1>10. QED
  BY <1>2, <1>4, <1>5, <1>6, <1>7, <1>8, <1>9 DEF NodeTypes, CompiledTypes

(* What an edge of a flow that may be drawn is.                            *)
LEMMA EdgeFacts ==
    ASSUME WellDrawn, NEW e \in ToSet(flow.edges)
    PROVE  /\ e.source \in DOMAIN flow.nodes /\ flow.nodes[e.source] \in Nodes
           /\ e.target \in DOMAIN flow.nodes /\ flow.nodes[e.target] \in Nodes
           /\ e.sourceHandle \in SourceHandles(flow.nodes[e.source])
           /\ e.targetHandle \in TargetHandles(flow.nodes[e.target])
           /\ ValidConnection(e)
<1>1. e \in Connections(flow.nodes)
  BY DrawnFacts
<1>2. /\ e.source \in DOMAIN flow.nodes /\ e.target \in DOMAIN flow.nodes
      /\ e.sourceHandle \in SourceHandles(flow.nodes[e.source])
      /\ e.targetHandle \in TargetHandles(flow.nodes[e.target])
      /\ ValidConnection(e)
  BY <1>1, Joins
<1>3. QED
  BY <1>2, DrawnFacts DEF WellFormed

(* Some of the edges, in their order.                                      *)
LEMMA SomeEdges ==
    ASSUME WellDrawn, NEW set
    PROVE  LET drawn == Those(flow.edges, set) IN
           /\ ToSet(drawn) = ToSet(flow.edges) \cap set
           /\ \A i \in DOMAIN drawn : drawn[i] \in ToSet(drawn)
           /\ \A e \in ToSet(drawn) : \E i \in DOMAIN drawn : e = drawn[i]
           /\ drawn = <<>> <=> ToSet(drawn) = {}
           /\ drawn # <<>> => Head(drawn) \in ToSet(drawn)
           /\ DOMAIN drawn = 1..Len(drawn) /\ Len(drawn) \in Nat
<1> DEFINE drawn == Those(flow.edges, set)
           C == Connections(flow.nodes)
<1>1. flow.edges \in Seq(C)
  BY DrawnFacts
<1> HIDE DEF C
<1>2. drawn \in Seq(C) /\ ToSet(drawn) = ToSet(flow.edges) \cap set
  BY <1>1, ThoseAre
<1> HIDE DEF drawn
<1>3. /\ DOMAIN drawn = 1..Len(drawn) /\ Len(drawn) \in Nat
      /\ \A i \in DOMAIN drawn : drawn[i] \in ToSet(drawn)
      /\ \A e \in ToSet(drawn) : \E i \in DOMAIN drawn : e = drawn[i]
  BY <1>2 DEF ToSet
<1>4. drawn # <<>> => Len(drawn) > 0 /\ Head(drawn) = drawn[1]
  BY <1>2
<1>5. drawn # <<>> => Head(drawn) \in ToSet(drawn)
  BY <1>3, <1>4
<1>6. drawn = <<>> => ToSet(drawn) = {}
  BY <1>3
<1>7. QED
  BY <1>2, <1>3, <1>5, <1>6 DEF drawn

(* The first and the last of some of the elements of a sequence.           *)
LEMMA Outermost ==
    ASSUME NEW n \in Nat, NEW S \in SUBSET (1..n), S # {}
    PROVE  Max(S) \in S /\ Min(S) \in S
<1>1. \E m \in S : \A k \in S : m <= k
  BY LeastNat
<1>2. \E m \in S : \A k \in S : m >= k
  <2> DEFINE T == {k \in Nat : n - k \in S}
  <2>1. T \in SUBSET Nat
    OBVIOUS
  <2>2. PICK s \in S : s \in 1..n
    OBVIOUS
  <2>3. n - s \in T
    BY <2>2
  <2>4. PICK m \in T : \A k \in T : m <= k
    BY <2>1, <2>3, LeastNat
  <2>5. \A k \in S : k \in 1..n /\ n - k \in T
    OBVIOUS
  <2>6. n - m \in S /\ m \in Nat
    OBVIOUS
  <2> HIDE DEF T
  <2>7. \A k \in S : k \in Nat /\ m <= n - k
    BY <2>4, <2>5
  <2>8. \A k \in S : n - m >= k
    BY <2>6, <2>7
  <2>9. QED
    BY <2>6, <2>8
<1>3. QED
  BY <1>1, <1>2 DEF Max, Min

(* The outputs of a compiled node: which they are, and that no order of Go *)
(* maps makes a difference.                                                *)
LEMMA OutputsAre ==
    ASSUME WellDrawn, NEW id \in DOMAIN flow.nodes, flow.nodes[id].type \notin {"entrypoint", "result"}
    PROVE  LET handles == {e.targetHandle : e \in {e \in ToSet(flow.edges) : e.target = id}} IN
           \E outputs :
              /\ NodeOutputs(id, flow) = {outputs}
              /\ \A h \in handles : h.name \in DOMAIN outputs
              /\ \A x \in DOMAIN outputs :
                    \/ /\ \A h \in handles : h.name # x
                       /\ outputs[x].key = NoKey
                    \/ \E h \in handles : h.name = x /\ outputs[x].key = ResultKey(id, h, flow)
<1> DEFINE into == {e \in ToSet(flow.edges) : e.target = id}
           handles == {e.targetHandle : e \in into}
           Output(h) == [type |-> h.type, key |-> ResultKey(id, h, flow)]
           node == flow.nodes[id]
<1>1. node \in Nodes
  BY DrawnFacts DEF WellFormed
<1>2. \A h \in handles : h \in TargetHandles(node)
  BY EdgeFacts
<1>3. \A h, g \in handles : h.name = g.name => h = g
  BY <1>1, <1>2, HandleFacts
<1>4. node.type = "chat-openai" => \A h \in handles : h.name = "response"
  BY <1>1, <1>2, HandleFacts
<1> HIDE DEF handles, node
<1>5. \A h : Output(h).key = ResultKey(id, h, flow)
  OBVIOUS
<1>6. CASE node.type = "chat-openai" /\ handles = {}
  <2> DEFINE output == [type |-> "text", key |-> NoKey]
             outputs == Response(output)
  <2>1. NodeOutputs(id, flow) = {outputs}
    BY <1>6 DEF NodeOutputs, handles, into, node
  <2>2. DOMAIN outputs = {"response"} /\ outputs["response"] = output
    BY DEF Response
  <2>3. output.key = NoKey
    OBVIOUS
  <2> HIDE DEF outputs, output
  <2>4. \A x \in DOMAIN outputs : outputs[x].key = NoKey
    BY <2>2, <2>3
  <2>5. QED
    BY <1>6, <2>1, <2>4 DEF handles, into
<1>7. CASE node.type = "chat-openai" /\ handles # {}
  <2>1. PICK h \in handles : handles = {h} /\ h.name = "response"
    BY <1>3, <1>4, <1>7
  <2> DEFINE outputs == Response(Output(h))
  <2>2. NodeOutputs(id, flow) = {Response(Output(g)) : g \in handles}
    BY <1>7 DEF NodeOutputs, handles, into, node
  <2>3. NodeOutputs(id, flow) = {outputs}
    BY <2>1, <2>2
  <2>4. DOMAIN outputs = {"response"} /\ outputs["response"] = Output(h)
    BY DEF Response
  <2> HIDE DEF outputs, Output
  <2>5. \A x \in DOMAIN outputs : h.name = x /\ outputs[x].key = ResultKey(id, h, flow)
    BY <1>5, <2>1, <2>4
  <2>6. \A g \in handles : g.name \in DOMAIN outputs
    BY <2>1, <2>4
  <2>7. QED
    BY <2>1, <2>3, <2>5, <2>6 DEF handles, into
<1>8. CASE node.type # "chat-openai"
  <2> DEFINE One == {H \in SUBSET handles :
                /\ {h.name : h \in H} = {h.name : h \in handles}
                /\ \A h, g \in H : h.name = g.name => h = g}
             Outputs(H) == [x \in {h.name : h \in H} |-> Output(CHOOSE h \in H : h.name = x)]
             outputs == Outputs(handles)
  <2>1. NodeOutputs(id, flow) = {Outputs(H) : H \in One}
    BY <1>8 DEF NodeOutputs, handles, into, node
  <2>2. One = {handles}
    <3>1. handles \in One
      BY <1>3
    <3>2. ASSUME NEW H \in One, NEW h \in handles PROVE h \in H
      <4>1. PICK g \in H : g.name = h.name
        OBVIOUS
      <4>2. QED
        BY <1>3, <4>1
    <3>3. QED
      BY <3>1, <3>2
  <2>3. NodeOutputs(id, flow) = {outputs}
    <3> HIDE DEF One, Outputs
    <3>1. QED
      BY <2>1, <2>2
  <2>4. DOMAIN outputs = {h.name : h \in handles}
    OBVIOUS
  <2>5. ASSUME NEW x \in DOMAIN outputs
        PROVE  \E h \in handles : h.name = x /\ outputs[x].key = ResultKey(id, h, flow)
    <3> DEFINE h == CHOOSE h \in handles : h.name = x
    <3>1. \E h_1 \in handles : h_1.name = x
      BY <2>4
    <3>2. h \in handles /\ h.name = x
      BY <3>1
    <3>3. outputs[x] = Output(h)
      BY <2>4
    <3> HIDE DEF h, outputs, Output
    <3>4. QED
      BY <1>5, <3>2, <3>3
  <2> HIDE DEF outputs
  <2>6. \A h \in handles : h.name \in DOMAIN outputs
    BY <2>4
  <2>7. QED
    BY <2>3, <2>5, <2>6 DEF handles, into
<1>9. QED
  BY <1>6, <1>7, <1>8

(* What a drawn node is compiled to is one definition.                     *)
LEMMA OneDefinition ==
    ASSUME WellDrawn, NEW id \in Compiled(flow)
    PROVE  LET node == flow.nodes[id] IN
           \E inputs, outputs :
              /\ RunnerNodes(id, flow) =
                    {[inputs |-> inputs, outputs |-> outputs, memory |-> ConnectedMemory(id, flow),
                      tools |-> Connected(id, "tools", flow)]}
              /\ node.type = "entrypoint" =>
                    inputs = <<>> /\ outputs = EntrypointOutputs(ToSet(node.outs))
              /\ node.type = "result" =>
                    inputs = ResultInputs(id, ToSet(node.ins), flow.edges) /\ outputs = <<>>
              /\ node.type \notin {"entrypoint", "result"} =>
                    inputs = NodeInputs(id, flow.edges) /\ NodeOutputs(id, flow) = {outputs}
<1> DEFINE node == flow.nodes[id]
           Definition(i, o) == [inputs |-> i, outputs |-> o, memory |-> ConnectedMemory(id, flow),
                                tools |-> Connected(id, "tools", flow)]
<1>1. CASE node.type = "entrypoint"
  <2>1. RunnerNodes(id, flow) = {Definition(<<>>, o) : o \in {EntrypointOutputs(ToSet(node.outs))}}
    BY <1>1 DEF RunnerNodes
  <2> HIDE DEF Definition
  <2>2. RunnerNodes(id, flow) = {Definition(<<>>, EntrypointOutputs(ToSet(node.outs)))}
    BY <2>1
  <2>3. QED
    BY <1>1, <2>2 DEF Definition
<1>2. CASE node.type = "result"
  <2> DEFINE inputs == ResultInputs(id, ToSet(node.ins), flow.edges)
  <2>1. RunnerNodes(id, flow) = {Definition(inputs, o) : o \in {<<>>}}
    BY <1>2 DEF RunnerNodes
  <2> HIDE DEF Definition, inputs
  <2>2. RunnerNodes(id, flow) = {Definition(inputs, <<>>)}
    BY <2>1
  <2>3. QED
    BY <1>2, <2>2 DEF Definition, inputs
<1>3. CASE node.type \notin {"entrypoint", "result"}
  <2> DEFINE inputs == NodeInputs(id, flow.edges)
  <2>1. PICK outputs : NodeOutputs(id, flow) = {outputs}
    BY <1>3, OutputsAre DEF Compiled
  <2>2. RunnerNodes(id, flow) = {Definition(inputs, o) : o \in NodeOutputs(id, flow)}
    BY <1>3 DEF RunnerNodes
  <2> HIDE DEF Definition, inputs
  <2>3. RunnerNodes(id, flow) = {Definition(inputs, outputs)}
    BY <2>1, <2>2
  <2>4. QED
    BY <1>3, <2>1, <2>3 DEF Definition, inputs
<1>4. QED
  BY <1>1, <1>2, <1>3

(* The definition does not depend on the order in which Go iterates over   *)
(* its maps, whatever is drawn.                                            *)
THEOREM OneOrder == Spec => []OrderIrrelevant
<1>1. WellDrawn => OrderIrrelevant
  <2> SUFFICES ASSUME WellDrawn, NEW id \in Compiled(flow)
               PROVE  Cardinality(RunnerNodes(id, flow)) = 1
    BY DEF OrderIrrelevant
  <2>1. \E node : RunnerNodes(id, flow) = {node}
    BY OneDefinition
  <2>2. QED
    BY <2>1, FS_Singleton
<1>2. QED
  BY <1>1, DrawnSoundly, PTL

(* The edges that carry values to a node. From the result they all do, as  *)
(* a text handle joins only with a text or any other.                      *)
LEMMA ValueEdges ==
    ASSUME WellDrawn, NEW e \in ToSet(flow.edges)
    PROVE  /\ e.targetHandle.type \in ValueTypes <=> e.targetHandle.type \notin CapabilityTypes
           /\ flow.nodes[e.source].type # "entrypoint"
           /\ flow.nodes[e.source].type = "result" =>
                 /\ e.sourceHandle = [type |-> "text", name |-> e.sourceHandle.name]
                 /\ e.sourceHandle.name \in ToSet(flow.nodes[e.source].ins)
                 /\ e.targetHandle.type \in ValueTypes
<1> DEFINE source == flow.nodes[e.source]
           target == flow.nodes[e.target]
<1>1. /\ source \in Nodes /\ target \in Nodes
      /\ e.sourceHandle \in SourceHandles(source) /\ e.targetHandle \in TargetHandles(target)
      /\ ValidConnection(e)
  BY EdgeFacts
<1> HIDE DEF source, target
<1>2. e.targetHandle.type \in CapabilityTypes <=> e.targetHandle.type \notin ValueTypes
  BY <1>1, HandleFacts
<1>3. source.type # "entrypoint"
  BY <1>1, HandleFacts
<1>4. ASSUME source.type = "result"
      PROVE  /\ e.sourceHandle = [type |-> "text", name |-> e.sourceHandle.name]
             /\ e.sourceHandle.name \in ToSet(source.ins)
             /\ e.targetHandle.type \in ValueTypes
  <2>1. /\ e.sourceHandle = [type |-> e.sourceHandle.type, name |-> e.sourceHandle.name]
        /\ e.sourceHandle.type = "text" /\ e.sourceHandle.name \in ToSet(source.ins)
    BY <1>1, <1>4, HandleFacts
  <2>2. e.targetHandle.type \in {"text", "any"}
    BY <1>1, <2>1 DEF ValidConnection
  <2>3. QED
    BY <2>1, <2>2 DEF ValueTypes
<1>5. QED
  BY <1>2, <1>3, <1>4 DEF source

Values(id) == {e \in ToSet(flow.edges) : e.source = id /\ e.targetHandle.type \in ValueTypes}

(* A node's inputs are the edges drawn from it that carry values.          *)
LEMMA NodeInputsDrawn ==
    ASSUME WellDrawn, NEW id \in DOMAIN flow.nodes
    PROVE  LET inputs == NodeInputs(id, flow.edges)
           IN  /\ DOMAIN inputs = {e.sourceHandle.name : e \in Values(id)}
               /\ \A x \in DOMAIN inputs : \E e \in Values(id) :
                     /\ e.sourceHandle.name = x
                     /\ inputs[x].node = e.target /\ inputs[x].output = e.targetHandle.name
<1> DEFINE values == {e \in ToSet(flow.edges) : e.source = id /\ e.targetHandle.type \in ValueTypes}
           set == {e \in ToSet(flow.edges) : /\ e.source = id
                                             /\ e.targetHandle.type \notin CapabilityTypes}
           drawn == Those(flow.edges, set)
           Of(x) == {i \in DOMAIN drawn : drawn[i].sourceHandle.name = x}
           Latest(x) == drawn[Max(Of(x))]
           Bound(e) == [node |-> e.target, output |-> e.targetHandle.name]
           names == {drawn[i].sourceHandle.name : i \in DOMAIN drawn}
           inputs == NodeInputs(id, flow.edges)
<1>1. inputs = [x \in names |-> Bound(Latest(x))]
  BY DEF NodeInputs
<1>2. values = set
  BY ValueEdges
<1>3. /\ ToSet(drawn) = ToSet(flow.edges) \cap set
      /\ \A i \in DOMAIN drawn : drawn[i] \in ToSet(drawn)
      /\ \A e \in ToSet(drawn) : \E i \in DOMAIN drawn : e = drawn[i]
      /\ DOMAIN drawn = 1..Len(drawn) /\ Len(drawn) \in Nat
  BY SomeEdges
<1>4. ToSet(drawn) = values
  BY <1>2, <1>3
<1> HIDE DEF values, set, drawn
<1>5. names = {e.sourceHandle.name : e \in values}
  BY <1>3, <1>4
<1>6. ASSUME NEW x \in names PROVE Latest(x) \in values /\ Latest(x).sourceHandle.name = x
  <2>1. Of(x) # {} /\ Of(x) \in SUBSET (1..Len(drawn))
    BY <1>3
  <2>2. Max(Of(x)) \in Of(x)
    <3> HIDE DEF Of
    <3>1. QED
      BY <1>3, <2>1, Outermost
  <2>3. QED
    BY <1>3, <1>4, <2>2
<1> HIDE DEF names, Latest
<1>7. ASSUME NEW x \in names
      PROVE  \E e \in values : /\ e.sourceHandle.name = x
                               /\ inputs[x].node = e.target /\ inputs[x].output = e.targetHandle.name
  <2>1. inputs[x] = Bound(Latest(x))
    BY <1>1
  <2>2. inputs[x].node = Latest(x).target /\ inputs[x].output = Latest(x).targetHandle.name
    BY <2>1
  <2>3. QED
    BY <1>6, <2>2
<1>8. DOMAIN inputs = names
  BY <1>1
<1> HIDE DEF inputs
<1>9. QED
  BY <1>5, <1>7, <1>8 DEF values, Values, inputs

(* So are the inputs of the result.                                        *)
LEMMA ResultInputsDrawn ==
    ASSUME WellDrawn, NEW id \in DOMAIN flow.nodes, flow.nodes[id].type = "result"
    PROVE  LET inputs == ResultInputs(id, ToSet(flow.nodes[id].ins), flow.edges)
           IN  /\ DOMAIN inputs = {e.sourceHandle.name : e \in Values(id)}
               /\ \A x \in DOMAIN inputs : \E e \in Values(id) :
                     /\ e.sourceHandle.name = x
                     /\ inputs[x].node = e.target /\ inputs[x].output = e.targetHandle.name
<1> DEFINE values == {e \in ToSet(flow.edges) : e.source = id /\ e.targetHandle.type \in ValueTypes}
           labels == ToSet(flow.nodes[id].ins)
           set == {e \in ToSet(flow.edges) : e.source = id}
           drawn == EdgesFrom(id, flow.edges)
           Of(x) == {i \in DOMAIN drawn : drawn[i].sourceHandle = [type |-> "text", name |-> x]}
           First(x) == drawn[Min(Of(x))]
           Bound(e) == [node |-> e.target, output |-> e.targetHandle.name]
           names == {x \in labels : Of(x) # {}}
           inputs == ResultInputs(id, labels, flow.edges)
<1>1. inputs = [x \in names |-> Bound(First(x))]
  BY DEF ResultInputs
<1>2. drawn = Those(flow.edges, set)
  BY DEF EdgesFrom
<1> HIDE DEF set, drawn
<1>3. /\ ToSet(drawn) = ToSet(flow.edges) \cap set
      /\ \A i \in DOMAIN drawn : drawn[i] \in ToSet(drawn)
      /\ \A e \in ToSet(drawn) : \E i \in DOMAIN drawn : e = drawn[i]
      /\ DOMAIN drawn = 1..Len(drawn) /\ Len(drawn) \in Nat
  BY <1>2, SomeEdges
<1>4. \A e \in ToSet(flow.edges) : e.source = id =>
         /\ e.sourceHandle = [type |-> "text", name |-> e.sourceHandle.name]
         /\ e.sourceHandle.name \in labels /\ e.targetHandle.type \in ValueTypes
  BY ValueEdges
<1>5. ToSet(drawn) = values
  BY <1>3, <1>4 DEF set
<1>6. \A e \in values : /\ e.sourceHandle = [type |-> "text", name |-> e.sourceHandle.name]
                        /\ e.sourceHandle.name \in labels
  BY <1>4
<1> HIDE DEF values, labels
<1>7. names = {e.sourceHandle.name : e \in values}
  <2>1. ASSUME NEW e \in values PROVE e.sourceHandle.name \in names
    BY <1>3, <1>5, <1>6
  <2>2. ASSUME NEW x \in names PROVE \E e \in values : x = e.sourceHandle.name
    <3>1. PICK i \in DOMAIN drawn : drawn[i].sourceHandle = [type |-> "text", name |-> x]
      OBVIOUS
    <3>2. drawn[i] \in values /\ drawn[i].sourceHandle.name = x
      BY <1>3, <1>5, <3>1
    <3>3. QED
      BY <3>2
  <2> HIDE DEF names
  <2>3. QED
    BY <2>1, <2>2
<1>8. ASSUME NEW x \in names PROVE First(x) \in values /\ First(x).sourceHandle.name = x
  <2>1. Of(x) # {} /\ Of(x) \in SUBSET (1..Len(drawn))
    BY <1>3
  <2>2. Min(Of(x)) \in Of(x)
    <3> HIDE DEF Of
    <3>1. QED
      BY <1>3, <2>1, Outermost
  <2>3. QED
    BY <1>3, <1>5, <2>2
<1> HIDE DEF names, First
<1>9. ASSUME NEW x \in names
      PROVE  \E e \in values : /\ e.sourceHandle.name = x
                               /\ inputs[x].node = e.target /\ inputs[x].output = e.targetHandle.name
  <2>1. inputs[x] = Bound(First(x))
    BY <1>1
  <2>2. inputs[x].node = First(x).target /\ inputs[x].output = First(x).targetHandle.name
    BY <2>1
  <2>3. QED
    BY <1>8, <2>2
<1>10. DOMAIN inputs = names
  BY <1>1
<1> HIDE DEF inputs
<1>11. QED
  BY <1>7, <1>9, <1>10 DEF values, Values, inputs, labels

(* The tools, the memory and the model of a node are what edges from its   *)
(* handles lead to.                                                        *)
LEMMA ConnectedDrawn ==
    ASSUME WellDrawn, NEW id, NEW type
    PROVE  LET found == Connected(id, type, flow)
               targets == {e.target : e \in {e \in ToSet(flow.edges) :
                                                e.source = id /\ e.sourceHandle.type = type}}
           IN  ToSet(found) = targets /\ (found # <<>> => Head(found) \in targets)
<1> DEFINE all == {e \in ToSet(flow.edges) : e.source = id /\ e.sourceHandle.type = type}
           targets == {e.target : e \in all}
           set == {e \in ToSet(flow.edges) : /\ e.source = id
                                             /\ e.sourceHandle.type = type
                                             /\ e.target \in DOMAIN flow.nodes}
           drawn == Those(flow.edges, set)
           found == [i \in DOMAIN drawn |-> drawn[i].target]
           n == Len(drawn)
<1>1. Connected(id, type, flow) = found
  BY DEF Connected
<1>2. ToSet(flow.edges) \cap set = all
  BY EdgeFacts
<1> HIDE DEF set
<1>3. /\ ToSet(drawn) = ToSet(flow.edges) \cap set
      /\ \A i \in DOMAIN drawn : drawn[i] \in ToSet(drawn)
      /\ \A e \in ToSet(drawn) : \E i \in DOMAIN drawn : e = drawn[i]
      /\ DOMAIN drawn = 1..n /\ n \in Nat
  BY SomeEdges
<1>4. /\ ToSet(drawn) = all /\ \A i \in 1..n : drawn[i] \in all
      /\ \A e \in all : \E i \in 1..n : e = drawn[i]
      /\ DOMAIN drawn = 1..n /\ n \in Nat
  BY <1>2, <1>3
<1> HIDE DEF drawn, n, all
<1>5. found \in [1..n -> targets]
  BY <1>4
<1>6. ToSet(found) = targets
  <2>1. ToSet(found) = {found[i] : i \in 1..n} /\ \A i \in 1..n : found[i] = drawn[i].target
    BY <1>4 DEF ToSet
  <2>2. ASSUME NEW t \in targets PROVE \E i \in 1..n : t = found[i]
    BY <1>4, <2>1
  <2>3. \A i \in 1..n : found[i] \in targets
    BY <1>5
  <2> HIDE DEF found, targets
  <2>4. QED
    BY <2>1, <2>2, <2>3
<1> HIDE DEF found, targets
<1>7. found \in Seq(targets)
  BY <1>4, <1>5, SeqDef
<1>8. found # <<>> => Head(found) \in targets
  BY <1>7
<1>9. QED
  BY <1>1, <1>6, <1>8 DEF targets, all

(* The key of an output is a field of the result that is wired to it.      *)
LEMMA ResultKeyDrawn ==
    ASSUME WellDrawn, NEW id, NEW h
    PROVE  LET fields == {e.sourceHandle.name :
                             e \in {e \in ToSet(flow.edges) :
                                       e.source = ResultNode /\ e.target = id /\ e.targetHandle = h}}
           IN  IF fields = {} THEN ResultKey(id, h, flow) = NoKey
                              ELSE ResultKey(id, h, flow) \in fields
<1> DEFINE set == {e \in ToSet(flow.edges) : /\ e.source = ResultNode /\ e.target = id
                                             /\ e.targetHandle = h}
           drawn == Those(flow.edges, set)
           field == Head(drawn).sourceHandle.name
           fields == {e.sourceHandle.name : e \in set}
           key == ResultKey(id, h, flow)
<1>1. ResultNode \in DOMAIN flow.nodes /\ flow.nodes[ResultNode].type = "result"
  BY DrawnFacts DEF WellFormed
<1>2. key = IF drawn # <<>> /\ ResultNode \in DOMAIN flow.nodes
               /\ field \in ToSet(flow.nodes[ResultNode].ins)
            THEN field ELSE NoKey
  BY DEF ResultKey
<1>3. \A e \in set : e.sourceHandle.name \in ToSet(flow.nodes[ResultNode].ins)
  BY <1>1, ValueEdges
<1>4. ToSet(flow.edges) \cap set = set
  OBVIOUS
<1> HIDE DEF set
<1>5. /\ ToSet(drawn) = ToSet(flow.edges) \cap set
      /\ drawn = <<>> <=> ToSet(drawn) = {}
      /\ drawn # <<>> => Head(drawn) \in ToSet(drawn)
  BY SomeEdges
<1> HIDE DEF drawn
<1>6. CASE set = {}
  BY <1>2, <1>4, <1>5, <1>6 DEF set
<1>7. CASE set # {}
  <2>1. drawn # <<>> /\ Head(drawn) \in set
    BY <1>4, <1>5, <1>7
  <2>2. field \in fields /\ field \in ToSet(flow.nodes[ResultNode].ins)
    BY <1>3, <2>1
  <2> HIDE DEF field
  <2>3. key = field
    BY <1>1, <1>2, <2>1, <2>2
  <2> HIDE DEF key
  <2>4. key \in fields
    BY <2>2, <2>3
  <2>5. QED
    BY <2>4 DEF fields, set, key
<1>8. QED
  BY <1>6, <1>7

(* What is wired to an output of a compiled node finds that output.        *)
LEMMA OutputThere ==
    ASSUME WellDrawn, NEW e \in ToSet(flow.edges), e.targetHandle.type \in ValueTypes
    PROVE  /\ e.target \in Compiled(flow)
           /\ \A other \in RunnerNodes(e.target, flow) :
                 e.targetHandle.name \in DOMAIN other.outputs
<1> DEFINE id == e.target
           node == flow.nodes[id]
<1>1. /\ id \in DOMAIN flow.nodes /\ node \in Nodes
      /\ e.targetHandle \in TargetHandles(node)
  BY EdgeFacts
<1>2. /\ node.type \in CompiledTypes \ {"result"}
      /\ node.type = "entrypoint" => e.targetHandle.name \in ToSet(node.outs)
  <2> HIDE DEF node
  <2>1. QED
    BY <1>1, HandleFacts
<1>3. id \in Compiled(flow)
  BY <1>1, <1>2 DEF Compiled
<1>4. PICK inputs, outputs :
         /\ RunnerNodes(id, flow) =
               {[inputs |-> inputs, outputs |-> outputs, memory |-> ConnectedMemory(id, flow),
                 tools |-> Connected(id, "tools", flow)]}
         /\ node.type = "entrypoint" =>
               inputs = <<>> /\ outputs = EntrypointOutputs(ToSet(node.outs))
         /\ node.type = "result" =>
               inputs = ResultInputs(id, ToSet(node.ins), flow.edges) /\ outputs = <<>>
         /\ node.type \notin {"entrypoint", "result"} =>
               inputs = NodeInputs(id, flow.edges) /\ NodeOutputs(id, flow) = {outputs}
  BY <1>3, OneDefinition
<1>5. CASE node.type = "entrypoint"
  BY <1>2, <1>3, <1>4, <1>5 DEF EntrypointOutputs
<1>6. CASE node.type # "entrypoint"
  <2>1. \E others :
           /\ NodeOutputs(id, flow) = {others}
           /\ \A h \in {d.targetHandle : d \in {d \in ToSet(flow.edges) : d.target = id}} :
                 h.name \in DOMAIN others
    BY <1>1, <1>2, <1>6, OutputsAre
  <2>2. e.targetHandle \in {d.targetHandle : d \in {d \in ToSet(flow.edges) : d.target = id}}
    OBVIOUS
  <2>3. NodeOutputs(id, flow) = {outputs}
    BY <1>2, <1>4, <1>6
  <2>4. e.targetHandle.name \in DOMAIN outputs
    BY <2>1, <2>2, <2>3
  <2>5. QED
    BY <1>3, <1>4, <2>4
<1>7. QED
  BY <1>5, <1>6

ResultFields(id, x) ==
    {e.sourceHandle.name :
        e \in {e \in ToSet(flow.edges) :
                  e.source = ResultNode /\ e.target = id /\ e.targetHandle.name = x}}

(* An output is published as a field of the result that is wired to it.    *)
LEMMA OutputKeys ==
    ASSUME WellDrawn, NEW id \in DOMAIN flow.nodes,
           flow.nodes[id].type \notin {"entrypoint", "result"},
           NEW outputs, NodeOutputs(id, flow) = {outputs}, NEW x \in DOMAIN outputs
    PROVE  IF ResultFields(id, x) = {} THEN outputs[x].key = NoKey ELSE outputs[x].key \in ResultFields(id, x)
<1> DEFINE wired == {e \in ToSet(flow.edges) :
                        e.source = ResultNode /\ e.target = id /\ e.targetHandle.name = x}
           fields == {e.sourceHandle.name : e \in wired}
           into == {e \in ToSet(flow.edges) : e.target = id}
           handles == {e.targetHandle : e \in into}
           WiredTo(h) == {e \in ToSet(flow.edges) :
                             e.source = ResultNode /\ e.target = id /\ e.targetHandle = h}
           FieldsOf(h) == {e.sourceHandle.name : e \in WiredTo(h)}
<1>1. \/ /\ \A h \in handles : h.name # x
         /\ outputs[x].key = NoKey
      \/ \E h \in handles : h.name = x /\ outputs[x].key = ResultKey(id, h, flow)
  <2>1. PICK others :
           /\ NodeOutputs(id, flow) = {others}
           /\ \A h \in handles : h.name \in DOMAIN others
           /\ \A y \in DOMAIN others :
                 \/ /\ \A h \in handles : h.name # y
                    /\ others[y].key = NoKey
                 \/ \E h \in handles : h.name = y /\ others[y].key = ResultKey(id, h, flow)
    BY OutputsAre
  <2> HIDE DEF handles
  <2>2. others = outputs
    BY <2>1
  <2>3. QED
    BY <2>1, <2>2
<1>2. \A e \in wired : e.targetHandle \in handles /\ e.targetHandle.name = x
  OBVIOUS
<1>3. CASE /\ \A h \in handles : h.name # x
           /\ outputs[x].key = NoKey
  <2>1. wired = {}
    BY <1>2, <1>3
  <2>2. QED
    BY <1>3, <2>1 DEF ResultFields
<1>4. CASE \E h \in handles : h.name = x /\ outputs[x].key = ResultKey(id, h, flow)
  <2>1. PICK h \in handles : h.name = x /\ outputs[x].key = ResultKey(id, h, flow)
    BY <1>4
  <2>2. \A g \in handles : g \in TargetHandles(flow.nodes[id])
    BY EdgeFacts
  <2>3. \A g \in handles : g.name = x => g = h
    <3>1. flow.nodes[id] \in Nodes
      BY DrawnFacts DEF WellFormed
    <3> HIDE DEF handles
    <3>2. QED
      BY <2>1, <2>2, <3>1, HandleFacts
  <2>4. wired = WiredTo(h)
    BY <1>2, <2>1, <2>3
  <2>5. IF FieldsOf(h) = {} THEN ResultKey(id, h, flow) = NoKey
                            ELSE ResultKey(id, h, flow) \in FieldsOf(h)
    BY ZenonT(60), ResultKeyDrawn
  <2>6. fields = FieldsOf(h)
    <3> HIDE DEF wired, WiredTo
    <3>1. QED
      BY <2>4
  <2> HIDE DEF fields, FieldsOf
  <2>7. IF fields = {} THEN outputs[x].key = NoKey ELSE outputs[x].key \in fields
    BY <2>1, <2>5, <2>6
  <2>8. QED
    BY <2>7 DEF fields, wired, ResultFields
<1>5. QED
  BY <1>1, <1>3, <1>4

(* A compiled node is what was drawn of it.                                *)
LEMMA NodeAsDrawn ==
    ASSUME WellDrawn, NEW id \in Compiled(flow), NEW node \in RunnerNodes(id, flow)
    PROVE  LET drawn == {e \in ToSet(flow.edges) : e.source = id}
               values == {e \in drawn : e.targetHandle.type \in ValueTypes}
           IN
           /\ DOMAIN node.inputs = {e.sourceHandle.name : e \in values}
           /\ \A x \in DOMAIN node.inputs :
                 LET from == node.inputs[x] IN
                 /\ \E e \in values : /\ e.sourceHandle.name = x
                                      /\ e.target = from.node
                                      /\ e.targetHandle.name = from.output
                 /\ from.node \in Compiled(flow)
                 /\ \A other \in RunnerNodes(from.node, flow) :
                       from.output \in DOMAIN other.outputs
           /\ \A x \in DOMAIN node.outputs :
                 LET fields == {e.sourceHandle.name :
                                  e \in {e \in ToSet(flow.edges) :
                                           e.source = ResultNode /\ e.target = id
                                           /\ e.targetHandle.name = x}}
                 IN  flow.nodes[id].type # "entrypoint" =>
                        IF fields = {} THEN node.outputs[x].key = NoKey
                                       ELSE node.outputs[x].key \in fields
           /\ ToSet(node.tools) = {e.target : e \in {e \in drawn : e.sourceHandle.type = "tools"}}
           /\ node.memory # NoMemory =>
                 \E e \in drawn : e.sourceHandle.type = "memory" /\ e.target = node.memory
<1> DEFINE shown == flow.nodes[id]
           drawn == {e \in ToSet(flow.edges) : e.source = id}
           values == {e \in drawn : e.targetHandle.type \in ValueTypes}
           bound == Values(id)
           Led(type) == {e \in ToSet(flow.edges) : e.source = id /\ e.sourceHandle.type = type}
<1>1. PICK inputs, outputs :
         /\ RunnerNodes(id, flow) =
               {[inputs |-> inputs, outputs |-> outputs, memory |-> ConnectedMemory(id, flow),
                 tools |-> Connected(id, "tools", flow)]}
         /\ shown.type = "entrypoint" =>
               inputs = <<>> /\ outputs = EntrypointOutputs(ToSet(shown.outs))
         /\ shown.type = "result" =>
               inputs = ResultInputs(id, ToSet(shown.ins), flow.edges) /\ outputs = <<>>
         /\ shown.type \notin {"entrypoint", "result"} =>
               inputs = NodeInputs(id, flow.edges) /\ NodeOutputs(id, flow) = {outputs}
  BY OneDefinition
<1>2. /\ node.inputs = inputs /\ node.outputs = outputs
      /\ node.memory = ConnectedMemory(id, flow) /\ node.tools = Connected(id, "tools", flow)
  BY <1>1
<1>3. id \in DOMAIN flow.nodes
  BY DEF Compiled
<1>4. values = bound
  BY DEF Values
<1>5. /\ DOMAIN inputs = {e.sourceHandle.name : e \in bound}
      /\ \A x \in DOMAIN inputs : \E e \in bound :
            /\ e.sourceHandle.name = x
            /\ inputs[x].node = e.target /\ inputs[x].output = e.targetHandle.name
  <2>1. CASE shown.type = "entrypoint"
    <3>1. bound = {}
      BY <2>1, ValueEdges DEF Values
    <3>2. inputs = <<>> /\ DOMAIN inputs = {}
      BY <1>1, <2>1
    <3> HIDE DEF bound
    <3>3. QED
      BY <3>1, <3>2
  <2>2. CASE shown.type = "result"
    <3> DEFINE in == ResultInputs(id, ToSet(shown.ins), flow.edges)
    <3>1. inputs = in
      BY <1>1, <2>2
    <3>2. /\ DOMAIN in = {e.sourceHandle.name : e \in bound}
          /\ \A x \in DOMAIN in : \E e \in bound :
                /\ e.sourceHandle.name = x
                /\ in[x].node = e.target /\ in[x].output = e.targetHandle.name
      BY <1>3, <2>2, ResultInputsDrawn
    <3> HIDE DEF in, bound
    <3>3. QED
      BY <3>1, <3>2
  <2>3. CASE shown.type \notin {"entrypoint", "result"}
    <3> DEFINE in == NodeInputs(id, flow.edges)
    <3>1. inputs = in
      BY <1>1, <2>3
    <3>2. /\ DOMAIN in = {e.sourceHandle.name : e \in bound}
          /\ \A x \in DOMAIN in : \E e \in bound :
                /\ e.sourceHandle.name = x
                /\ in[x].node = e.target /\ in[x].output = e.targetHandle.name
      BY <1>3, NodeInputsDrawn
    <3> HIDE DEF in, bound
    <3>3. QED
      BY <3>1, <3>2
  <2>4. QED
    BY <2>1, <2>2, <2>3
<1>6. ASSUME NEW x \in DOMAIN outputs, shown.type # "entrypoint"
      PROVE  IF ResultFields(id, x) = {} THEN outputs[x].key = NoKey ELSE outputs[x].key \in ResultFields(id, x)
  <2>1. shown.type # "result"
    BY <1>1, <1>6
  <2>2. NodeOutputs(id, flow) = {outputs}
    BY <1>1, <1>6, <2>1
  <2> HIDE DEF shown
  <2>3. shown.type \notin {"entrypoint", "result"}
    BY <1>6, <2>1
  <2>4. QED
    BY <1>3, <2>2, <2>3, OutputKeys DEF shown
<1>7. ToSet(node.tools) = {e.target : e \in Led("tools")}
  BY <1>2, ConnectedDrawn
<1>8. {e \in drawn : e.sourceHandle.type = "tools"} = Led("tools")
  OBVIOUS
<1>9. ASSUME node.memory # NoMemory
      PROVE  \E e \in drawn : e.sourceHandle.type = "memory" /\ e.target = node.memory
  <2>1. /\ Connected(id, "memory", flow) # <<>>
        /\ node.memory = Head(Connected(id, "memory", flow))
    BY <1>2, <1>9 DEF ConnectedMemory
  <2>2. node.memory \in {e.target : e \in Led("memory")}
    BY <2>1, ConnectedDrawn
  <2>3. QED
    BY <2>2
<1>10. ASSUME NEW x \in DOMAIN node.inputs
       PROVE  \E e \in values : /\ e.sourceHandle.name = x
                                /\ e.target = node.inputs[x].node
                                /\ e.targetHandle.name = node.inputs[x].output
  <2> HIDE DEF values, bound
  <2>1. QED
    BY <1>2, <1>4, <1>5
<1>11. DOMAIN node.inputs = {e.sourceHandle.name : e \in values}
  <2> HIDE DEF values, bound
  <2>1. QED
    BY <1>2, <1>4, <1>5
<1>12. ToSet(node.tools) = {e.target : e \in {e \in drawn : e.sourceHandle.type = "tools"}}
  <2> DEFINE led == Led("tools")
             tools == {e \in drawn : e.sourceHandle.type = "tools"}
  <2>1. tools = led /\ ToSet(node.tools) = {e.target : e \in led}
    BY <1>7, <1>8
  <2> HIDE DEF led, tools
  <2>2. ToSet(node.tools) = {e.target : e \in tools}
    BY <2>1
  <2>3. QED
    BY <2>2 DEF tools
<1>13. ASSUME NEW x \in DOMAIN node.outputs, shown.type # "entrypoint"
       PROVE  IF ResultFields(id, x) = {} THEN node.outputs[x].key = NoKey
                                    ELSE node.outputs[x].key \in ResultFields(id, x)
  BY <1>2, <1>6, <1>13
<1>14. ASSUME NEW x \in DOMAIN node.inputs
       PROVE  /\ node.inputs[x].node \in Compiled(flow)
              /\ \A other \in RunnerNodes(node.inputs[x].node, flow) :
                    node.inputs[x].output \in DOMAIN other.outputs
  <2>1. PICK e \in values : e.target = node.inputs[x].node /\ e.targetHandle.name = node.inputs[x].output
    BY <1>10
  <2>2. e \in ToSet(flow.edges) /\ e.targetHandle.type \in ValueTypes
    OBVIOUS
  <2> HIDE DEF values
  <2>3. QED
    BY <2>1, <2>2, OutputThere
<1>15. QED
  BY <1>9, <1>10, <1>11, <1>12, <1>13, <1>14 DEF ResultFields

(* What the compiler makes of a drawn flow is what was drawn: no input is  *)
(* bound that is not wired, and what one is bound to is there.             *)
THEOREM CompiledAsDrawn == Spec => []CompilesToDrawing
<1>1. WellDrawn => CompilesToDrawing
  BY NodeAsDrawn DEF CompilesToDrawing
<1>2. QED
  BY <1>1, DrawnSoundly, PTL
=============================================================================
