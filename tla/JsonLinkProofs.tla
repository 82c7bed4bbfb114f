--------------------------- MODULE JsonLinkProofs ---------------------------
(***************************************************************************)
(* Proofs about JsonLink and CJson, for every set of tokens, lines and     *)
(* readings, length of the buffer, size of the arena and depth of the      *)
(* nesting.  The aims are OwnLineOnly, that the parser takes the body of   *)
(* its own line whole and nothing else, or the body leaves a string open,  *)
(* FitMeansAccepted, that it takes every body which is the text of a tree  *)
(* that fits in the arena, and takes it as that tree, and TelemetryWhole,  *)
(* that a record whose tree fits is printed field for field.               *)
(*                                                                         *)
(* All are inductions over the nesting that is left.  For the first: if    *)
(* the calls one level down read what they stand at (Told), so do          *)
(* parse_array, parse_object and parse_value (ElementsStep, MembersStep,   *)
(* ValueStep).  What makes it go through is the number of quotes in a part *)
(* of the line (Closed): a parser that is behind a closed part of the line *)
(* stands outside a string, so the only way beyond the NUL that ends the   *)
(* line is a string which the line leaves open, and then the whole body is *)
(* open.  For the second: if the calls one level down take the text of a   *)
(* tree they stand at when there is the memory for it (Fits), so do the    *)
(* three functions (ElementsStepFits, MembersStepFits, ValueStepFits), for *)
(* texts one token longer.  A line is no longer than the nesting, so the   *)
(* whole body is among those texts.  For the third: if the calls for the   *)
(* children build their trees (Builds) and print their texts but for some  *)
(* colons (Prints), so does the call for the tree (BuildStep, PrintStep);  *)
(* the loops over the children are followed child by child (JoinsThem,     *)
(* Continues), and the one character snprintf may cut is behind a name.    *)
(***************************************************************************)
EXTENDS JsonLink, SequenceTheorems, FiniteSetTheorems, TLAPS

(* Each recursive function of CJson is one of Recursion's.  What it is at  *)
(* a step is then a lemma, and its own definition is not needed again.     *)
Sums == INSTANCE Recursion WITH Base <- [numbers \in Seq(Nat) |-> 0],
  Step <- LAMBDA n, less : [numbers \in Seq(Nat) |-> less[numbers] + numbers[n]]

(* The sum of the first n numbers. *)
LEMMA TotalsUnroll ==
  /\ Totals[0] = [numbers \in Seq(Nat) |-> 0]
  /\ \A n \in Nat : Totals[n + 1] =
       [numbers \in Seq(Nat) |-> Totals[n][numbers] + numbers[n + 1]]
BY Sums!Unrolls DEF Totals, Sums!f

Depths == INSTANCE Recursion WITH
  Base <- {}, Step <- LAMBDA n, flatter : TreesOver(Strings, flatter)

(* The trees of nesting at most n. *)
LEMMA TreesUnroll ==
  /\ TreesTo[0] = {}
  /\ \A n \in Nat : TreesTo[n + 1] = TreesOver(Strings, TreesTo[n])
BY Depths!Unrolls DEF TreesTo, Depths!f

Commas == INSTANCE Recursion WITH Base <- [texts \in Seq(Seq(Tokens)) |-> <<>>],
  Step <- LAMBDA n, fewer :
    [texts \in Seq(Seq(Tokens)) |->
       texts[Len(texts) + 1 - n] \o (IF n = 1 THEN <<>> ELSE <<",">> \o fewer[texts])]

(* The last n texts of a list, with commas between them. *)
LEMMA ListsUnroll ==
  /\ Lists[0] = [texts \in Seq(Seq(Tokens)) |-> <<>>]
  /\ \A n \in Nat : Lists[n + 1] =
       [texts \in Seq(Seq(Tokens)) |->
          texts[Len(texts) + 1 - (n + 1)]
            \o (IF n + 1 = 1 THEN <<>> ELSE <<",">> \o Lists[n][texts])]
BY Commas!Unrolls DEF Lists, Commas!f

Wordings == INSTANCE Recursion WITH Base <- <<>>,
  Step <- LAMBDA n, flatter : [tree \in TreesTo[n] |-> Text(flatter, tree)]

(* What the printer writes of a tree of nesting at most n + 1. *)
LEMMA RenderingsUnroll ==
  \A n \in Nat : Renderings[n + 1] = [tree \in TreesTo[n + 1] |-> Text(Renderings[n], tree)]
BY Wordings!Unrolls DEF Renderings, Wordings!f

Calls == INSTANCE Recursion WITH Base <- [buf \in Seq(Tokens) |-> [limit \in Nat |-> Shallowest]],
  Step <- LAMBDA n, shallower :
    [buf \in Seq(Tokens) |-> [limit \in Nat |-> Deeper(shallower[buf][limit], buf, limit)]]

(* The three parse functions of cJSON with n levels of nesting left. *)
LEMMA ParsersUnroll ==
  /\ Parsers[0] = [buf \in Seq(Tokens) |-> [limit \in Nat |-> Shallowest]]
  /\ \A n \in Nat : Parsers[n + 1] =
       [buf \in Seq(Tokens) |-> [limit \in Nat |-> Deeper(Parsers[n][buf][limit], buf, limit)]]
BY Calls!Unrolls DEF Parsers, Calls!f
Amounts == INSTANCE Recursion WITH Base <- <<>>,
  Step <- LAMBDA n, flatter : [tree \in TreesTo[n] |-> Memory(flatter, tree)]

(* What a tree of nesting at most n + 1 takes of the arena. *)
LEMMA SizesUnroll ==
  \A n \in Nat : Sizes[n + 1] = [tree \in TreesTo[n + 1] |-> Memory(Sizes[n], tree)]
BY Amounts!Unrolls DEF Sizes, Amounts!f
-----------------------------------------------------------------------------
(* What cJSON takes from the arena is a natural number. *)
LEMMA TotalIsNatural ==
  ASSUME NEW numbers \in Seq(Nat)
  PROVE  Total(numbers) \in Nat
<1> DEFINE S == {n \in Nat : n <= Len(numbers) => Totals[n][numbers] \in Nat}
<1>1. 0 \in S
  BY TotalsUnroll
<1>2. ASSUME NEW n \in Nat, n \in S PROVE n + 1 \in S
  <2> SUFFICES ASSUME n + 1 <= Len(numbers) PROVE Totals[n + 1][numbers] \in Nat
    OBVIOUS
  <2>1. Totals[n + 1][numbers] = Totals[n][numbers] + numbers[n + 1]
    BY TotalsUnroll
  <2> QED
    BY <1>2, <2>1
<1>3. Nat \subseteq S
  <2> HIDE DEF S
  <2> QED
    BY <1>1, <1>2, Sums!NaturalInduction
<1> QED
  BY <1>3 DEF Total

(* A token takes a natural number of bytes, *)
LEMMA WidthIsNatural ==
  ASSUME NEW token
  PROVE  Width(token) \in Nat
BY JsonAssumption DEF Width

(* a copied string the sum of its tokens', *)
LEMMA KeptIsNatural ==
  ASSUME NEW T, NEW text \in Seq(T)
  PROVE  Kept(text) \in Nat
<1>1. [k \in DOMAIN text |-> Width(text[k])] \in Seq(Nat)
  BY WidthIsNatural
<1>2. Size(text) \in Nat
  BY <1>1, TotalIsNatural DEF Size
<1> QED
  BY <1>2 DEF Kept, Aligned

(* and a node a fixed number. *)
LEMMA ItemIsNatural == Item \in Nat
BY DEF Item, Aligned
-----------------------------------------------------------------------------
(* A tree is a scalar, a string, an array or an object, and in the last    *)
(* two the trees inside are one level flatter.                             *)
LEMMA TreeForms ==
  ASSUME NEW n \in Nat, NEW tree \in TreesTo[n + 1]
  PROVE  \/ \E token \in Scalars : tree = <<"scalar", token>>
         \/ \E text \in Strings : tree = <<"string", text>>
         \/ \E trees \in Seq(TreesTo[n]) : tree = <<"array", trees>>
         \/ \E members \in Seq(Strings \X TreesTo[n]) : tree = <<"object", members>>
<1>1. tree \in TreesOver(Strings, TreesTo[n])
  BY TreesUnroll
<1> QED
  BY <1>1 DEF TreesOver

(* A tree that fits a nesting fits a deeper one, and is written alike: the *)
(* text of a tree does not depend on how much nesting is left.             *)
LEMMA TreesMonotone ==
  \A n \in Nat : /\ TreesTo[n] \subseteq TreesTo[n + 1]
                 /\ \A tree \in TreesTo[n] : Renderings[n + 1][tree] = Renderings[n][tree]
<1> DEFINE S == {n \in Nat : /\ TreesTo[n] \subseteq TreesTo[n + 1]
                            /\ \A tree \in TreesTo[n] :
                                 Renderings[n + 1][tree] = Renderings[n][tree]}
<1>1. 0 \in S
  BY TreesUnroll
<1>2. ASSUME NEW n \in Nat, n \in S PROVE n + 1 \in S
  <2>1. TreesTo[n] \subseteq TreesTo[n + 1]
    BY <1>2
  <2>2. TreesTo[n + 1] \subseteq TreesTo[(n + 1) + 1]
    <3>1. TreesTo[n + 1] = TreesOver(Strings, TreesTo[n])
      BY TreesUnroll
    <3>2. TreesTo[(n + 1) + 1] = TreesOver(Strings, TreesTo[n + 1])
      BY TreesUnroll
    <3>3. Seq(TreesTo[n]) \subseteq Seq(TreesTo[n + 1])
      BY <2>1
    <3>4. Seq(Strings \X TreesTo[n]) \subseteq Seq(Strings \X TreesTo[n + 1])
      BY <2>1
    <3> QED
      BY <3>1, <3>2, <3>3, <3>4, Zenon DEF TreesOver
  <2>3. ASSUME NEW tree \in TreesTo[n + 1]
        PROVE  Renderings[(n + 1) + 1][tree] = Renderings[n + 1][tree]
    <3>1. Renderings[n + 1][tree] = Text(Renderings[n], tree)
      BY RenderingsUnroll
    <3>2. Renderings[(n + 1) + 1][tree] = Text(Renderings[n + 1], tree)
      <4>1. tree \in TreesTo[(n + 1) + 1]
        BY <2>2
      <4>2. Renderings[(n + 1) + 1] = [t \in TreesTo[(n + 1) + 1] |-> Text(Renderings[n + 1], t)]
        BY RenderingsUnroll
      <4> QED
        BY <4>1, <4>2
    <3>3. Text(Renderings[n], tree) = Text(Renderings[n + 1], tree)
      <4>1. CASE \E token \in Scalars : tree = <<"scalar", token>>
        BY <4>1 DEF Text
      <4>2. CASE \E text \in Strings : tree = <<"string", text>>
        BY <4>2 DEF Text
      <4>3. CASE \E trees \in Seq(TreesTo[n]) : tree = <<"array", trees>>
        <5>1. [k \in DOMAIN tree[2] |-> Renderings[n][tree[2][k]]]
                = [k \in DOMAIN tree[2] |-> Renderings[n + 1][tree[2][k]]]
          BY <1>2, <4>3
        <5> QED
          BY <4>3, <5>1 DEF Text
      <4>4. CASE \E members \in Seq(Strings \X TreesTo[n]) : tree = <<"object", members>>
        <5>1. [k \in DOMAIN tree[2] |-> Named(tree[2][k][1], Renderings[n][tree[2][k][2]])]
                = [k \in DOMAIN tree[2] |-> Named(tree[2][k][1], Renderings[n + 1][tree[2][k][2]])]
          <6>1. ASSUME NEW k \in DOMAIN tree[2]
                PROVE  Renderings[n][tree[2][k][2]] = Renderings[n + 1][tree[2][k][2]]
            <7>1. tree[2][k] \in Strings \X TreesTo[n]
              BY <4>4
            <7>2. tree[2][k][2] \in TreesTo[n]
              BY <7>1
            <7> QED
              BY <1>2, <7>2
          <6> QED
            BY <6>1
        <5> QED
          BY <4>4, <5>1 DEF Text
      <4> QED
        BY <4>1, <4>2, <4>3, <4>4, TreeForms
    <3> QED
      BY <3>1, <3>2, <3>3
  <2> QED
    BY <2>2, <2>3
<1>3. Nat \subseteq S
  <2> HIDE DEF S
  <2> QED
    BY <1>1, <1>2, Sums!NaturalInduction
<1> QED
  BY <1>3
-----------------------------------------------------------------------------
(* What line_buf may hold. *)
AnyText == Seq(Tokens)

(* The marks of JSON, the scalars and the texts of strings are such texts, *)
LEMMA MarksAreTokens ==
  /\ {"{", "}", "[", "]", ",", ":", "Q", "NUL"} \subseteq Tokens
  /\ Scalars \subseteq Tokens
  /\ Strings \subseteq AnyText
<1>1. /\ {"{", "}", "[", "]", ",", ":", "Q", "NUL"} \subseteq Tokens
      /\ Scalars \subseteq Tokens
  BY JsonAssumption, Zenon DEF Marks
<1>2. ASSUME NEW text \in Strings PROVE text \in AnyText
  <2>1. Tokens \ {"Q", "NUL"} \subseteq Tokens
    BY Zenon
  <2> QED
    BY <2>1, SeqMonotonic DEF Strings, AnyText
<1> QED
  BY <1>1, <1>2

(* and so are the pieces the printer writes, *)
LEMMA OneToken ==
  /\ \A token \in Tokens : <<token>> \in AnyText
  /\ <<"{">> \in AnyText /\ <<"}">> \in AnyText /\ <<"[">> \in AnyText /\ <<"]">> \in AnyText
  /\ <<"Q">> \in AnyText /\ <<"Q", ":">> \in AnyText /\ <<>> \in AnyText
<1>1. \A token \in Tokens : <<token>> \in AnyText
  BY DEF AnyText
<1>2. /\ "{" \in Tokens /\ "}" \in Tokens /\ "[" \in Tokens
      /\ "]" \in Tokens /\ "Q" \in Tokens /\ ":" \in Tokens
  BY MarksAreTokens, Zenon
<1>3. <<"Q", ":">> \in AnyText
  <2>1. \A a, b \in Tokens : <<a, b>> \in Seq(Tokens)
    OBVIOUS
  <2> QED
    BY <1>2, <2>1, Zenon DEF AnyText
<1>4. <<>> \in AnyText
  BY EmptySeq DEF AnyText
<1> QED
  BY <1>1, <1>2, <1>3, <1>4, Zenon

(* and texts put together. *)
LEMMA Joins ==
  \A s, t \in AnyText : s \o t \in AnyText
BY ConcatProperties DEF AnyText

(* A text between two others. *)
LEMMA Between ==
  \A a, text, b \in AnyText : a \o text \o b \in AnyText
BY Joins

(* What is written of each form of tree. *)
LEMMA TextOf ==
  ASSUME NEW render, NEW x
  PROVE  /\ Text(render, <<"scalar", x>>) = <<x>>
         /\ Text(render, <<"string", x>>) = <<"Q">> \o x \o <<"Q">>
         /\ Text(render, <<"array", x>>) =
              <<"[">> \o Listed([k \in DOMAIN x |-> render[x[k]]]) \o <<"]">>
         /\ Text(render, <<"object", x>>) =
              <<"{">> \o Listed([k \in DOMAIN x |-> Named(x[k][1], render[x[k][2]])]) \o <<"}">>
<1>1. /\ <<"scalar", x>>[1] = "scalar" /\ <<"string", x>>[1] = "string"
      /\ <<"array", x>>[1] = "array" /\ <<"object", x>>[1] = "object"
      /\ \A c \in {"scalar", "string", "array", "object"} : <<c, x>>[2] = x
  OBVIOUS
<1>2. Text(render, <<"scalar", x>>) = <<x>>
  BY <1>1, Zenon DEF Text
<1>3. Text(render, <<"string", x>>) = <<"Q">> \o x \o <<"Q">>
  BY <1>1, Zenon DEF Text
<1>4. Text(render, <<"array", x>>) =
        <<"[">> \o Listed([k \in DOMAIN x |-> render[x[k]]]) \o <<"]">>
  BY <1>1 DEF Text
<1>5. Text(render, <<"object", x>>) =
        <<"{">> \o Listed([k \in DOMAIN x |-> Named(x[k][1], render[x[k][2]])]) \o <<"}">>
  BY <1>1 DEF Text
<1> QED
  BY <1>2, <1>3, <1>4, <1>5, Zenon

(* One element in front of a sequence. *)
LEMMA InFront ==
  ASSUME NEW S, NEW x \in S, NEW s \in Seq(S)
  PROVE  /\ <<x>> \o s \in Seq(S) /\ Len(<<x>> \o s) = Len(s) + 1
         /\ (<<x>> \o s)[1] = x
         /\ \A i \in 1..Len(s) : (<<x>> \o s)[i + 1] = s[i]
<1>1. <<x>> \o s \in Seq(S)
  OBVIOUS
<1>2. Len(<<x>> \o s) = Len(s) + 1
  OBVIOUS
<1>3. (<<x>> \o s)[1] = x
  OBVIOUS
<1>4. ASSUME NEW i \in 1..Len(s) PROVE (<<x>> \o s)[i + 1] = s[i]
  OBVIOUS
<1> QED
  BY <1>1, <1>2, <1>3, <1>4

(* A list of texts with commas is a text. *)
LEMMA ListsAreTexts ==
  ASSUME NEW texts \in Seq(AnyText)
  PROVE  \A n \in Nat : n <= Len(texts) => Lists[n][texts] \in AnyText
<1> DEFINE S == {n \in Nat : n <= Len(texts) => Lists[n][texts] \in AnyText}
<1>1. 0 \in S
  <2>1. Lists[0][texts] = <<>>
    BY ListsUnroll DEF AnyText
  <2>2. <<>> \in AnyText
    BY EmptySeq DEF AnyText
  <2> QED
    BY <2>1, <2>2
<1>2. ASSUME NEW n \in Nat, n \in S PROVE n + 1 \in S
  <2> SUFFICES ASSUME n + 1 <= Len(texts) PROVE Lists[n + 1][texts] \in AnyText
    OBVIOUS
  <2>1. Lists[n + 1][texts] =
          texts[Len(texts) + 1 - (n + 1)]
            \o (IF n + 1 = 1 THEN <<>> ELSE <<",">> \o Lists[n][texts])
    BY ListsUnroll DEF AnyText
  <2>2. texts[Len(texts) + 1 - (n + 1)] \in Seq(Tokens)
    BY DEF AnyText
  <2>3. Lists[n][texts] \in Seq(Tokens)
    BY <1>2 DEF AnyText
  <2>4. <<",">> \o Lists[n][texts] \in Seq(Tokens)
    <3>1. "," \in Tokens
      BY MarksAreTokens, Zenon
    <3> QED
      BY <2>3, <3>1, InFront
  <2>5. (IF n + 1 = 1 THEN <<>> ELSE <<",">> \o Lists[n][texts]) \in Seq(Tokens)
    BY <2>4, OneToken, Zenon DEF AnyText
  <2> QED
    BY <2>1, <2>2, <2>5, ConcatProperties DEF AnyText
<1>3. Nat \subseteq S
  <2> HIDE DEF S
  <2> QED
    BY <1>1, <1>2, Sums!NaturalInduction
<1> QED
  BY <1>3

(* The last n of a list do not change when one is put in front. *)
LEMMA ListsBehind ==
  ASSUME NEW text \in AnyText, NEW texts \in Seq(AnyText)
  PROVE  \A n \in Nat : n <= Len(texts) => Lists[n][<<text>> \o texts] = Lists[n][texts]
<1> DEFINE all == <<text>> \o texts
<1>0. /\ all \in Seq(AnyText) /\ Len(all) = Len(texts) + 1
      /\ \A i \in 1..Len(texts) : all[i + 1] = texts[i]
  BY InFront
<1> HIDE DEF all
<1> DEFINE S == {n \in Nat : n <= Len(texts) => Lists[n][all] = Lists[n][texts]}
<1>1. 0 \in S
  BY <1>0, ListsUnroll DEF AnyText
<1>2. ASSUME NEW n \in Nat, n \in S PROVE n + 1 \in S
  <2> SUFFICES ASSUME n + 1 <= Len(texts) PROVE Lists[n + 1][all] = Lists[n + 1][texts]
    OBVIOUS
  <2>1. Lists[n + 1][texts] =
          texts[Len(texts) + 1 - (n + 1)]
            \o (IF n + 1 = 1 THEN <<>> ELSE <<",">> \o Lists[n][texts])
    BY ListsUnroll DEF AnyText
  <2>2. Lists[n + 1][all] =
          all[Len(all) + 1 - (n + 1)]
            \o (IF n + 1 = 1 THEN <<>> ELSE <<",">> \o Lists[n][all])
    BY <1>0, ListsUnroll DEF AnyText
  <2>3. all[Len(all) + 1 - (n + 1)] = texts[Len(texts) + 1 - (n + 1)]
    <3> DEFINE i == Len(texts) + 1 - (n + 1)
    <3>1. i \in 1..Len(texts) /\ Len(all) + 1 - (n + 1) = i + 1
      BY <1>0
    <3> QED
      BY <1>0, <3>1
  <2>4. Lists[n][all] = Lists[n][texts]
    BY <1>2
  <2> QED
    BY <2>1, <2>2, <2>3, <2>4
<1>3. Nat \subseteq S
  <2> HIDE DEF S
  <2> QED
    BY <1>1, <1>2, Sums!NaturalInduction
<1> QED
  BY <1>3 DEF all

(* A list with one more text in front is that text, a comma and the list:  *)
(* the form in which parse_array and parse_object meet it.                 *)
LEMMA ListedFirst ==
  ASSUME NEW text \in AnyText
  PROVE  /\ Listed(<<>>) = <<>>
         /\ Listed(<<text>>) = text
         /\ \A texts \in Seq(AnyText) : texts # <<>> =>
              Listed(<<text>> \o texts) = text \o (<<",">> \o Listed(texts))
<1>1. Listed(<<>>) = <<>>
  <2>1. <<>> \in Seq(Seq(Tokens)) /\ Len(<<>>) = 0
    BY EmptySeq
  <2> QED
    BY <2>1, ListsUnroll DEF Listed
<1>2. Listed(<<text>>) = text
  <2>1. <<text>> \in Seq(AnyText) /\ Len(<<text>>) = 1 /\ <<text>>[1] = text
    OBVIOUS
  <2>2. Lists[0 + 1][<<text>>] =
          <<text>>[Len(<<text>>) + 1 - (0 + 1)]
            \o (IF 0 + 1 = 1 THEN <<>> ELSE <<",">> \o Lists[0][<<text>>])
    <3> DEFINE one == <<text>>
    <3> HIDE DEF one
    <3>1. one \in Seq(Seq(Tokens))
      BY <2>1 DEF one, AnyText
    <3> DEFINE n == 0
    <3> HIDE DEF n
    <3>3. n \in Nat
      BY DEF n
    <3>4. Lists[n + 1][one] =
            one[Len(one) + 1 - (n + 1)]
              \o (IF n + 1 = 1 THEN <<>> ELSE <<",">> \o Lists[n][one])
      BY <3>1, <3>3, ListsUnroll
    <3>2. Lists[0 + 1][one] =
            one[Len(one) + 1 - (0 + 1)]
              \o (IF 0 + 1 = 1 THEN <<>> ELSE <<",">> \o Lists[0][one])
      BY <3>4, Zenon DEF n
    <3> QED
      BY <3>2, Zenon DEF one
  <2>3. Lists[1][<<text>>] = text \o <<>>
    BY <2>1, <2>2
  <2>4. text \o <<>> = text
    BY ConcatEmptySeq DEF AnyText
  <2> QED
    BY <2>1, <2>3, <2>4 DEF Listed
<1>3. ASSUME NEW texts \in Seq(AnyText), texts # <<>>
      PROVE  Listed(<<text>> \o texts) = text \o (<<",">> \o Listed(texts))
  <2> DEFINE all == <<text>> \o texts
             n == Len(texts)
  <2>1. /\ all \in Seq(AnyText) /\ Len(all) = n + 1 /\ all[1] = text
    BY InFront
  <2>2. n \in Nat /\ n + 1 # 1 /\ Len(all) + 1 - (n + 1) = 1
    BY <1>3, <2>1
  <2>3. Lists[n][all] = Lists[n][texts]
    BY <2>2, ListsBehind
  <2>4. Lists[n + 1][all] =
          all[Len(all) + 1 - (n + 1)]
            \o (IF n + 1 = 1 THEN <<>> ELSE <<",">> \o Lists[n][all])
    BY <2>1, <2>2, ListsUnroll DEF AnyText
  <2>5. Listed(all) = Lists[n + 1][all] /\ Listed(texts) = Lists[n][texts]
    BY <2>1 DEF Listed
  <2> HIDE DEF all, n
  <2>6. Listed(all) = text \o (<<",">> \o Listed(texts))
    BY <2>1, <2>2, <2>3, <2>4, <2>5
  <2> QED
    BY <2>6 DEF all
<1> QED
  BY <1>1, <1>2, <1>3

(* A list of texts is a text, as it stands in TextOf. *)
LEMMA ListedIsText ==
  ASSUME NEW texts \in Seq(AnyText)
  PROVE  Listed(texts) \in AnyText
BY ListsAreTexts DEF Listed

(* Every tree is written as a text. *)
LEMMA RenderingsAreTexts ==
  \A n \in Nat : \A tree \in TreesTo[n] : Renderings[n][tree] \in AnyText
<1> DEFINE S == {n \in Nat : \A tree \in TreesTo[n] : Renderings[n][tree] \in AnyText}
<1>1. 0 \in S
  BY TreesUnroll
<1>2. ASSUME NEW n \in Nat, n \in S PROVE n + 1 \in S
  <2> SUFFICES ASSUME NEW tree \in TreesTo[n + 1] PROVE Renderings[n + 1][tree] \in AnyText
    OBVIOUS
  <2>1. Renderings[n + 1][tree] = Text(Renderings[n], tree)
    BY RenderingsUnroll
  <2>2. CASE \E token \in Scalars : tree = <<"scalar", token>>
    <3>1. Text(Renderings[n], tree) = <<tree[2]>> /\ tree[2] \in Scalars
      BY <2>2 DEF Text
    <3>2. <<tree[2]>> \in AnyText
      BY <3>1, MarksAreTokens, OneToken
    <3> QED
      BY <2>1, <3>1, <3>2
  <2>3. CASE \E text \in Strings : tree = <<"string", text>>
    <3>1. PICK text \in Strings : tree = <<"string", text>>
      BY <2>3
    <3>2. Text(Renderings[n], tree) = <<"Q">> \o text \o <<"Q">>
      BY <3>1, TextOf, Zenon
    <3>3. text \in AnyText
      BY MarksAreTokens
    <3>4. <<"Q">> \o text \o <<"Q">> \in AnyText
      BY <3>3, OneToken, Between, Zenon
    <3> QED
      BY <2>1, <3>2, <3>4, Zenon
  <2>4. CASE \E trees \in Seq(TreesTo[n]) : tree = <<"array", trees>>
    <3>1. PICK trees \in Seq(TreesTo[n]) : tree = <<"array", trees>>
      BY <2>4
    <3> DEFINE texts == [k \in DOMAIN trees |-> Renderings[n][trees[k]]]
    <3>2. Text(Renderings[n], tree) = <<"[">> \o Listed(texts) \o <<"]">>
      BY <3>1, TextOf, Zenon
    <3>3. texts \in Seq(AnyText)
      BY <1>2
    <3> HIDE DEF texts
    <3>4. Listed(texts) \in AnyText
      BY <3>3, ListedIsText
    <3>5. <<"[">> \o Listed(texts) \o <<"]">> \in AnyText
      BY <3>4, OneToken, Between, Zenon
    <3> QED
      BY <2>1, <3>2, <3>5, Zenon
  <2>5. CASE \E members \in Seq(Strings \X TreesTo[n]) : tree = <<"object", members>>
    <3>1. PICK members \in Seq(Strings \X TreesTo[n]) : tree = <<"object", members>>
      BY <2>5
    <3> DEFINE texts == [k \in DOMAIN members |-> Named(members[k][1], Renderings[n][members[k][2]])]
    <3>2. Text(Renderings[n], tree) = <<"{">> \o Listed(texts) \o <<"}">>
      BY <3>1, TextOf, Zenon
    <3>3. texts \in Seq(AnyText)
      <4>1. ASSUME NEW k \in DOMAIN members PROVE texts[k] \in AnyText
        <5>1. members[k] \in Strings \X TreesTo[n]
          OBVIOUS
        <5>2. members[k][1] \in AnyText /\ Renderings[n][members[k][2]] \in AnyText
          BY <1>2, <5>1, MarksAreTokens
        <5>3. texts[k] = <<"Q">> \o members[k][1] \o <<"Q", ":">> \o Renderings[n][members[k][2]]
          BY Zenon DEF Named
        <5> HIDE DEF texts
        <5>4. <<"Q">> \o members[k][1] \o <<"Q", ":">> \in AnyText
          BY <5>2, OneToken, Between, Zenon
        <5> QED
          BY <5>2, <5>3, <5>4, Joins, Zenon
      <4>2. DOMAIN members = 1..Len(members) /\ Len(members) \in Nat
        OBVIOUS
      <4>3. texts = [k \in 1..Len(members) |-> texts[k]]
        BY <4>2
      <4> HIDE DEF texts
      <4> QED
        BY <4>1, <4>2, <4>3
    <3> HIDE DEF texts
    <3>4. Listed(texts) \in AnyText
      BY <3>3, ListedIsText
    <3>5. <<"{">> \o Listed(texts) \o <<"}">> \in AnyText
      BY <3>4, OneToken, Between, Zenon
    <3> QED
      BY <2>1, <3>2, <3>5, Zenon
  <2> QED
    BY <2>2, <2>3, <2>4, <2>5, TreeForms
<1>3. Nat \subseteq S
  <2> HIDE DEF S
  <2> QED
    BY <1>1, <1>2, Sums!NaturalInduction
<1> QED
  BY <1>3
-----------------------------------------------------------------------------
(* Where a text has quotes.  Closed says that their number is even. *)
Quotes(text) == {p \in DOMAIN text : text[p] = "Q"}

(* They are finitely many. *)
LEMMA QuotesCount ==
  ASSUME NEW text \in AnyText
  PROVE  IsFiniteSet(Quotes(text)) /\ Cardinality(Quotes(text)) \in Nat
<1>1. IsFiniteSet(1..Len(text))
  BY FS_Interval DEF AnyText
<1>2. Quotes(text) \in SUBSET (1..Len(text))
  BY DEF Quotes, AnyText
<1>3. IsFiniteSet(Quotes(text))
  BY <1>1, <1>2, FS_Subset
<1> QED
  BY <1>3, FS_CardinalityType

(* Those of two texts put together are counted one text after the other, *)
LEMMA QuotesAdd ==
  ASSUME NEW s \in AnyText, NEW t \in AnyText
  PROVE  Cardinality(Quotes(s \o t)) = Cardinality(Quotes(s)) + Cardinality(Quotes(t))
<1> DEFINE A == Quotes(s)
           B == Quotes(t)
           C == {p + Len(s) : p \in B}
<1>1. /\ IsFiniteSet(A) /\ IsFiniteSet(B)
      /\ Cardinality(A) \in Nat /\ Cardinality(B) \in Nat
  BY QuotesCount
<1>2. /\ Len(s) \in Nat /\ Len(t) \in Nat /\ A \subseteq 1..Len(s) /\ B \subseteq 1..Len(t)
  BY DEF AnyText, Quotes
<1>3. Quotes(s \o t) = A \union C
  <2>1. /\ DOMAIN (s \o t) = 1..Len(s) + Len(t)
        /\ \A i \in 1..Len(s) + Len(t) :
             (s \o t)[i] = IF i <= Len(s) THEN s[i] ELSE t[i - Len(s)]
    BY ConcatProperties, LenProperties DEF AnyText
  <2>2. DOMAIN s = 1..Len(s) /\ DOMAIN t = 1..Len(t)
    BY DEF AnyText
  <2>3. ASSUME NEW i \in Quotes(s \o t) PROVE i \in A \union C
    <3>1. i \in 1..Len(s) + Len(t) /\ (s \o t)[i] = "Q"
      BY <2>1 DEF Quotes
    <3>2. CASE i <= Len(s)
      BY <1>2, <2>1, <2>2, <3>1, <3>2 DEF Quotes
    <3>3. CASE ~ (i <= Len(s))
      <4>1. i - Len(s) \in 1..Len(t) /\ t[i - Len(s)] = "Q" /\ i = (i - Len(s)) + Len(s)
        BY <1>2, <2>1, <3>1, <3>3
      <4>2. i - Len(s) \in B
        BY <2>2, <4>1 DEF Quotes
      <4> QED
        BY <4>1, <4>2
    <3> QED
      BY <3>2, <3>3
  <2>4. ASSUME NEW i \in A PROVE i \in Quotes(s \o t)
    BY <1>2, <2>1, <2>2 DEF Quotes
  <2>5. ASSUME NEW p \in B PROVE p + Len(s) \in Quotes(s \o t)
    <3>1. p \in 1..Len(t) /\ t[p] = "Q"
      BY <2>2 DEF Quotes
    <3>2. /\ p + Len(s) \in 1..Len(s) + Len(t) /\ ~ (p + Len(s) <= Len(s))
          /\ (p + Len(s)) - Len(s) = p
      BY <1>2, <3>1
    <3>3. (s \o t)[p + Len(s)] = t[p]
      BY <2>1, <3>2
    <3> QED
      BY <2>1, <3>1, <3>2, <3>3 DEF Quotes
  <2> QED
    BY <2>3, <2>4, <2>5
<1>4. IsFiniteSet(C) /\ Cardinality(C) = Cardinality(B)
  <2> DEFINE f == [p \in B |-> p + Len(s)]
  <2>1. f \in Bijection(B, C)
    <3>1. f \in [B -> C]
      OBVIOUS
    <3>2. \A p, q \in B : f[p] = f[q] => p = q
      BY <1>2
    <3>3. \A c \in C : \E p \in B : f[p] = c
      OBVIOUS
    <3> QED
      BY <3>1, <3>2, <3>3 DEF Bijection, Injection, IsInjective, Surjection
  <2>2. ExistsBijection(B, C)
    BY <2>1 DEF ExistsBijection
  <2> QED
    BY <1>1, <2>2, FS_Bijection
<1>5. A \intersect C = {}
  BY <1>2
<1> HIDE DEF A, B, C
<1>6. Cardinality(A \union C) = Cardinality(A) + Cardinality(C) - Cardinality(A \intersect C)
  BY <1>1, <1>4, FS_Union
<1>7. Cardinality(A \intersect C) = 0
  BY <1>5, FS_EmptySet
<1> QED
  BY <1>1, <1>3, <1>4, <1>6, <1>7 DEF A, B

(* so two texts put together are closed when both are or neither is. *)
LEMMA ClosedJoins ==
  \A s, t \in AnyText : Closed(s \o t) <=> (Closed(s) <=> Closed(t))
<1> SUFFICES ASSUME NEW s \in AnyText, NEW t \in AnyText
             PROVE  Closed(s \o t) <=> (Closed(s) <=> Closed(t))
  OBVIOUS
<1> DEFINE a == Cardinality(Quotes(s))
           b == Cardinality(Quotes(t))
<1>1. a \in Nat /\ b \in Nat
  BY QuotesCount
<1>2. Cardinality(Quotes(s \o t)) = a + b
  BY QuotesAdd
<1>3. /\ Closed(s) <=> a % 2 = 0
      /\ Closed(t) <=> b % 2 = 0
      /\ Closed(s \o t) <=> Cardinality(Quotes(s \o t)) % 2 = 0
  BY DEF Closed, Quotes
<1> HIDE DEF a, b
<1>4. (a + b) % 2 = 0 <=> (a % 2 = 0 <=> b % 2 = 0)
  BY <1>1
<1> QED
  BY <1>2, <1>3, <1>4

(* Nothing without a quote is open, and one quote is. *)
LEMMA ClosedTokens ==
  /\ Closed(<<>>) /\ ~Closed(<<"Q">>)
  /\ \A token \in Tokens \ {"Q"} : Closed(<<token>>)
  /\ \A text \in Strings : Closed(text)
<1>1. ASSUME NEW text, Quotes(text) = {} PROVE Closed(text)
  <2>1. Cardinality(Quotes(text)) = 0
    BY <1>1, FS_EmptySet
  <2> QED
    BY <2>1 DEF Closed, Quotes
<1>2. Closed(<<>>)
  <2>1. Quotes(<<>>) = {}
    BY DEF Quotes
  <2> QED
    BY <1>1, <2>1
<1>3. ~Closed(<<"Q">>)
  <2>1. Quotes(<<"Q">>) = {1}
    BY DEF Quotes
  <2>2. Cardinality(Quotes(<<"Q">>)) = 1
    BY <2>1, FS_Singleton
  <2> QED
    BY <2>2 DEF Closed, Quotes
<1>4. ASSUME NEW token \in Tokens \ {"Q"} PROVE Closed(<<token>>)
  <2>1. Quotes(<<token>>) = {}
    BY DEF Quotes
  <2> QED
    BY <1>1, <2>1
<1>5. ASSUME NEW text \in Strings PROVE Closed(text)
  <2>1. Quotes(text) = {}
    BY DEF Quotes, Strings
  <2> QED
    BY <1>1, <2>1
<1> QED
  BY <1>2, <1>3, <1>4, <1>5
-----------------------------------------------------------------------------
(* With no nesting left everything is refused. *)
LEMMA ParserStops ==
  ASSUME NEW buf \in AnyText, NEW limit \in Nat, NEW p \in Nat, NEW used \in Nat,
         NEW what \in {"value", "elements", "members"}
  PROVE  Parsers[0][buf][limit][what][p][used] = Refused(used)
<1>1. Parsers[0][buf][limit] = Shallowest
  <2>1. Parsers[0] = [b \in Seq(Tokens) |-> [l \in Nat |-> Shallowest]]
    BY ParsersUnroll, Zenon
  <2> QED
    BY <2>1 DEF AnyText
<1> QED
  BY <1>1 DEF Shallowest

(* With n + 1 levels left the three functions are those of cJSON, calling  *)
(* each other with n left.                                                 *)
Called(n, parse, buf, limit, p, used) ==
  /\ Parsers[n + 1][buf][limit]["value"][p][used] = ParseValue(parse, buf, limit, p, used)
  /\ Parsers[n + 1][buf][limit]["elements"][p][used]
       = ParseElements(parse, buf, limit, p, used)
  /\ Parsers[n + 1][buf][limit]["members"][p][used]
       = ParseMembers(parse, buf, limit, p, used)

(* That is what Parsers is. *)
LEMMA ParserCalled ==
  ASSUME NEW n \in Nat, NEW buf \in AnyText, NEW limit \in Nat, NEW p \in Nat, NEW used \in Nat
  PROVE  Called(n, Parsers[n][buf][limit], buf, limit, p, used)
<1>0. PICK parse : parse = Parsers[n][buf][limit]
  OBVIOUS
<1>1. Parsers[n + 1][buf][limit] = Deeper(parse, buf, limit)
  <2>1. Parsers[n + 1] = [b \in Seq(Tokens) |-> [l \in Nat |-> Deeper(Parsers[n][b][l], b, l)]]
    BY ParsersUnroll, Zenon
  <2>2. Parsers[n + 1][buf] = [l \in Nat |-> Deeper(Parsers[n][buf][l], buf, l)]
    BY <2>1, Zenon DEF AnyText
  <2> QED
    BY <1>0, <2>2, Zenon
<1>2. Deeper(parse, buf, limit)["value"][p][used] = ParseValue(parse, buf, limit, p, used)
  BY DEF Deeper
<1>3. Deeper(parse, buf, limit)["elements"][p][used] = ParseElements(parse, buf, limit, p, used)
  BY DEF Deeper
<1>4. Deeper(parse, buf, limit)["members"][p][used] = ParseMembers(parse, buf, limit, p, used)
  BY DEF Deeper
<1> QED
  BY <1>0, <1>1, <1>2, <1>3, <1>4, Zenon DEF Called

(* parse_string finds a quote or the end of the buffer, skips neither, and *)
(* copies a text that may stand in a string.                               *)
LEMMA StringEnds ==
  ASSUME NEW buf \in AnyText, NEW p \in Nat, At(buf, p) = "Q"
  PROVE  /\ p \in 1..Len(buf)
         /\ StringEnd(buf, p) \in p + 1..Len(buf) + 1
         /\ At(buf, StringEnd(buf, p)) \in {"Q", "NUL"}
         /\ \A i \in p + 1..StringEnd(buf, p) - 1 : At(buf, i) \notin {"Q", "NUL"}
         /\ SubSeq(buf, p + 1, StringEnd(buf, p) - 1) \in Strings
         /\ Kept(SubSeq(buf, p + 1, StringEnd(buf, p) - 1)) \in Nat
<1>1. Len(buf) \in Nat /\ DOMAIN buf = 1..Len(buf)
  BY DEF AnyText
<1>2. p \in 1..Len(buf)
  BY <1>1 DEF At
<1> DEFINE Ends == {q \in Nat : q \in p + 1..Len(buf) + 1 /\ At(buf, q) \in {"Q", "NUL"}}
<1>3. Len(buf) + 1 \in Ends
  BY <1>1, <1>2 DEF At
<1>4. PICK m \in Ends : \A q \in Ends : m <= q
  <2>1. Ends # {} /\ Ends \in SUBSET Nat
    BY <1>3
  <2> HIDE DEF Ends
  <2> QED
    BY <2>1, Sums!LeastNatural
<1> DEFINE Is(q) == /\ At(buf, q) \in {"Q", "NUL"}
                    /\ \A r \in p + 1..q - 1 : At(buf, r) \notin {"Q", "NUL"}
<1>5. m \in p + 1..Len(buf) + 1 /\ Is(m)
  <2>1. \A r \in p + 1..m - 1 : r \in Nat /\ r \in p + 1..Len(buf) + 1 /\ r < m
    BY <1>1, <1>4
  <2> QED
    BY <1>4, <2>1
<1> DEFINE e == StringEnd(buf, p)
<1>6. e \in p + 1..Len(buf) + 1 /\ Is(e)
  <2>1. \E q \in p + 1..Len(buf) + 1 : Is(q)
    BY <1>5
  <2>2. e = CHOOSE q \in p + 1..Len(buf) + 1 : Is(q)
    BY DEF StringEnd
  <2> HIDE DEF e, Is
  <2> QED
    BY <2>1, <2>2
<1> DEFINE text == SubSeq(buf, p + 1, e - 1)
<1>7. text \in Strings
  <2>1. ASSUME NEW i \in p + 1..e - 1 PROVE buf[i] \in Tokens \ {"Q", "NUL"}
    <3>1. i \in 1..Len(buf)
      BY <1>1, <1>6, <1>2
    <3> QED
      BY <1>1, <1>6, <3>1 DEF At, AnyText
  <2>2. p + 1 \in Int /\ e - 1 \in Int
    BY <1>6
  <2> HIDE DEF e
  <2> QED
    BY <2>1, <2>2, SubSeqProperties DEF Strings
<1>8. Kept(text) \in Nat
  BY <1>7, KeptIsNatural DEF Strings
<1> QED
  BY <1>2, <1>6, <1>7, <1>8
-----------------------------------------------------------------------------
(* The fields of what a parse function leaves, of a refusal, and of a list *)
(* with one more child in front.                                           *)
LEMMA Leaves ==
  \A p, used, tree : /\ Left(p, used, tree).p = p /\ Left(p, used, tree).used = used
                     /\ Left(p, used, tree).tree = tree
BY DEF Left

(* A refusal has no tree and no place to go on from. *)
LEMMA Refuses ==
  \A used : Refused(used).p = Null /\ Refused(used).used = used /\ Refused(used).tree = NoTree
BY DEF Refused, Left

(* A child put in front of what the rest of the list left. *)
LEMMA JoinedLeaves ==
  ASSUME NEW child, NEW rest
  PROVE  /\ Joined(child, rest).p = rest.p /\ Joined(child, rest).used = rest.used
         /\ rest.tree # NoTree =>
              Joined(child, rest).tree = <<rest.tree[1], <<child>> \o rest.tree[2]>>
<1>1. CASE rest.tree = NoTree
  BY <1>1, Zenon DEF Joined
<1>2. CASE rest.tree # NoTree
  <2>1. Joined(child, rest) = Left(rest.p, rest.used, <<rest.tree[1], <<child>> \o rest.tree[2]>>)
    BY <1>2, Zenon DEF Joined
  <2> QED
    BY <1>2, <2>1 DEF Left
<1> QED
  BY <1>1, <1>2

(* The same facts by name: the provers do not find them inside a larger    *)
(* term otherwise.                                                         *)
LeftIs(left, p, used, tree) == left.p = p /\ left.used = used /\ left.tree = tree

(* What Left leaves, by that name. *)
LEMMA LeavesThat ==
  \A p, used, tree : LeftIs(Left(p, used, tree), p, used, tree)
BY DEF Left, LeftIs

(* What Joined leaves, *)
JoinedIs(joined, child, rest) ==
  /\ joined.p = rest.p /\ joined.used = rest.used
  /\ rest.tree # NoTree => joined.tree = <<rest.tree[1], <<child>> \o rest.tree[2]>>

(* by that name. *)
LEMMA JoinedThat ==
  \A child, rest : JoinedIs(Joined(child, rest), child, rest)
BY JoinedLeaves DEF JoinedIs

(* One turn of parse_array's loop, case by case, with names for what its  *)
(* calls leave.                                                            *)
ElementsExact(parse, buf, limit, p, used, element, rest, all) ==
  /\ element = parse["value"][p][used + Item]
  /\ rest = parse["elements"][element.p + 1][element.used]
  /\ all = ParseElements(parse, buf, limit, p, used)
  /\ used + Item > limit \/ element.p = Null => all = Refused(used)
  /\ ~(used + Item > limit) /\ element.p # Null =>
       /\ At(buf, element.p) = "," => all = Joined(element.tree, rest)
       /\ At(buf, element.p) = "]" =>
            all = Left(element.p + 1, element.used, <<"array", <<element.tree>>>>)
       /\ At(buf, element.p) \notin {",", "]"} => all = Refused(element.used)

(* That is what parse_array does. *)
LEMMA ElementsCases ==
  ASSUME NEW parse, NEW buf, NEW limit, NEW p, NEW used
  PROVE  \E element, rest, all : ElementsExact(parse, buf, limit, p, used, element, rest, all)
<1> DEFINE element == parse["value"][p][used + Item]
           rest == parse["elements"][element.p + 1][element.used]
           all == ParseElements(parse, buf, limit, p, used)
           mark == At(buf, element.p)
           Done == Left(element.p + 1, element.used, <<"array", <<element.tree>>>>)
<1>1. all = IF used + Item > limit \/ element.p = Null THEN Refused(used)
            ELSE CASE mark = "," -> Joined(element.tree, rest)
                   [] mark = "]" -> Done
                   [] OTHER -> Refused(element.used)
  BY Zenon DEF ParseElements
<1>2. "," # "]"
  OBVIOUS
<1>3. /\ element = parse["value"][p][used + Item]
      /\ rest = parse["elements"][element.p + 1][element.used]
      /\ all = ParseElements(parse, buf, limit, p, used)
      /\ mark = At(buf, element.p)
      /\ Done = Left(element.p + 1, element.used, <<"array", <<element.tree>>>>)
  OBVIOUS
<1> HIDE DEF element, rest, all, mark, Done
<1>4. used + Item > limit \/ element.p = Null => all = Refused(used)
  BY <1>1, Zenon
<1>5. ASSUME ~(used + Item > limit), element.p # Null
      PROVE  /\ mark = "," => all = Joined(element.tree, rest)
             /\ mark = "]" => all = Done
             /\ mark \notin {",", "]"} => all = Refused(element.used)
  <2>1. all = CASE mark = "," -> Joined(element.tree, rest)
                [] mark = "]" -> Done
                [] OTHER -> Refused(element.used)
    BY <1>1, <1>5, Zenon
  <2>2. ASSUME mark = "," PROVE all = Joined(element.tree, rest)
    BY <1>2, <2>1, <2>2, Zenon
  <2>3. ASSUME mark = "]" PROVE all = Done
    BY <1>2, <2>1, <2>3, Zenon
  <2>4. ASSUME mark # ",", mark # "]" PROVE all = Refused(element.used)
    BY <2>1, <2>4, Zenon
  <2> QED
    BY <2>2, <2>3, <2>4, Zenon
<1>6. ElementsExact(parse, buf, limit, p, used, element, rest, all)
  BY <1>3, <1>4, <1>5, Zenon DEF ElementsExact
<1> QED
  BY <1>6, Zenon

(* One turn of parse_object's loop, with names for what its calls leave. *)
MembersExact(parse, buf, limit, p, used, key, value, rest, all) ==
  /\ key = ParseString(buf, limit, p, used + Item)
  /\ value = parse["value"][key.p + 1][key.used]
  /\ rest = parse["members"][value.p + 1][value.used]
  /\ all = ParseMembers(parse, buf, limit, p, used)
  /\ \/ used + Item > limit \/ At(buf, p) # "Q" \/ key.tree = NoTree
     \/ At(buf, key.p) # ":" \/ value.p = Null
     => all = Refused(used)
  /\ /\ ~(used + Item > limit) /\ At(buf, p) = "Q" /\ key.tree # NoTree
     /\ At(buf, key.p) = ":" /\ value.p # Null
     => /\ At(buf, value.p) = "," => all = Joined(<<key.tree[2], value.tree>>, rest)
        /\ At(buf, value.p) = "}" =>
             all = Left(value.p + 1, value.used, <<"object", << <<key.tree[2], value.tree>> >>>>)
        /\ At(buf, value.p) \notin {",", "}"} => all = Refused(value.used)

(* That is what parse_object does. *)
LEMMA MembersCases ==
  ASSUME NEW parse, NEW buf, NEW limit, NEW p, NEW used
  PROVE  \E key, value, rest, all :
           MembersExact(parse, buf, limit, p, used, key, value, rest, all)
<1> DEFINE key == ParseString(buf, limit, p, used + Item)
           value == parse["value"][key.p + 1][key.used]
           member == <<key.tree[2], value.tree>>
           rest == parse["members"][value.p + 1][value.used]
           all == ParseMembers(parse, buf, limit, p, used)
           mark == At(buf, value.p)
           Done == Left(value.p + 1, value.used, <<"object", <<member>>>>)
           Stops == \/ used + Item > limit \/ At(buf, p) # "Q" \/ key.tree = NoTree
                    \/ At(buf, key.p) # ":" \/ value.p = Null
<1>1. all = IF Stops THEN Refused(used)
            ELSE CASE mark = "," -> Joined(member, rest)
                   [] mark = "}" -> Done
                   [] OTHER -> Refused(value.used)
  BY Zenon DEF ParseMembers
<1>2. "," # "}"
  OBVIOUS
<1>3. /\ key = ParseString(buf, limit, p, used + Item)
      /\ value = parse["value"][key.p + 1][key.used]
      /\ rest = parse["members"][value.p + 1][value.used]
      /\ all = ParseMembers(parse, buf, limit, p, used)
      /\ mark = At(buf, value.p) /\ member = <<key.tree[2], value.tree>>
      /\ Done = Left(value.p + 1, value.used, <<"object", <<member>>>>)
  OBVIOUS
<1> HIDE DEF key, value, member, rest, all, mark, Done
<1>4. Stops => all = Refused(used)
  BY <1>1, Zenon
<1>5. ASSUME ~Stops
      PROVE  /\ mark = "," => all = Joined(member, rest)
             /\ mark = "}" => all = Done
             /\ mark \notin {",", "}"} => all = Refused(value.used)
  <2>1. all = CASE mark = "," -> Joined(member, rest)
                [] mark = "}" -> Done
                [] OTHER -> Refused(value.used)
    BY <1>1, <1>5, Zenon
  <2>2. ASSUME mark = "," PROVE all = Joined(member, rest)
    BY <1>2, <2>1, <2>2, Zenon
  <2>3. ASSUME mark = "}" PROVE all = Done
    BY <1>2, <2>1, <2>3, Zenon
  <2>4. ASSUME mark # ",", mark # "}" PROVE all = Refused(value.used)
    BY <2>1, <2>4, Zenon
  <2> QED
    BY <2>2, <2>3, <2>4, Zenon
<1>6. ASSUME /\ ~(used + Item > limit) /\ At(buf, p) = "Q" /\ key.tree # NoTree
             /\ At(buf, key.p) = ":" /\ value.p # Null
      PROVE  /\ At(buf, value.p) = "," => all = Joined(<<key.tree[2], value.tree>>, rest)
             /\ At(buf, value.p) = "}" =>
                  all = Left(value.p + 1, value.used,
                             <<"object", << <<key.tree[2], value.tree>> >>>>)
             /\ At(buf, value.p) \notin {",", "}"} => all = Refused(value.used)
  <2>1. ~Stops
    BY <1>6, Zenon
  <2> QED
    BY <1>3, <1>5, <2>1, Zenon
<1>7. MembersExact(parse, buf, limit, p, used, key, value, rest, all)
  BY <1>3, <1>4, <1>6, Zenon DEF MembersExact
<1> QED
  BY <1>7, Zenon

(* parse_value, by the token it stands at. *)
ValueExact(parse, buf, limit, p, used, all) ==
  /\ At(buf, p) = "Q" => all = ParseString(buf, limit, p, used)
  /\ At(buf, p) = "{" /\ At(buf, p + 1) = "}" => all = Left(p + 2, used, <<"object", <<>>>>)
  /\ At(buf, p) = "{" /\ At(buf, p + 1) # "}" => all = parse["members"][p + 1][used]
  /\ At(buf, p) = "[" /\ At(buf, p + 1) = "]" => all = Left(p + 2, used, <<"array", <<>>>>)
  /\ At(buf, p) = "[" /\ At(buf, p + 1) # "]" => all = parse["elements"][p + 1][used]
  /\ At(buf, p) \in Scalars => all = Left(p + 1, used, <<"scalar", At(buf, p)>>)
  /\ At(buf, p) \notin {"Q", "{", "["} /\ At(buf, p) \notin Scalars => all = Refused(used)

(* That is what parse_value does. *)
LEMMA ValueCases ==
  ASSUME NEW parse, NEW buf, NEW limit, NEW p, NEW used
  PROVE  ValueExact(parse, buf, limit, p, used, ParseValue(parse, buf, limit, p, used))
<1>1. "Q" \notin Scalars /\ "{" \notin Scalars /\ "[" \notin Scalars
  BY JsonAssumption, Zenon DEF Marks
<1>2. "Q" # "{" /\ "Q" # "[" /\ "{" # "["
  OBVIOUS
<1>3. PICK all : all = ParseValue(parse, buf, limit, p, used)
  OBVIOUS
<1>4. ASSUME At(buf, p) = "Q" PROVE all = ParseString(buf, limit, p, used)
  BY <1>1, <1>2, <1>3, <1>4, Zenon DEF ParseValue
<1>5. ASSUME At(buf, p) = "{", At(buf, p + 1) = "}"
      PROVE  all = Left(p + 2, used, <<"object", <<>>>>)
  BY <1>1, <1>2, <1>3, <1>5, Zenon DEF ParseValue
<1>6. ASSUME At(buf, p) = "{", At(buf, p + 1) # "}"
      PROVE  all = parse["members"][p + 1][used]
  BY <1>1, <1>2, <1>3, <1>6, Zenon DEF ParseValue
<1>7. ASSUME At(buf, p) = "[", At(buf, p + 1) = "]"
      PROVE  all = Left(p + 2, used, <<"array", <<>>>>)
  BY <1>1, <1>2, <1>3, <1>7, Zenon DEF ParseValue
<1>8. ASSUME At(buf, p) = "[", At(buf, p + 1) # "]"
      PROVE  all = parse["elements"][p + 1][used]
  BY <1>1, <1>2, <1>3, <1>8, Zenon DEF ParseValue
<1>9. ASSUME At(buf, p) \in Scalars PROVE all = Left(p + 1, used, <<"scalar", At(buf, p)>>)
  BY <1>1, <1>2, <1>3, <1>9, Zenon DEF ParseValue
<1>10. ASSUME At(buf, p) \notin {"Q", "{", "["}, At(buf, p) \notin Scalars
       PROVE  all = Refused(used)
  BY <1>3, <1>10, Zenon DEF ParseValue
<1> QED
  BY <1>3, <1>4, <1>5, <1>6, <1>7, <1>8, <1>9, <1>10, Zenon DEF ValueExact

(* The same as one list of what may have been left. *)
ElementsMade(parse, buf, limit, p, used, element, rest, all) ==
  /\ element = parse["value"][p][used + Item]
  /\ rest = parse["elements"][element.p + 1][element.used]
  /\ all = ParseElements(parse, buf, limit, p, used)
  /\ \/ all = Refused(used)
     \/ /\ ~(used + Item > limit) /\ element.p # Null
        /\ \/ At(buf, element.p) = "," /\ all = Joined(element.tree, rest)
           \/ /\ At(buf, element.p) = "]"
              /\ all = Left(element.p + 1, element.used, <<"array", <<element.tree>>>>)
           \/ all = Refused(element.used)

(* A turn of parse_object's: it is refused, or a key, a colon and a *)
(* value were read, and a comma or a closing brace ends the turn.          *)
MembersMade(parse, buf, limit, p, used, key, value, rest, all) ==
  /\ key = ParseString(buf, limit, p, used + Item)
  /\ value = parse["value"][key.p + 1][key.used]
  /\ rest = parse["members"][value.p + 1][value.used]
  /\ all = ParseMembers(parse, buf, limit, p, used)
  /\ \/ all = Refused(used)
     \/ /\ ~(used + Item > limit) /\ At(buf, p) = "Q" /\ key.tree # NoTree
        /\ At(buf, key.p) = ":" /\ value.p # Null
        /\ \/ At(buf, value.p) = "," /\ all = Joined(<<key.tree[2], value.tree>>, rest)
           \/ /\ At(buf, value.p) = "}"
              /\ all = Left(value.p + 1, value.used,
                            <<"object", << <<key.tree[2], value.tree>> >>>>)
           \/ all = Refused(value.used)

(* parse_value, by the token it stands at. *)
ValueMade(parse, buf, limit, p, used, all) ==
  /\ all = ParseValue(parse, buf, limit, p, used)
  /\ \/ At(buf, p) = "Q" /\ all = ParseString(buf, limit, p, used)
     \/ /\ At(buf, p) = "{" /\ At(buf, p + 1) = "}"
        /\ all = Left(p + 2, used, <<"object", <<>>>>)
     \/ /\ At(buf, p) = "{" /\ At(buf, p + 1) # "}"
        /\ all = parse["members"][p + 1][used]
     \/ /\ At(buf, p) = "[" /\ At(buf, p + 1) = "]"
        /\ all = Left(p + 2, used, <<"array", <<>>>>)
     \/ /\ At(buf, p) = "[" /\ At(buf, p + 1) # "]"
        /\ all = parse["elements"][p + 1][used]
     \/ At(buf, p) \in Scalars /\ all = Left(p + 1, used, <<"scalar", At(buf, p)>>)
     \/ all = Refused(used)

(* parse_array does one of the things ElementsMade lists, *)
LEMMA ElementsSteps ==
  ASSUME NEW parse, NEW buf, NEW limit, NEW p, NEW used
  PROVE  \E element, rest, all : ElementsMade(parse, buf, limit, p, used, element, rest, all)
<1>1. PICK element, rest, all : ElementsExact(parse, buf, limit, p, used, element, rest, all)
  BY ElementsCases, Zenon
<1>2. ElementsMade(parse, buf, limit, p, used, element, rest, all)
  BY <1>1, Zenon DEF ElementsExact, ElementsMade
<1> QED
  BY <1>2, Zenon

(* parse_object one of those of MembersMade, *)
LEMMA MembersSteps ==
  ASSUME NEW parse, NEW buf, NEW limit, NEW p, NEW used
  PROVE  \E key, value, rest, all : MembersMade(parse, buf, limit, p, used, key, value, rest, all)
<1>1. PICK key, value, rest, all : MembersExact(parse, buf, limit, p, used, key, value, rest, all)
  BY MembersCases, Zenon
<1>2. MembersMade(parse, buf, limit, p, used, key, value, rest, all)
  BY <1>1, Zenon DEF MembersExact, MembersMade
<1> QED
  BY <1>2, Zenon

(* and parse_value one of those of ValueMade. *)
LEMMA ValueSteps ==
  ASSUME NEW parse, NEW buf, NEW limit, NEW p, NEW used
  PROVE  \E all : ValueMade(parse, buf, limit, p, used, all)
<1>1. PICK all : all = ParseValue(parse, buf, limit, p, used)
  OBVIOUS
<1>2. ValueExact(parse, buf, limit, p, used, all)
  BY <1>1, ValueCases, Zenon
<1>3. ValueMade(parse, buf, limit, p, used, all)
  BY <1>1, <1>2, Zenon DEF ValueExact, ValueMade
<1> QED
  BY <1>3, Zenon
-----------------------------------------------------------------------------
(* parse_string: out of memory and nothing moved, or the string is copied  *)
(* and the place is behind its closing quote.                              *)
LEMMA StringParsed ==
  ASSUME NEW buf \in AnyText, NEW limit \in Nat, NEW p \in Nat, NEW used \in Nat,
         At(buf, p) = "Q"
  PROVE  LET r == ParseString(buf, limit, p, used)
             end == StringEnd(buf, p)
             text == SubSeq(buf, p + 1, end - 1)
         IN  \/ used + Kept(text) > limit /\ r.p = p /\ r.used = used /\ r.tree = NoTree
             \/ /\ used + Kept(text) <= limit
                /\ r.p = end + 1 /\ r.used = used + Kept(text) /\ r.tree = <<"string", text>>
<1> DEFINE r == ParseString(buf, limit, p, used)
           end == StringEnd(buf, p)
           text == SubSeq(buf, p + 1, end - 1)
<1>1. r = IF used + Kept(text) > limit THEN Left(p, used, NoTree)
          ELSE Left(end + 1, used + Kept(text), <<"string", text>>)
  BY Zenon DEF ParseString
<1>2. Kept(text) \in Nat
  BY StringEnds
<1> HIDE DEF r, end, text
<1>3. \/ used + Kept(text) > limit /\ r.p = p /\ r.used = used /\ r.tree = NoTree
      \/ /\ used + Kept(text) <= limit
         /\ r.p = end + 1 /\ r.used = used + Kept(text) /\ r.tree = <<"string", text>>
  <2>1. CASE used + Kept(text) > limit
    BY <1>1, <2>1, Leaves
  <2>2. CASE ~(used + Kept(text) > limit)
    <3>1. r = Left(end + 1, used + Kept(text), <<"string", text>>)
      BY <1>1, <2>2, Zenon
    <3>2. used + Kept(text) <= limit
      BY <1>2, <2>2
    <3>3. r.p = end + 1 /\ r.used = used + Kept(text) /\ r.tree = <<"string", text>>
      BY <3>1 DEF Left
    <3> QED
      BY <3>2, <3>3
  <2> QED
    BY <2>1, <2>2
<1> QED
  BY <1>3, Zenon DEF r, end, text

(* Whatever is left behind, the place is not before the one the call began *)
(* at, or there is none.                                                   *)
Advances(r, p) == r.p \in Nat /\ r.used \in Nat /\ (r.p = Null \/ r.p >= p)

(* parse_string goes forward, and over the whole string if it makes a      *)
(* tree.                                                                   *)
LEMMA StringAdvances ==
  ASSUME NEW buf \in AnyText, NEW limit \in Nat, NEW p \in Nat, NEW used \in Nat,
         At(buf, p) = "Q"
  PROVE  /\ Advances(ParseString(buf, limit, p, used), p)
         /\ ParseString(buf, limit, p, used).tree # NoTree =>
              ParseString(buf, limit, p, used).p = StringEnd(buf, p) + 1
<1> DEFINE r == ParseString(buf, limit, p, used)
           end == StringEnd(buf, p)
           text == SubSeq(buf, p + 1, end - 1)
<1>1. \/ used + Kept(text) > limit /\ r.p = p /\ r.used = used /\ r.tree = NoTree
      \/ /\ used + Kept(text) <= limit
         /\ r.p = end + 1 /\ r.used = used + Kept(text) /\ r.tree = <<"string", text>>
  BY StringParsed, Zenon
<1>2. Kept(text) \in Nat /\ end \in p + 1..Len(buf) + 1 /\ Len(buf) \in Nat
  BY StringEnds DEF AnyText
<1> HIDE DEF r, end, text
<1>3. Advances(r, p) /\ (r.tree # NoTree => r.p = end + 1)
  BY <1>1, <1>2 DEF Advances
<1> QED
  BY <1>3 DEF r, end

(* StringParsed and StringEnds together, with names for the end and the    *)
(* text.                                                                   *)
LEMMA StringSteps ==
  ASSUME NEW buf \in AnyText, NEW limit \in Nat, NEW p \in Nat, NEW used \in Nat,
         At(buf, p) = "Q"
  PROVE  \E r, end, text :
           /\ r = ParseString(buf, limit, p, used)
           /\ end = StringEnd(buf, p)
           /\ text = SubSeq(buf, p + 1, end - 1)
           /\ end \in p + 1..Len(buf) + 1 /\ At(buf, end) \in {"Q", "NUL"} /\ text \in Strings
           /\ \/ r.p = p /\ r.used = used /\ r.tree = NoTree
              \/ /\ r.p = end + 1 /\ r.used = used + Kept(text) /\ r.used \in Nat
                 /\ r.tree = <<"string", text>>
<1> DEFINE r == ParseString(buf, limit, p, used)
           end == StringEnd(buf, p)
           text == SubSeq(buf, p + 1, end - 1)
<1>1. \/ used + Kept(text) > limit /\ r.p = p /\ r.used = used /\ r.tree = NoTree
      \/ /\ used + Kept(text) <= limit
         /\ r.p = end + 1 /\ r.used = used + Kept(text) /\ r.tree = <<"string", text>>
  BY StringParsed, Zenon
<1>2. /\ end \in p + 1..Len(buf) + 1 /\ At(buf, end) \in {"Q", "NUL"} /\ text \in Strings
      /\ Kept(text) \in Nat
  BY StringEnds, Zenon
<1>3. r = ParseString(buf, limit, p, used) /\ end = StringEnd(buf, p)
      /\ text = SubSeq(buf, p + 1, end - 1)
  OBVIOUS
<1> HIDE DEF r, end, text
<1>4. used + Kept(text) \in Nat
  BY <1>2
<1> QED
  BY <1>1, <1>2, <1>3, <1>4, Zenon

(* If the calls one level down go forward, so do the three functions. *)
LEMMA CallsAdvance ==
  ASSUME NEW buf \in AnyText, NEW limit \in Nat, NEW p \in Nat, NEW used \in Nat, NEW parse,
         \A what \in {"value", "elements", "members"} : \A q, u \in Nat :
           Advances(parse[what][q][u], q)
  PROVE  /\ Advances(ParseValue(parse, buf, limit, p, used), p)
         /\ Advances(ParseElements(parse, buf, limit, p, used), p)
         /\ Advances(ParseMembers(parse, buf, limit, p, used), p)
<1>0. \A q, u \in Nat : /\ Advances(parse["value"][q][u], q)
                        /\ Advances(parse["elements"][q][u], q)
                        /\ Advances(parse["members"][q][u], q)
  BY Zenon
<1>1. Item \in Nat /\ used + Item \in Nat /\ p + 1 \in Nat /\ p + 2 \in Nat
  BY ItemIsNatural
<1>2. \A u \in Nat : Advances(Refused(u), p)
  BY Refuses DEF Advances, Null
<1>3. Advances(ParseValue(parse, buf, limit, p, used), p)
  <2>1. PICK all : ValueMade(parse, buf, limit, p, used, all)
    BY ValueSteps, Zenon
  <2> USE DEF ValueMade
  <2>2. At(buf, p) = "Q" => Advances(ParseString(buf, limit, p, used), p)
    BY StringAdvances
  <2>3. \A t : Advances(Left(p + 1, used, t), p) /\ Advances(Left(p + 2, used, t), p)
    BY Leaves DEF Advances
  <2>4. /\ Advances(parse["members"][p + 1][used], p + 1)
        /\ Advances(parse["elements"][p + 1][used], p + 1)
    BY <1>0, <1>1, Zenon
  <2>5. \A r : Advances(r, p + 1) => Advances(r, p)
    BY DEF Advances
  <2> QED
    BY <1>2, <2>1, <2>2, <2>3, <2>4, <2>5, Zenon
<1>4. Advances(ParseElements(parse, buf, limit, p, used), p)
  <2>1. PICK element, rest, all : ElementsMade(parse, buf, limit, p, used, element, rest, all)
    BY ElementsSteps, Zenon
  <2> USE DEF ElementsMade
  <2>2. Advances(element, p)
    BY <1>0, <1>1, <2>1, Zenon
  <2>3. element.p \in Nat /\ element.used \in Nat /\ element.p + 1 \in Nat
    BY <2>2 DEF Advances
  <2>4. Advances(rest, element.p + 1)
    BY <1>0, <2>1, <2>3, Zenon
  <2>5. CASE all = Refused(used) \/ all = Refused(element.used)
    BY <1>2, <2>1, <2>3, <2>5, Zenon
  <2>6. CASE element.p # Null /\ all = Joined(element.tree, rest)
    <3>1. all.p = rest.p /\ all.used = rest.used
      BY <2>6, JoinedLeaves
    <3>2. Advances(all, p)
      BY <2>2, <2>4, <2>6, <3>1 DEF Advances
    <3> QED
      BY <2>1, <3>2, Zenon
  <2>7. CASE element.p # Null
             /\ all = Left(element.p + 1, element.used, <<"array", <<element.tree>>>>)
    <3>1. all.p = element.p + 1 /\ all.used = element.used
      BY <2>7, Leaves
    <3>2. Advances(all, p)
      BY <2>2, <2>7, <3>1 DEF Advances
    <3> QED
      BY <2>1, <3>2, Zenon
  <2> QED
    BY <2>1, <2>5, <2>6, <2>7, Zenon
<1>5. Advances(ParseMembers(parse, buf, limit, p, used), p)
  <2>1. PICK key, value, rest, all : MembersMade(parse, buf, limit, p, used, key, value, rest, all)
    BY MembersSteps, Zenon
  <2> USE DEF MembersMade
  <2>2. CASE all = Refused(used)
    BY <1>2, <2>1, <2>2, Zenon
  <2>3. CASE At(buf, p) = "Q" /\ value.p # Null /\ key.tree # NoTree
    <3>1. Advances(key, p) /\ key.p = StringEnd(buf, p) + 1
      <4>1. /\ Advances(ParseString(buf, limit, p, used + Item), p)
            /\ ParseString(buf, limit, p, used + Item).tree # NoTree =>
                 ParseString(buf, limit, p, used + Item).p = StringEnd(buf, p) + 1
        BY <1>1, <2>3, StringAdvances
      <4>2. key = ParseString(buf, limit, p, used + Item)
        BY <2>1, Zenon
      <4> QED
        BY <2>3, <4>1, <4>2, Zenon
    <3>2. key.p \in Nat /\ key.used \in Nat /\ key.p >= p /\ key.p + 1 \in Nat
      <4>1. StringEnd(buf, p) \in p + 1..Len(buf) + 1 /\ Len(buf) \in Nat
        BY <2>3, StringEnds DEF AnyText
      <4> QED
        BY <3>1, <4>1 DEF Advances
    <3>3. Advances(value, key.p + 1)
      BY <1>0, <2>1, <3>2, Zenon
    <3>4. value.p \in Nat /\ value.used \in Nat /\ value.p + 1 \in Nat /\ value.p >= p
      BY <2>3, <3>2, <3>3 DEF Advances
    <3>5. Advances(rest, value.p + 1)
      BY <1>0, <2>1, <3>4, Zenon
    <3>6. CASE all = Joined(<<key.tree[2], value.tree>>, rest)
      <4>1. all.p = rest.p /\ all.used = rest.used
        BY <3>6, JoinedLeaves
      <4>2. Advances(all, p)
        BY <3>4, <3>5, <4>1 DEF Advances
      <4> QED
        BY <2>1, <4>2, Zenon
    <3>7. CASE all = Left(value.p + 1, value.used, <<"object", << <<key.tree[2], value.tree>> >>>>)
      <4>1. all.p = value.p + 1 /\ all.used = value.used
        BY <3>7, Leaves
      <4>2. Advances(all, p)
        BY <3>4, <4>1 DEF Advances
      <4> QED
        BY <2>1, <4>2, Zenon
    <3>8. CASE all = Refused(value.used)
      BY <1>2, <2>1, <3>4, <3>8, Zenon
    <3> QED
      BY <2>1, <1>2, <3>6, <3>7, <3>8, Zenon
  <2> QED
    BY <2>1, <2>2, <2>3, Zenon
<1> QED
  BY <1>3, <1>4, <1>5

(* So they do at every level. *)
LEMMA ParserAdvances ==
  ASSUME NEW buf \in AnyText, NEW limit \in Nat
  PROVE  \A n \in Nat : \A what \in {"value", "elements", "members"} : \A p, used \in Nat :
           Advances(Parsers[n][buf][limit][what][p][used], p)
<1> DEFINE Good(n) == \A what \in {"value", "elements", "members"} : \A p, used \in Nat :
                        Advances(Parsers[n][buf][limit][what][p][used], p)
           S == {n \in Nat : Good(n)}
<1>1. 0 \in S
  <2>1. ASSUME NEW what \in {"value", "elements", "members"}, NEW p \in Nat, NEW used \in Nat
        PROVE  Advances(Parsers[0][buf][limit][what][p][used], p)
    <3>2. Parsers[0][buf][limit][what][p][used] = Refused(used)
      BY ParserStops
    <3>3. Advances(Refused(used), p)
      BY Refuses DEF Advances, Null
    <3> QED
      BY <3>2, <3>3, Zenon
  <2> QED
    BY <2>1
<1>2. ASSUME NEW n \in Nat, n \in S PROVE n + 1 \in S
  <2>0. \A parse : parse = Parsers[n][buf][limit] =>
          \A what \in {"value", "elements", "members"} : \A q, u \in Nat :
            Advances(parse[what][q][u], q)
    BY <1>2, Zenon
  <2>1. PICK parse : parse = Parsers[n][buf][limit]
    OBVIOUS
  <2>2. \A what \in {"value", "elements", "members"} : \A q, u \in Nat :
          Advances(parse[what][q][u], q)
    BY <2>0, <2>1, Zenon
  <2>3. ASSUME NEW p \in Nat, NEW used \in Nat
        PROVE  \A what \in {"value", "elements", "members"} :
                 Advances(Parsers[n + 1][buf][limit][what][p][used], p)
    <3>1. /\ Parsers[n + 1][buf][limit]["value"][p][used] = ParseValue(parse, buf, limit, p, used)
          /\ Parsers[n + 1][buf][limit]["elements"][p][used]
               = ParseElements(parse, buf, limit, p, used)
          /\ Parsers[n + 1][buf][limit]["members"][p][used]
               = ParseMembers(parse, buf, limit, p, used)
      <4>1. Called(n, Parsers[n][buf][limit], buf, limit, p, used)
        BY ParserCalled, Zenon
      <4> QED
        BY <2>1, <4>1, Zenon DEF Called
    <3>2. /\ Advances(ParseValue(parse, buf, limit, p, used), p)
          /\ Advances(ParseElements(parse, buf, limit, p, used), p)
          /\ Advances(ParseMembers(parse, buf, limit, p, used), p)
      BY <2>2, CallsAdvance, Zenon
    <3> QED
      BY <2>1, <3>1, <3>2, Zenon
  <2>4. n + 1 \in Nat
    OBVIOUS
  <2> QED
    BY <2>3, <2>4, Zenon
<1>3. Nat \subseteq S
  <2> HIDE DEF S
  <2> QED
    BY <1>1, <1>2, Sums!NaturalInduction
<1> QED
  BY <1>3
-----------------------------------------------------------------------------
(* The text from position p up to q. *)
Read(buf, p, q) == SubSeq(buf, p, q - 1)

(* A line of L tokens lies in buf, and its NUL behind it. *)
Stored(buf, L) ==
  /\ buf \in AnyText /\ L \in Nat /\ L + 1 <= Len(buf)
  /\ buf[L + 1] = "NUL" /\ \A i \in 1..L : buf[i] # "NUL"

(* No earlier line left anything behind it. *)
Clean(buf, L) == \A i \in L + 2..Len(buf) : buf[i] = "NUL"

(* The length of a text is a number. *)
LEMMA LengthOf ==
  \A buf \in AnyText : Len(buf) \in Nat
BY DEF AnyText

(* A part of a text is a text. *)
LEMMA ReadIsText ==
  ASSUME NEW buf \in AnyText, NEW p \in Nat, NEW q \in Nat, p >= 1, q <= Len(buf) + 1
  PROVE  Read(buf, p, q) \in AnyText
<1>1. \A i \in p..q - 1 : buf[i] \in Tokens
  BY DEF AnyText
<1> QED
  BY <1>1, SubSeqProperties DEF Read, AnyText

(* Two parts that meet make one. *)
Meets(buf, p, q, m) == Read(buf, p, q) \o Read(buf, q, m) = Read(buf, p, m)

(* Parts of a text in order do meet. *)
LEMMA ReadJoins ==
  ASSUME NEW buf \in AnyText, NEW p \in Nat, NEW q \in Nat, NEW m \in Nat,
         p >= 1, p <= q, q <= m, m <= Len(buf) + 1
  PROVE  Meets(buf, p, q, m)
<1>1. Len(buf) \in Nat
  BY LengthOf
<1>2. p \in 1..Len(buf) + 1 /\ q - 1 \in p - 1..Len(buf) /\ m - 1 \in q - 1..Len(buf)
      /\ (q - 1) + 1 = q
  BY <1>1
<1>3. SubSeq(buf, p, q - 1) \o SubSeq(buf, (q - 1) + 1, m - 1) = SubSeq(buf, p, m - 1)
  BY <1>2, ConcatAdjacentSubSeq DEF AnyText
<1> QED
  BY <1>2, <1>3 DEF Read, Meets

(* A part of one token. *)
LEMMA ReadOne ==
  ASSUME NEW buf \in AnyText, NEW q \in 1..Len(buf)
  PROVE  Read(buf, q, q + 1) = <<buf[q]>>
<1>1. Len(buf) \in Nat
  BY LengthOf
<1>2. q \in Int /\ (q + 1) - 1 = q /\ \A i \in q..q : buf[i] \in Tokens
  BY <1>1 DEF AnyText
<1> DEFINE r == SubSeq(buf, q, q)
<1>3. r \in Seq(Tokens) /\ Len(r) = 1 /\ r[1] = buf[q]
  <2>1. /\ SubSeq(buf, q, q) \in Seq(Tokens)
        /\ Len(SubSeq(buf, q, q)) = IF q <= q THEN q - q + 1 ELSE 0
        /\ \A i \in 1..q - q + 1 : SubSeq(buf, q, q)[i] = buf[q + i - 1]
    BY <1>2, SubSeqProperties
  <2> QED
    BY <1>2, <2>1
<1> HIDE DEF r
<1>4. r = <<buf[q]>>
  BY <1>3
<1> QED
  BY <1>2, <1>4 DEF r, Read

(* What is known of a stored line at a place: a token that is not NUL is   *)
(* inside the line, the first NUL is behind it, and with a clean remainder *)
(* nothing but NUL follows.                                                *)
LEMMA Marked ==
  ASSUME NEW buf, NEW L, Stored(buf, L)
  PROVE  /\ Len(buf) \in Nat /\ L \in Nat /\ L + 1 <= Len(buf) /\ buf \in AnyText
         /\ \A p \in 1..L + 1 : At(buf, p) # "NUL" => p \in 1..L /\ buf[p] = At(buf, p)
         /\ \A p \in 1..L : At(buf, p) = buf[p] /\ buf[p] # "NUL" /\ buf[p] \in Tokens
         /\ At(buf, L + 1) = "NUL"
         /\ Clean(buf, L) => \A p \in Nat : p >= L + 2 => At(buf, p) = "NUL"
<1>1. Len(buf) \in Nat /\ L \in Nat /\ L + 1 <= Len(buf) /\ buf \in AnyText
  BY DEF Stored, AnyText
<1>2. DOMAIN buf = 1..Len(buf) /\ \A p \in 1..Len(buf) : buf[p] \in Tokens
  BY <1>1 DEF AnyText
<1>3. \A p \in 1..L : At(buf, p) = buf[p] /\ buf[p] # "NUL" /\ buf[p] \in Tokens
  BY <1>1, <1>2 DEF At, Stored
<1>4. At(buf, L + 1) = "NUL"
  BY <1>1, <1>2 DEF At, Stored
<1>5. \A p \in 1..L + 1 : At(buf, p) # "NUL" => p \in 1..L /\ buf[p] = At(buf, p)
  BY <1>1, <1>3, <1>4
<1>6. ASSUME Clean(buf, L) PROVE \A p \in Nat : p >= L + 2 => At(buf, p) = "NUL"
  BY <1>1, <1>2, <1>6 DEF At, Clean
<1> QED
  BY <1>1, <1>3, <1>4, <1>5, <1>6

(* Three texts put together from either side *)
Grouped(a, b, c) == a \o (b \o c) = (a \o b) \o c

(* are one text. *)
LEMMA ThreeTexts ==
  \A a, b, c \in AnyText : Grouped(a, b, c)
<1> SUFFICES ASSUME NEW a \in AnyText, NEW b \in AnyText, NEW c \in AnyText
             PROVE  a \o (b \o c) = (a \o b) \o c
  BY DEF Grouped
<1> QED
  BY ConcatAssociative DEF AnyText

(* Two single tokens make a pair. *)
LEMMA TwoTokens ==
  \A a, b : <<a>> \o <<b>> = <<a, b>>
<1> SUFFICES ASSUME NEW a, NEW b PROVE <<a>> \o <<b>> = <<a, b>>
  OBVIOUS
<1>1. PICK s : s = <<a>> \o <<b>>
  OBVIOUS
<1>2. s \in Seq({a, b}) /\ Len(s) = 2 /\ s[1] = a /\ s[2] = b
  <2>1. /\ <<b>> \in Seq({a, b}) /\ Len(<<b>>) = 1 /\ <<b>>[1] = b /\ a \in {a, b}
    OBVIOUS
  <2>2. /\ <<a>> \o <<b>> \in Seq({a, b}) /\ Len(<<a>> \o <<b>>) = Len(<<b>>) + 1
        /\ (<<a>> \o <<b>>)[1] = a
        /\ \A i \in 1..Len(<<b>>) : (<<a>> \o <<b>>)[i + 1] = <<b>>[i]
    BY <2>1, InFront
  <2> QED
    BY <1>1, <2>1, <2>2
<1>3. s = <<a, b>>
  BY <1>2
<1> QED
  BY <1>1, <1>3

(* The empty sequence is a sequence of anything; with a name, for the      *)
(* empty list.                                                             *)
LEMMA NoneIn ==
  \A S : \E none : none = <<>> /\ none \in Seq(S)
BY EmptySeq, Zenon

(* A list is a tree, and its parts are what it was built from. *)
LEMMA TreesAreTrees ==
  \A x : /\ <<"array", x>> # NoTree /\ <<"array", x>>[1] = "array" /\ <<"array", x>>[2] = x
         /\ <<"object", x>> # NoTree /\ <<"object", x>>[1] = "object" /\ <<"object", x>>[2] = x
BY DEF NoTree

(* Places after p + 1 are places after p. *)
LEMMA Later ==
  \A p, L \in Nat : \A q \in p + 1..L + 1 : q \in p..L + 1
OBVIOUS

(* A mark of JSON was seen at q: q is inside the line and the place behind *)
(* it inside or just behind.                                               *)
InLine(buf, L, p, q, mark) ==
  /\ q \in 1..L /\ q \in p..L /\ q \in Nat /\ p <= q /\ q <= Len(buf)
  /\ q + 1 \in 1..L + 1 /\ q + 1 \in p + 1..L + 1 /\ q + 1 \in Nat
  /\ L + 1 \in q + 1..L + 1
  /\ buf[q] = mark /\ At(buf, q) = mark

(* A token that is not NUL is inside the line. *)
LEMMA MarkInLine ==
  ASSUME NEW buf, NEW L, Stored(buf, L), NEW p \in 1..L + 1, NEW q \in p..L + 1,
         NEW mark, At(buf, q) = mark, mark # "NUL"
  PROVE  InLine(buf, L, p, q, mark)
<1>1. /\ Len(buf) \in Nat /\ L \in Nat /\ L + 1 <= Len(buf)
      /\ \A i \in 1..L + 1 : At(buf, i) # "NUL" => i \in 1..L /\ buf[i] = At(buf, i)
  BY Marked
<1>2. q \in 1..L + 1
  BY <1>1
<1>3. q \in 1..L /\ buf[q] = mark
  BY <1>1, <1>2, Zenon
<1> QED
  BY <1>1, <1>3 DEF InLine

(* The places of a value behind a key and its colon. *)
LEMMA TwoOn ==
  ASSUME NEW L \in Nat, NEW p \in 1..L + 1, NEW k \in p + 1..L, NEW v \in (k + 1) + 1..L + 1
  PROVE  v \in k + 2..L + 1 /\ v \in p..L + 1 /\ v \in 1..L + 1
OBVIOUS

(* The places of the rest of a list behind its comma at q, *)
FurtherOn(size, L, p, q, m) ==
  m \in Nat /\ q + 1 <= m /\ m <= size + 1 /\ m \in p + 1..L + 1

(* are in the line and in order. *)
LEMMA Further ==
  ASSUME NEW size \in Nat, NEW L \in Nat, L + 1 <= size, NEW p \in Nat, NEW q \in p..L,
         NEW m \in (q + 1) + 1..L + 1
  PROVE  FurtherOn(size, L, p, q, m)
BY DEF FurtherOn

(* What p <= q < m inside the buffer gives the lemmas on Read. *)
LEMMA InOrder ==
  ASSUME NEW size \in Nat, NEW p \in Nat, NEW q \in Nat, NEW m \in Nat,
         p >= 1, p <= q, q + 1 <= m, m <= size + 1
  PROVE  /\ q \in 1..size /\ q + 1 \in Nat /\ q <= q + 1 /\ q <= m /\ q + 1 >= 1
         /\ q <= size + 1 /\ q >= 1
OBVIOUS

(* An entry of a list, and the mark behind it, in the text they are in. *)
LEMMA LastOfList ==
  ASSUME NEW buf \in AnyText, NEW p \in Nat, NEW q \in Nat, p >= 1, p <= q, q <= Len(buf),
         buf[q] # "Q", Closed(Read(buf, p, q))
  PROVE  /\ Listed(<<Read(buf, p, q)>>) \o <<buf[q]>> = Read(buf, p, q + 1)
         /\ Closed(Read(buf, p, q + 1))
<1>1. Len(buf) \in Nat
  BY LengthOf
<1>2. q \in 1..Len(buf) /\ q + 1 \in Nat /\ q <= q + 1 /\ q + 1 <= Len(buf) + 1
      /\ q <= Len(buf) + 1
  BY <1>1
<1>3. PICK x : x = Read(buf, p, q)
  OBVIOUS
<1>4. x \in AnyText
  BY <1>2, <1>3, ReadIsText
<1>5. Read(buf, p, q) \o Read(buf, q, q + 1) = Read(buf, p, q + 1)
  <2>1. Meets(buf, p, q, q + 1)
    BY <1>2, ReadJoins, Zenon
  <2> QED
    BY <2>1, Zenon DEF Meets
<1>6. Read(buf, q, q + 1) = <<buf[q]>>
  BY <1>2, ReadOne
<1>7. x \o <<buf[q]>> = Read(buf, p, q + 1)
  BY <1>3, <1>5, <1>6, Zenon
<1>8. Listed(<<x>>) = x
  BY <1>4, ListedFirst
<1>9. <<buf[q]>> \in AnyText /\ Closed(<<buf[q]>>)
  <2>1. buf[q] \in Tokens \ {"Q"}
    BY <1>2 DEF AnyText
  <2> QED
    BY <2>1, OneToken, ClosedTokens, Zenon
<1>10. Closed(x \o <<buf[q]>>)
  BY <1>3, <1>4, <1>9, ClosedJoins, Zenon
<1> QED
  BY <1>3, <1>7, <1>8, <1>10, Zenon

(* One element, a comma, and the rest of a list are a list. *)
LEMMA MoreOfList ==
  ASSUME NEW buf \in AnyText, NEW p \in Nat, NEW q \in Nat, NEW m \in Nat, NEW texts, NEW c,
         p >= 1, p <= q, q + 1 <= m, m <= Len(buf) + 1,
         buf[q] = ",", Closed(Read(buf, p, q)),
         texts \in Seq(AnyText), texts # <<>>, c \in Tokens,
         Listed(texts) \o <<c>> = Read(buf, q + 1, m), Closed(Read(buf, q + 1, m))
  PROVE  /\ Listed(<<Read(buf, p, q)>> \o texts) \o <<c>> = Read(buf, p, m)
         /\ Closed(Read(buf, p, m))
<1>1. Len(buf) \in Nat
  BY LengthOf
<1>2. /\ q \in 1..Len(buf) /\ q + 1 \in Nat /\ q <= q + 1 /\ q <= m /\ q + 1 >= 1
      /\ q <= Len(buf) + 1 /\ q >= 1
  BY <1>1, InOrder, Zenon
<1>3. PICK x, y, z : x = Read(buf, p, q) /\ y = Read(buf, q + 1, m) /\ z = Read(buf, q, m)
  OBVIOUS
<1>4. x \in AnyText /\ y \in AnyText /\ z \in AnyText
  BY <1>2, <1>3, ReadIsText
<1>5. x \o z = Read(buf, p, m)
  <2>1. Meets(buf, p, q, m)
    BY <1>2, ReadJoins, Zenon
  <2> QED
    BY <1>3, <2>1, Zenon DEF Meets
<1>6. <<",">> \o y = z
  <2>1. Read(buf, q, q + 1) \o Read(buf, q + 1, m) = Read(buf, q, m)
    <3>1. Meets(buf, q, q + 1, m)
      BY <1>2, ReadJoins, Zenon
    <3> QED
      BY <3>1, Zenon DEF Meets
  <2>2. Read(buf, q, q + 1) = <<",">>
    BY <1>2, ReadOne
  <2> QED
    BY <1>3, <2>1, <2>2, Zenon
<1>7. Listed(<<x>> \o texts) = x \o (<<",">> \o Listed(texts))
  BY <1>4, ListedFirst
<1>8. <<",">> \in AnyText /\ <<c>> \in AnyText /\ Closed(<<",">>) /\ Listed(texts) \in AnyText
  <2>1. "," \in Tokens \ {"Q"}
    BY MarksAreTokens
  <2>2. Listed(texts) \in AnyText
    BY ListedIsText
  <2> QED
    BY <2>1, <2>2, OneToken, ClosedTokens, Zenon
<1>9. (x \o (<<",">> \o Listed(texts))) \o <<c>> = x \o (<<",">> \o (Listed(texts) \o <<c>>))
  <2>1. PICK w, l, e : w = <<",">> /\ l = Listed(texts) /\ e = <<c>>
    OBVIOUS
  <2>2. w \in AnyText /\ l \in AnyText /\ e \in AnyText
    BY <1>8, <2>1, Zenon
  <2>3. PICK k : k = w \o l
    OBVIOUS
  <2>4. k \in AnyText
    BY <2>2, <2>3, Joins, Zenon
  <2>5. Grouped(w, l, e) /\ Grouped(x, k, e)
    BY <1>4, <2>2, <2>4, ThreeTexts, Zenon
  <2> QED
    BY <2>1, <2>3, <2>5, Zenon DEF Grouped
<1>10. Closed(x) /\ Closed(y)
  BY <1>3, Zenon
<1>11. Closed(Read(buf, p, m))
  <2>1. Closed(<<",">> \o y) <=> (Closed(<<",">>) <=> Closed(y))
    BY <1>4, <1>8, ClosedJoins, Zenon
  <2>2. Closed(x \o z) <=> (Closed(x) <=> Closed(z))
    BY <1>4, ClosedJoins, Zenon
  <2> QED
    BY <1>5, <1>6, <1>8, <1>10, <2>1, <2>2, Zenon
<1> QED
  BY <1>3, <1>5, <1>6, <1>7, <1>9, <1>11, Zenon

(* The texts of elements and of members. *)
Worded(n, trees) == [k \in DOMAIN trees |-> Renderings[n][trees[k]]]
(* The texts of the members of an object. *)
Keyed(n, members) ==
  [k \in DOMAIN members |-> Named(members[k][1], Renderings[n][members[k][2]])]

(* A key with its value is a text. *)
LEMMA NamedIsText ==
  \A key \in Strings : \A text \in AnyText : Named(key, text) \in AnyText
<1> SUFFICES ASSUME NEW key \in Strings, NEW text \in AnyText PROVE Named(key, text) \in AnyText
  OBVIOUS
<1>1. key \in AnyText /\ <<"Q">> \in AnyText /\ <<"Q", ":">> \in AnyText
  BY MarksAreTokens, OneToken
<1>2. \A a, b, d, e \in AnyText : a \o b \o d \o e \in AnyText
  BY DEF AnyText
<1> QED
  BY <1>1, <1>2, Zenon DEF Named

(* Mapping a sequence with one more element in front, with the facts of    *)
(* types that go with it.                                                  *)
MapsInFront(S, T, f, x, s) ==
  /\ [k \in DOMAIN s |-> f[s[k]]] \in Seq(T)
  /\ s # <<>> => [k \in DOMAIN s |-> f[s[k]]] # <<>>
  /\ [k \in DOMAIN <<x>> |-> f[<<x>>[k]]] = <<f[x]>>
  /\ <<x>> \o s \in Seq(S) /\ <<x>> \o s # <<>> /\ <<x>> \in Seq(S) /\ <<x>> # <<>>
  /\ [k \in DOMAIN (<<x>> \o s) |-> f[(<<x>> \o s)[k]]]
       = <<f[x]>> \o [k \in DOMAIN s |-> f[s[k]]]

(* It maps the element and the rest. *)
LEMMA MapInFront ==
  ASSUME NEW S, NEW T, NEW f, \A a \in S : f[a] \in T, NEW x \in S, NEW s \in Seq(S)
  PROVE  MapsInFront(S, T, f, x, s)
<1> DEFINE all == <<x>> \o s
           left == [k \in DOMAIN all |-> f[all[k]]]
           w == [k \in DOMAIN s |-> f[s[k]]]
           right == <<f[x]>> \o w
<1>1. \A k \in DOMAIN s : s[k] \in S /\ f[s[k]] \in T
  OBVIOUS
<1>2. w \in Seq(T) /\ Len(w) = Len(s) /\ Len(s) \in Nat /\ DOMAIN s = 1..Len(s)
  BY <1>1
<1>3. s # <<>> => w # <<>>
  BY <1>2
<1>4. [k \in DOMAIN <<x>> |-> f[<<x>>[k]]] = <<f[x]>>
  OBVIOUS
<1>5. /\ all \in Seq(S) /\ Len(all) = Len(s) + 1 /\ all[1] = x
      /\ \A i \in 1..Len(s) : all[i + 1] = s[i]
  BY InFront
<1>6. /\ right \in Seq(T) /\ Len(right) = Len(w) + 1 /\ right[1] = f[x]
      /\ \A i \in 1..Len(w) : right[i + 1] = w[i]
  <2> HIDE DEF w
  <2> QED
    BY <1>2, InFront
<1>7. left = right
  <2>1. left = [k \in 1..Len(s) + 1 |-> f[all[k]]] /\ w = [k \in 1..Len(s) |-> f[s[k]]]
    BY <1>2, <1>5
  <2> HIDE DEF all, left, w, right
  <2>2. right = [k \in 1..Len(s) + 1 |-> right[k]]
    BY <1>2, <1>6
  <2>3. ASSUME NEW k \in 1..Len(s) + 1 PROVE f[all[k]] = right[k]
    <3>1. CASE k = 1
      BY <1>5, <1>6, <3>1
    <3>2. CASE k # 1
      <4>1. k - 1 \in 1..Len(s) /\ (k - 1) + 1 = k
        BY <1>2, <3>2
      <4>2. all[k] = s[k - 1] /\ right[k] = w[k - 1]
        BY <1>2, <1>5, <1>6, <4>1
      <4> QED
        BY <2>1, <4>1, <4>2
    <3> QED
      BY <3>1, <3>2
  <2> QED
    BY <2>1, <2>2, <2>3
<1>8. all # <<>> /\ <<x>> \in Seq(S) /\ <<x>> # <<>>
  BY <1>2, <1>5
<1> QED
  BY <1>2, <1>3, <1>4, <1>5, <1>7, <1>8 DEF MapsInFront

(* The same for the texts of the elements of an array, *)
WordsInFront(n, tree, trees) ==
  /\ Worded(n, trees) \in Seq(AnyText)
  /\ trees # <<>> => Worded(n, trees) # <<>>
  /\ Worded(n, <<tree>>) = <<Renderings[n][tree]>>
  /\ <<tree>> \o trees \in Seq(TreesTo[n]) /\ <<tree>> \o trees # <<>>
  /\ <<tree>> \in Seq(TreesTo[n]) /\ <<tree>> # <<>>
  /\ Worded(n, <<tree>> \o trees) = <<Renderings[n][tree]>> \o Worded(n, trees)

(* by MapInFront with the renderings of the nesting left, *)
LEMMA WordedFirst ==
  ASSUME NEW n \in Nat, NEW tree \in TreesTo[n], NEW trees \in Seq(TreesTo[n])
  PROVE  WordsInFront(n, tree, trees)
<1>1. \A t \in TreesTo[n] : Renderings[n][t] \in AnyText
  BY RenderingsAreTexts
<1>2. PICK f, S : f = Renderings[n] /\ S = TreesTo[n]
  OBVIOUS
<1>3. (\A t \in S : f[t] \in AnyText) /\ tree \in S /\ trees \in Seq(S)
  BY <1>1, <1>2
<1>4. MapsInFront(S, AnyText, f, tree, trees)
  BY <1>3, MapInFront
<1> QED
  BY <1>2, <1>4, Zenon DEF WordsInFront, Worded, MapsInFront

(* and for those of the members of an object, *)
KeysInFront(n, key, tree, members) ==
  /\ Keyed(n, members) \in Seq(AnyText)
  /\ members # <<>> => Keyed(n, members) # <<>>
  /\ Keyed(n, << <<key, tree>> >>) = <<Named(key, Renderings[n][tree])>>
  /\ << <<key, tree>> >> \o members \in Seq(Strings \X TreesTo[n])
  /\ << <<key, tree>> >> \o members # <<>>
  /\ << <<key, tree>> >> \in Seq(Strings \X TreesTo[n]) /\ << <<key, tree>> >> # <<>>
  /\ Keyed(n, << <<key, tree>> >> \o members)
       = <<Named(key, Renderings[n][tree])>> \o Keyed(n, members)

(* by MapInFront with the text of a key and its value. *)
LEMMA KeyedFirst ==
  ASSUME NEW n \in Nat, NEW key \in Strings, NEW tree \in TreesTo[n],
         NEW members \in Seq(Strings \X TreesTo[n])
  PROVE  KeysInFront(n, key, tree, members)
<1> DEFINE S == Strings \X TreesTo[n]
           f == [a \in S |-> Named(a[1], Renderings[n][a[2]])]
           Mapped(s) == [k \in DOMAIN s |-> f[s[k]]]
<1>1. \A a \in S : f[a] = Named(a[1], Renderings[n][a[2]]) /\ f[a] \in AnyText
  <2>1. ASSUME NEW a \in S PROVE Named(a[1], Renderings[n][a[2]]) \in AnyText
    <3>1. a[1] \in Strings /\ Renderings[n][a[2]] \in AnyText
      BY RenderingsAreTexts
    <3> QED
      BY <3>1, NamedIsText, Zenon
  <2> QED
    BY <2>1
<1>2. PICK x : x = <<key, tree>>
  OBVIOUS
<1>3. x \in S /\ f[x] = Named(key, Renderings[n][tree])
  BY <1>2
<1> HIDE DEF f
<1>4. \A s \in Seq(S) : Keyed(n, s) = Mapped(s)
  BY <1>1 DEF Keyed
<1> HIDE DEF S
<1>5. /\ Mapped(members) \in Seq(AnyText)
      /\ members # <<>> => Mapped(members) # <<>>
      /\ Mapped(<<x>>) = <<f[x]>>
      /\ <<x>> \o members \in Seq(S) /\ <<x>> \o members # <<>>
      /\ <<x>> \in Seq(S) /\ <<x>> # <<>>
      /\ Mapped(<<x>> \o members) = <<f[x]>> \o Mapped(members)
  <2>1. members \in Seq(S)
    BY DEF S
  <2>2. \A a \in S : f[a] \in AnyText
    BY <1>1
  <2>3. MapsInFront(S, AnyText, f, x, members)
    BY <1>3, <2>1, <2>2, MapInFront
  <2> QED
    BY <2>3, Zenon DEF MapsInFront
<1>6. members \in Seq(S) /\ Mapped(members) = Keyed(n, members)
      /\ Mapped(<<x>>) = Keyed(n, <<x>>) /\ Mapped(<<x>> \o members) = Keyed(n, <<x>> \o members)
  <2>1. members \in Seq(S)
    BY DEF S
  <2> HIDE DEF Mapped
  <2> QED
    BY <1>4, <1>5, <2>1, Zenon
<1> HIDE DEF Mapped
<1>7. /\ Keyed(n, members) \in Seq(AnyText)
      /\ members # <<>> => Keyed(n, members) # <<>>
      /\ Keyed(n, <<x>>) = <<Named(key, Renderings[n][tree])>>
      /\ <<x>> \o members \in Seq(S) /\ <<x>> \o members # <<>>
      /\ <<x>> \in Seq(S) /\ <<x>> # <<>>
      /\ Keyed(n, <<x>> \o members) = <<Named(key, Renderings[n][tree])>> \o Keyed(n, members)
  BY <1>3, <1>5, <1>6, Zenon
<1> QED
  BY <1>2, <1>7, Zenon DEF S, KeysInFront

(* The texts of the elements are texts, *)
LEMMA WordedAreTexts ==
  ASSUME NEW n \in Nat, NEW trees \in Seq(TreesTo[n])
  PROVE  Worded(n, trees) \in Seq(AnyText)
<1>1. \A k \in DOMAIN trees : Renderings[n][trees[k]] \in AnyText
  BY RenderingsAreTexts
<1> QED
  BY <1>1 DEF Worded

(* and those of the members. *)
LEMMA KeyedAreTexts ==
  ASSUME NEW n \in Nat, NEW members \in Seq(Strings \X TreesTo[n])
  PROVE  Keyed(n, members) \in Seq(AnyText)
<1>1. ASSUME NEW k \in DOMAIN members
      PROVE  Named(members[k][1], Renderings[n][members[k][2]]) \in AnyText
  <2>1. members[k][1] \in Strings /\ Renderings[n][members[k][2]] \in AnyText
    BY RenderingsAreTexts
  <2> QED
    BY <2>1, NamedIsText, Zenon
<1> QED
  BY <1>1 DEF Keyed

(* Trees may be taken to nest deeper. *)
LEMMA WordedDeeper ==
  ASSUME NEW n \in Nat, NEW trees \in Seq(TreesTo[n])
  PROVE  trees \in Seq(TreesTo[n + 1]) /\ Worded(n + 1, trees) = Worded(n, trees)
<1>1. \A k \in DOMAIN trees : /\ trees[k] \in TreesTo[n + 1]
                              /\ Renderings[n + 1][trees[k]] = Renderings[n][trees[k]]
  BY TreesMonotone
<1> QED
  BY <1>1 DEF Worded

(* Nor do those of the members. *)
LEMMA KeyedDeeper ==
  ASSUME NEW n \in Nat, NEW members \in Seq(Strings \X TreesTo[n])
  PROVE  members \in Seq(Strings \X TreesTo[n + 1]) /\ Keyed(n + 1, members) = Keyed(n, members)
<1>1. \A k \in DOMAIN members :
        /\ members[k] \in Strings \X TreesTo[n + 1]
        /\ Renderings[n + 1][members[k][2]] = Renderings[n][members[k][2]]
  BY TreesMonotone
<1>2. Keyed(n + 1, members) = Keyed(n, members)
  BY <1>1 DEF Keyed
<1> QED
  BY <1>1, <1>2

(* How each form of tree is written with its children's texts. *)
LEMMA TreeTexts ==
  ASSUME NEW n \in Nat
  PROVE  /\ \A token \in Scalars :
              /\ <<"scalar", token>> \in TreesTo[n + 1]
              /\ Renderings[n + 1][<<"scalar", token>>] = <<token>>
         /\ \A text \in Strings :
              /\ <<"string", text>> \in TreesTo[n + 1]
              /\ Renderings[n + 1][<<"string", text>>] = <<"Q">> \o text \o <<"Q">>
         /\ \A trees \in Seq(TreesTo[n]) :
              /\ <<"array", trees>> \in TreesTo[n + 1]
              /\ Renderings[n + 1][<<"array", trees>>]
                   = <<"[">> \o Listed(Worded(n, trees)) \o <<"]">>
         /\ \A members \in Seq(Strings \X TreesTo[n]) :
              /\ <<"object", members>> \in TreesTo[n + 1]
              /\ Renderings[n + 1][<<"object", members>>]
                   = <<"{">> \o Listed(Keyed(n, members)) \o <<"}">>
<1>1. /\ \A x \in Scalars : <<"scalar", x>> \in TreesOver(Strings, TreesTo[n])
      /\ \A x \in Strings : <<"string", x>> \in TreesOver(Strings, TreesTo[n])
      /\ \A x \in Seq(TreesTo[n]) : <<"array", x>> \in TreesOver(Strings, TreesTo[n])
      /\ \A x \in Seq(Strings \X TreesTo[n]) :
           <<"object", x>> \in TreesOver(Strings, TreesTo[n])
  BY DEF TreesOver
<1>2. TreesTo[n + 1] = TreesOver(Strings, TreesTo[n])
  BY TreesUnroll
<1>3. \A tree \in TreesTo[n + 1] : Renderings[n + 1][tree] = Text(Renderings[n], tree)
  BY RenderingsUnroll
<1>4. \A x : /\ Text(Renderings[n], <<"scalar", x>>) = <<x>>
             /\ Text(Renderings[n], <<"string", x>>) = <<"Q">> \o x \o <<"Q">>
             /\ Text(Renderings[n], <<"array", x>>)
                  = <<"[">> \o Listed(Worded(n, x)) \o <<"]">>
             /\ Text(Renderings[n], <<"object", x>>)
                  = <<"{">> \o Listed(Keyed(n, x)) \o <<"}">>
  BY TextOf, Zenon DEF Worded, Keyed
<1> QED
  BY <1>1, <1>2, <1>3, <1>4, Zenon

(* What parse_string leaves when it is called at a quote of the line: it   *)
(* read the string, or ran over the end of the line.                       *)
TextRead(buf, L, p, r, text) ==
  /\ r.tree = <<"string", text>>
  /\ \/ /\ r.p \in p + 1..L + 1 /\ Closed(Read(buf, p, r.p))
        /\ Read(buf, p, r.p) = <<"Q">> \o text \o <<"Q">>
     \/ /\ r.p = L + 2 /\ ~Closed(Read(buf, p, L + 1))
        /\ Read(buf, p, L + 1) = <<"Q">> \o text

(* What parse_string leaves at a quote: nothing, or such a text. *)
StringLeft(buf, L, p, r) ==
  /\ r.p \in Nat /\ r.used \in Nat
  /\ \/ r.tree = NoTree /\ r.p = p
     \/ \E text \in Strings : TextRead(buf, L, p, r, text)

(* A string inside the line is between its quotes; one that is not closed  *)
(* takes the line to its NUL, or reads on into what an earlier line left.  *)
LEMMA StringRead ==
  ASSUME NEW buf, NEW L, Stored(buf, L), NEW limit \in Nat, NEW used \in Nat,
         NEW p \in 1..L + 1, At(buf, p) = "Q"
  PROVE  \E r : r = ParseString(buf, limit, p, used) /\ StringLeft(buf, L, p, r)
<1>1. /\ Len(buf) \in Nat /\ L \in Nat /\ L + 1 <= Len(buf) /\ buf \in AnyText
      /\ \A i \in 1..L : At(buf, i) = buf[i] /\ buf[i] # "NUL" /\ buf[i] \in Tokens
      /\ At(buf, L + 1) = "NUL"
  BY Marked
<1>2. p \in 1..L /\ p \in Nat /\ buf[p] = "Q"
  BY Marked
<1>3. PICK r, end, text :
        /\ r = ParseString(buf, limit, p, used)
        /\ end = StringEnd(buf, p)
        /\ text = SubSeq(buf, p + 1, end - 1)
        /\ end \in p + 1..Len(buf) + 1 /\ At(buf, end) \in {"Q", "NUL"} /\ text \in Strings
        /\ \/ r.p = p /\ r.used = used /\ r.tree = NoTree
           \/ /\ r.p = end + 1 /\ r.used = used + Kept(text) /\ r.used \in Nat
              /\ r.tree = <<"string", text>>
  <2>1. buf \in AnyText /\ p \in Nat
    BY <1>1, <1>2
  <2> QED
    BY <2>1, StringSteps
<1>4. end \in p + 1..L + 1
  <2>1. \A i \in p + 1..end - 1 : At(buf, i) \notin {"Q", "NUL"}
    BY <1>1, <1>2, <1>3, StringEnds
  <2>2. CASE end > L + 1
    <3>1. L + 1 \in p + 1..end - 1
      BY <1>1, <1>2, <1>3, <2>2
    <3> QED
      BY <1>1, <2>1, <3>1
  <2> QED
    BY <1>1, <1>2, <1>3, <2>2
<1>5. Read(buf, p, end) = <<"Q">> \o text /\ Read(buf, p, end) \in AnyText
  <2>1. text = Read(buf, p + 1, end)
    BY <1>3 DEF Read
  <2>2. /\ p >= 1 /\ p <= p + 1 /\ p + 1 <= Len(buf) + 1 /\ p + 1 \in Nat
        /\ end \in p + 1..Len(buf) + 1 /\ p <= Len(buf) /\ p <= end /\ end \in Nat
        /\ end <= Len(buf) + 1 /\ p + 1 <= end
    BY <1>1, <1>2, <1>4
  <2>3. Read(buf, p, p + 1) \o Read(buf, p + 1, end) = Read(buf, p, end)
    <3>1. Meets(buf, p, p + 1, end)
      BY <1>1, <1>2, <2>2, ReadJoins, Zenon
    <3> QED
      BY <3>1, Zenon DEF Meets
  <2>4. Read(buf, p, p + 1) = <<buf[p]>>
    <3>1. p \in 1..Len(buf)
      BY <1>1, <1>2
    <3> QED
      BY <1>1, <3>1, ReadOne
  <2>5. Read(buf, p, end) \in AnyText
    BY <1>1, <1>2, <2>2, ReadIsText
  <2> QED
    BY <1>2, <2>1, <2>3, <2>4, <2>5, Zenon
<1>6. ~Closed(Read(buf, p, end))
  <2>1. text \in AnyText /\ Closed(text) /\ ~Closed(<<"Q">>) /\ <<"Q">> \in AnyText
    BY <1>3, MarksAreTokens, OneToken, ClosedTokens
  <2>2. Closed(<<"Q">> \o text) <=> (Closed(<<"Q">>) <=> Closed(text))
    BY <2>1, ClosedJoins, Zenon
  <2> QED
    BY <1>5, <2>1, <2>2, Zenon
<1>7. CASE r.p = p /\ r.used = used /\ r.tree = NoTree
  BY <1>2, <1>3, <1>7, Zenon DEF StringLeft
<1>8. CASE r.tree = <<"string", text>> /\ r.p = end + 1 /\ r.used \in Nat
  <2>1. r.p \in Nat
    BY <1>2, <1>4, <1>8
  <2>2. CASE end = L + 1
    <3>1. r.p = L + 2
      BY <1>1, <1>8, <2>2
    <3>2. TextRead(buf, L, p, r, text)
      BY <1>5, <1>6, <1>8, <2>2, <3>1, Zenon DEF TextRead
    <3> QED
      BY <1>3, <1>8, <2>1, <3>2, Zenon DEF StringLeft
  <2>3. CASE end # L + 1
    <3>1. end \in 1..L /\ r.p \in p + 1..L + 1
      <4>1. L \in Nat /\ p \in Nat
        BY <1>1, <1>2, Zenon
      <4>2. end \in 1..L /\ end + 1 \in p + 1..L + 1
        BY <1>4, <2>3, <4>1
      <4> QED
        BY <1>8, <4>2, Zenon
    <3>2. buf[end] = "Q"
      BY <1>1, <1>3, <3>1
    <3>3. /\ end \in Nat /\ end <= Len(buf) /\ end + 1 \in Nat /\ p >= 1
          /\ p <= end /\ end <= end + 1 /\ end + 1 <= Len(buf) + 1
      BY <1>1, <1>2, <1>4, <3>1
    <3>4. Read(buf, p, end) \o Read(buf, end, end + 1) = Read(buf, p, end + 1)
      <4>1. Meets(buf, p, end, end + 1)
        BY <1>1, <1>2, <3>3, ReadJoins, Zenon
      <4> QED
        BY <4>1, Zenon DEF Meets
    <3>5. Read(buf, end, end + 1) = <<buf[end]>>
      <4>1. end \in 1..Len(buf)
        BY <1>1, <3>1
      <4> QED
        BY <1>1, <4>1, ReadOne
    <3>6. Read(buf, p, end + 1) = <<"Q">> \o text \o <<"Q">>
      BY <1>5, <3>2, <3>4, <3>5, Zenon
    <3>7. Closed(Read(buf, p, end + 1))
      <4>1. ~Closed(<<"Q">>) /\ <<"Q">> \in AnyText
        BY OneToken, ClosedTokens, Zenon
      <4>2. PICK x, y : x = Read(buf, p, end) /\ y = <<"Q">>
        OBVIOUS
      <4>3. Closed(x \o y) <=> (Closed(x) <=> Closed(y))
        BY <1>5, <4>1, <4>2, ClosedJoins, Zenon
      <4> QED
        BY <1>6, <3>2, <3>4, <3>5, <4>1, <4>2, <4>3, Zenon
    <3>8. TextRead(buf, L, p, r, text)
      BY <1>8, <3>1, <3>6, <3>7, Zenon DEF TextRead
    <3> QED
      BY <1>3, <1>8, <2>1, <3>8, Zenon DEF StringLeft
  <2> QED
    BY <2>2, <2>3
<1> QED
  BY <1>3, <1>7, <1>8, Zenon

(***************************************************************************)
(* What the functions leave, when they are called in the line at p: they   *)
(* took the text up to where they stopped, or they ran over the end of the *)
(* line inside a string.                                                   *)
(***************************************************************************)
ValueRead(n, buf, L, p, r) ==
  \/ r.p = Null
  \/ r.p = p /\ At(buf, p) = "Q"
  \/ /\ r.p \in p + 1..L + 1 /\ Closed(Read(buf, p, r.p))
     /\ r.tree \in TreesTo[n] /\ Renderings[n][r.tree] = Read(buf, p, r.p)
  \/ /\ r.p >= L + 2 /\ ~Closed(Read(buf, p, L + 1))
     /\ Clean(buf, L) =>
          /\ r.p = L + 2
          /\ \E text \in Strings : /\ r.tree = <<"string", text>>
                                   /\ Read(buf, p, L + 1) = <<"Q">> \o text

(* What the loop of parse_array leaves: nothing, the part of the line it   *)
(* read as the rest of a list with its bracket, or a place beyond the      *)
(* line, which takes an open string and an unclean remainder.              *)
ElementsRead(n, buf, L, p, r) ==
  \/ r.p = Null
  \/ /\ r.p \in p + 1..L + 1 /\ Closed(Read(buf, p, r.p))
     /\ \E trees \in Seq(TreesTo[n]) :
          /\ trees # <<>> /\ r.tree = <<"array", trees>>
          /\ Listed(Worded(n, trees)) \o <<"]">> = Read(buf, p, r.p)
  \/ r.p >= L + 2 /\ ~Closed(Read(buf, p, L + 1)) /\ ~Clean(buf, L)

(* The same for parse_object. *)
MembersRead(n, buf, L, p, r) ==
  \/ r.p = Null
  \/ /\ r.p \in p + 1..L + 1 /\ Closed(Read(buf, p, r.p))
     /\ \E members \in Seq(Strings \X TreesTo[n]) :
          /\ members # <<>> /\ r.tree = <<"object", members>>
          /\ Listed(Keyed(n, members)) \o <<"}">> = Read(buf, p, r.p)
  \/ r.p >= L + 2 /\ ~Closed(Read(buf, p, L + 1)) /\ ~Clean(buf, L)

(* If the string open at the end of the line begins behind q, it is open   *)
(* for the whole of the line too.                                          *)
LEMMA OpenBehind ==
  ASSUME NEW buf, NEW L, Stored(buf, L), NEW p \in 1..L + 1, NEW q \in p..L,
         Closed(Read(buf, p, q)), buf[q] # "Q", ~Closed(Read(buf, q + 1, L + 1))
  PROVE  ~Closed(Read(buf, p, L + 1))
<1>1. /\ Len(buf) \in Nat /\ L \in Nat /\ L + 1 <= Len(buf) /\ buf \in AnyText
      /\ \A i \in 1..L : At(buf, i) = buf[i] /\ buf[i] # "NUL" /\ buf[i] \in Tokens
  BY Marked
<1>2. /\ p \in Nat /\ q \in Nat /\ p >= 1 /\ p <= q /\ q <= Len(buf) + 1 /\ q <= Len(buf)
      /\ q + 1 \in Nat /\ q + 1 >= 1 /\ q <= q + 1 /\ q + 1 <= Len(buf) + 1 /\ q \in 1..L
      /\ q >= 1 /\ L + 1 \in q + 1..Len(buf) + 1 /\ L + 1 \in q..Len(buf) + 1 /\ L + 1 \in Nat
      /\ q + 1 <= L + 1 /\ q <= L + 1 /\ L + 1 <= Len(buf) + 1
  BY <1>1
<1>3. PICK a, b, c : /\ a = Read(buf, p, q) /\ b = Read(buf, q, q + 1)
                    /\ c = Read(buf, q + 1, L + 1)
  OBVIOUS
<1>4. Read(buf, p, q) \o Read(buf, q, L + 1) = Read(buf, p, L + 1)
  <2>1. Meets(buf, p, q, L + 1)
    BY <1>1, <1>2, ReadJoins, Zenon
  <2> QED
    BY <2>1, Zenon DEF Meets
<1>5. Read(buf, q, q + 1) \o Read(buf, q + 1, L + 1) = Read(buf, q, L + 1)
  <2>1. Meets(buf, q, q + 1, L + 1)
    BY <1>1, <1>2, ReadJoins, Zenon
  <2> QED
    BY <2>1, Zenon DEF Meets
<1>6. a \in AnyText /\ b \in AnyText /\ c \in AnyText
  <2>1. a \in AnyText
    BY <1>1, <1>2, <1>3, ReadIsText
  <2>2. b \in AnyText
    BY <1>1, <1>2, <1>3, ReadIsText
  <2>3. c \in AnyText
    BY <1>1, <1>2, <1>3, ReadIsText
  <2> QED
    BY <2>1, <2>2, <2>3
<1>7. Closed(b)
  <2>1. q \in 1..Len(buf) /\ buf[q] \in Tokens \ {"Q"}
    BY <1>1, <1>2
  <2>2. b = <<buf[q]>>
    BY <1>1, <1>3, <2>1, ReadOne
  <2> QED
    BY <2>1, <2>2, ClosedTokens, Zenon
<1>8. Closed(a) /\ ~Closed(c)
  BY <1>3, Zenon
<1>9. ~Closed(a \o (b \o c))
  <2>1. Closed(b \o c) <=> (Closed(b) <=> Closed(c))
    BY <1>6, ClosedJoins, Zenon
  <2>2. b \o c \in AnyText
    BY <1>6, Joins, Zenon
  <2>3. Closed(a \o (b \o c)) <=> (Closed(a) <=> Closed(b \o c))
    BY <1>6, <2>2, ClosedJoins, Zenon
  <2> QED
    BY <1>7, <1>8, <2>1, <2>3, Zenon
<1> QED
  BY <1>3, <1>4, <1>5, <1>9, Zenon

(* What was read with little nesting left is read with more. *)
LEMMA ReadDeeper ==
  ASSUME NEW n \in Nat, NEW buf, NEW L, NEW p, NEW r
  PROVE  /\ ElementsRead(n, buf, L, p, r) => ElementsRead(n + 1, buf, L, p, r)
         /\ MembersRead(n, buf, L, p, r) => MembersRead(n + 1, buf, L, p, r)
<1>1. \A trees \in Seq(TreesTo[n]) :
        trees \in Seq(TreesTo[n + 1]) /\ Worded(n + 1, trees) = Worded(n, trees)
  BY WordedDeeper
<1>2. \A members \in Seq(Strings \X TreesTo[n]) :
        members \in Seq(Strings \X TreesTo[n + 1]) /\ Keyed(n + 1, members) = Keyed(n, members)
  BY KeyedDeeper
<1>3. ElementsRead(n, buf, L, p, r) => ElementsRead(n + 1, buf, L, p, r)
  BY <1>1, Zenon DEF ElementsRead
<1>4. MembersRead(n, buf, L, p, r) => MembersRead(n + 1, buf, L, p, r)
  BY <1>2, Zenon DEF MembersRead
<1> QED
  BY <1>3, <1>4

(* What is known of the calls of one level when the next is looked at. *)
Told(n, buf, L, parse) ==
  /\ \A q, u \in Nat : /\ Advances(parse["value"][q][u], q)
                       /\ Advances(parse["elements"][q][u], q)
                       /\ Advances(parse["members"][q][u], q)
  /\ \A q \in 1..L + 1 : \A u \in Nat :
       /\ ValueRead(n, buf, L, q, parse["value"][q][u])
       /\ ElementsRead(n, buf, L, q, parse["elements"][q][u])
       /\ MembersRead(n, buf, L, q, parse["members"][q][u])

(* If the calls one level down read what they stand at, so does            *)
(* parse_array,                                                            *)
LEMMA ElementsStep ==
  ASSUME NEW n \in Nat, NEW buf, NEW L, Stored(buf, L), NEW limit \in Nat, NEW parse,
         Told(n, buf, L, parse), NEW p \in 1..L + 1, NEW used \in Nat
  PROVE  ElementsRead(n, buf, L, p, ParseElements(parse, buf, limit, p, used))
<1>1. /\ Len(buf) \in Nat /\ L \in Nat /\ L + 1 <= Len(buf) /\ buf \in AnyText
      /\ \A q \in 1..L + 1 : At(buf, q) # "NUL" => q \in 1..L /\ buf[q] = At(buf, q)
      /\ Clean(buf, L) => \A q \in Nat : q >= L + 2 => At(buf, q) = "NUL"
  BY Marked
<1>2. p \in Nat /\ p >= 1 /\ used + Item \in Nat
  BY <1>1, ItemIsNatural
<1>3. PICK element, rest, all : ElementsMade(parse, buf, limit, p, used, element, rest, all)
  BY ElementsSteps, Zenon
<1>4. Advances(element, p) /\ ValueRead(n, buf, L, p, element)
  BY <1>2, <1>3, Zenon DEF Told, ElementsMade
<1>5. element.p \in Nat /\ element.used \in Nat /\ element.p + 1 \in Nat
  BY <1>4 DEF Advances
<1>6. Advances(rest, element.p + 1)
  BY <1>3, <1>5, Zenon DEF Told, ElementsMade
<1>7. \A u : ElementsRead(n, buf, L, p, Refused(u))
  BY Refuses, Zenon DEF ElementsRead
<1>8. "," # "NUL" /\ "]" # "NUL" /\ "," # "Q" /\ "]" # "Q"
  OBVIOUS
<1>9. "," \in Tokens /\ "]" \in Tokens
  BY MarksAreTokens
<1> DEFINE Ends == At(buf, element.p) = "]"
                   /\ all = Left(element.p + 1, element.used, <<"array", <<element.tree>>>>)
           Goes == At(buf, element.p) = "," /\ all = Joined(element.tree, rest)
<1>10. CASE Ends
  <2>1. all.p = element.p + 1 /\ all.tree = <<"array", <<element.tree>>>>
    BY <1>10, Leaves
  <2>2. CASE element.p \in p + 1..L + 1 /\ Closed(Read(buf, p, element.p))
             /\ element.tree \in TreesTo[n]
             /\ Renderings[n][element.tree] = Read(buf, p, element.p)
    <3>1. element.p \in 1..L /\ buf[element.p] = "]"
      BY <1>1, <1>2, <1>8, <1>10, <2>2
    <3>2. p <= element.p /\ element.p <= Len(buf) /\ element.p + 1 \in p + 1..L + 1
      BY <1>1, <1>2, <2>2, <3>1
    <3>3. /\ Listed(<<Read(buf, p, element.p)>>) \o <<buf[element.p]>> = Read(buf, p, element.p + 1)
          /\ Closed(Read(buf, p, element.p + 1))
      BY <1>1, <1>2, <1>5, <1>8, <2>2, <3>1, <3>2, LastOfList
    <3>4. PICK trees : trees = <<element.tree>>
      OBVIOUS
    <3>5. /\ trees \in Seq(TreesTo[n]) /\ trees # <<>>
          /\ Worded(n, trees) = <<Read(buf, p, element.p)>>
      <4>1. PICK none : none = <<>> /\ none \in Seq(TreesTo[n])
        BY NoneIn, Zenon
      <4>2. WordsInFront(n, element.tree, none)
        BY <2>2, <4>1, WordedFirst, Zenon
      <4> QED
        BY <2>2, <3>4, <4>2, Zenon DEF WordsInFront
    <3>6. Listed(Worded(n, trees)) \o <<"]">> = Read(buf, p, element.p + 1)
      BY <3>1, <3>3, <3>5
    <3> QED
      BY <1>3, <2>1, <3>2, <3>3, <3>4, <3>5, <3>6, Zenon DEF ElementsRead, ElementsMade
  <2>3. CASE element.p >= L + 2 /\ ~Closed(Read(buf, p, L + 1))
    <3>1. ~Clean(buf, L)
      BY <1>1, <1>5, <1>8, <1>10, <2>3
    <3>2. all.p >= L + 2
      BY <1>1, <1>5, <2>1, <2>3
    <3> QED
      BY <1>3, <2>3, <3>1, <3>2, Zenon DEF ElementsRead, ElementsMade
  <2> QED
    BY <1>3, <1>4, <1>7, <1>8, <1>10, <2>2, <2>3, Zenon DEF ValueRead, ElementsMade
<1>11. CASE Goes
  <2>1. all.p = rest.p /\ (rest.tree # NoTree =>
          all.tree = <<rest.tree[1], <<element.tree>> \o rest.tree[2]>>)
    BY <1>11, JoinedLeaves
  <2>2. CASE element.p \in p + 1..L + 1 /\ Closed(Read(buf, p, element.p))
             /\ element.tree \in TreesTo[n]
             /\ Renderings[n][element.tree] = Read(buf, p, element.p)
    <3>0. InLine(buf, L, p, element.p, ",")
      <4>1. PICK e : e = element.p
        OBVIOUS
      <4>2. e \in p + 1..L + 1 /\ At(buf, e) = ","
        BY <1>11, <2>2, <4>1, Zenon
      <4>3. e \in p..L + 1
        BY <1>1, <1>2, <4>2, Later, Zenon
      <4> QED
        BY <1>8, <4>1, <4>2, <4>3, MarkInLine, Zenon
    <3>1. element.p \in 1..L /\ buf[element.p] = ","
      BY <3>0, Zenon DEF InLine
    <3>2. p <= element.p /\ element.p <= Len(buf) /\ element.p + 1 \in 1..L + 1
          /\ element.p \in p..L
      BY <3>0, Zenon DEF InLine
    <3>3. ElementsRead(n, buf, L, element.p + 1, rest)
      BY <1>3, <1>5, <3>2, Zenon DEF Told, ElementsMade
    <3>4. CASE rest.p = Null
      BY <1>3, <2>1, <3>4, Zenon DEF ElementsRead, ElementsMade
    <3>5. ASSUME rest.p \in (element.p + 1) + 1..L + 1,
                 Closed(Read(buf, element.p + 1, rest.p)),
                 NEW trees \in Seq(TreesTo[n]), trees # <<>>, rest.tree = <<"array", trees>>,
                 Listed(Worded(n, trees)) \o <<"]">> = Read(buf, element.p + 1, rest.p)
          PROVE  ElementsRead(n, buf, L, p, all)
      <4>1. rest.tree # NoTree /\ rest.tree[1] = "array" /\ rest.tree[2] = trees
        BY <3>5, TreesAreTrees, Zenon
      <4>2. PICK longer : longer = <<element.tree>> \o trees
        OBVIOUS
      <4>3. all.tree = <<"array", longer>>
        BY <2>1, <4>1, <4>2, Zenon
      <4>4. /\ Worded(n, trees) \in Seq(AnyText) /\ Worded(n, trees) # <<>>
            /\ longer \in Seq(TreesTo[n]) /\ longer # <<>>
            /\ Worded(n, longer) = <<Read(buf, p, element.p)>> \o Worded(n, trees)
        <5>1. WordsInFront(n, element.tree, trees)
          BY <2>2, <3>5, WordedFirst, Zenon
        <5> QED
          BY <2>2, <3>5, <4>2, <5>1, Zenon DEF WordsInFront
      <4>5. rest.p \in Nat /\ element.p + 1 <= rest.p /\ rest.p <= Len(buf) + 1
            /\ rest.p \in p + 1..L + 1
        <5>1. FurtherOn(Len(buf), L, p, element.p, rest.p)
          BY <1>1, <1>2, <3>2, <3>5, Further, Zenon
        <5> QED
          BY <5>1, Zenon DEF FurtherOn
      <4>6. /\ Listed(<<Read(buf, p, element.p)>> \o Worded(n, trees)) \o <<"]">>
                 = Read(buf, p, rest.p)
            /\ Closed(Read(buf, p, rest.p))
        BY <1>1, <1>2, <1>5, <1>9, <2>2, <3>1, <3>2, <3>5, <4>4, <4>5, MoreOfList
      <4>7. Listed(Worded(n, longer)) \o <<"]">> = Read(buf, p, rest.p)
        BY <4>4, <4>6, Zenon
      <4> QED
        BY <2>1, <4>3, <4>4, <4>5, <4>6, <4>7, Zenon DEF ElementsRead
    <3>6. CASE rest.p >= L + 2 /\ ~Closed(Read(buf, element.p + 1, L + 1)) /\ ~Clean(buf, L)
      <4>1. ~Closed(Read(buf, p, L + 1))
        BY <1>8, <2>2, <3>1, <3>2, <3>6, OpenBehind
      <4> QED
        BY <1>3, <2>1, <3>6, <4>1, Zenon DEF ElementsRead, ElementsMade
    <3> QED
      BY <1>3, <3>3, <3>4, <3>5, <3>6, Zenon DEF ElementsRead, ElementsMade
  <2>3. CASE element.p >= L + 2 /\ ~Closed(Read(buf, p, L + 1))
    <3>1. ~Clean(buf, L)
      BY <1>1, <1>5, <1>8, <1>11, <2>3
    <3>2. all.p = Null \/ all.p >= L + 2
      BY <1>1, <1>5, <1>6, <2>1, <2>3 DEF Advances
    <3> QED
      BY <1>3, <2>3, <3>1, <3>2, Zenon DEF ElementsRead, ElementsMade
  <2>4. element.p # Null => \/ element.p = p /\ At(buf, p) = "Q"
                            \/ /\ element.p \in p + 1..L + 1 /\ Closed(Read(buf, p, element.p))
                               /\ element.tree \in TreesTo[n]
                               /\ Renderings[n][element.tree] = Read(buf, p, element.p)
                            \/ element.p >= L + 2 /\ ~Closed(Read(buf, p, L + 1))
    BY <1>4, Zenon DEF ValueRead
  <2> QED
    BY <1>3, <1>7, <1>8, <1>11, <2>2, <2>3, <2>4, Zenon DEF ElementsMade
<1> QED
  BY <1>3, <1>7, <1>10, <1>11, Zenon DEF ElementsMade

(* What is known of a key and its value together: the text read is the one *)
(* written.                                                                *)
MemberSaid(n, buf, p, v, text, tree) ==
  /\ Read(buf, p, v) = Named(text, Renderings[n][tree])
  /\ Closed(Read(buf, p, v))

(* A member from its key on: its text, when it ends in the line. *)
LEMMA MemberRead ==
  ASSUME NEW n \in Nat, NEW buf, NEW L, Stored(buf, L), NEW p \in 1..L + 1,
         NEW k \in p + 1..L, buf[k] = ":", Closed(Read(buf, p, k)),
         NEW text \in Strings, Read(buf, p, k) = <<"Q">> \o text \o <<"Q">>,
         NEW v \in k + 2..L + 1, Closed(Read(buf, k + 1, v)),
         NEW tree \in TreesTo[n], Renderings[n][tree] = Read(buf, k + 1, v)
  PROVE  MemberSaid(n, buf, p, v, text, tree)
<1>1. Len(buf) \in Nat /\ L \in Nat /\ L + 1 <= Len(buf) /\ buf \in AnyText
  BY Marked
<1>2. /\ p \in Nat /\ k \in Nat /\ v \in Nat /\ p >= 1 /\ p <= k /\ k <= Len(buf)
      /\ k <= Len(buf) + 1 /\ k + 1 \in k..Len(buf) + 1 /\ v \in k..Len(buf) + 1 /\ k + 1 \in Nat
      /\ k >= 1 /\ k <= k + 1 /\ k + 1 <= Len(buf) + 1 /\ k + 1 >= 1 /\ k + 1 <= v /\ k <= v
      /\ v <= Len(buf) + 1 /\ v \in k + 1..Len(buf) + 1
  BY <1>1
<1>3. PICK x, y, z : x = Read(buf, p, k) /\ y = <<":">> /\ z = Read(buf, k + 1, v)
  OBVIOUS
<1>4. Read(buf, p, k) \o Read(buf, k, v) = Read(buf, p, v)
  <2>1. Meets(buf, p, k, v)
    BY <1>1, <1>2, ReadJoins, Zenon
  <2> QED
    BY <2>1, Zenon DEF Meets
<1>5. Read(buf, k, k + 1) \o Read(buf, k + 1, v) = Read(buf, k, v)
  <2>1. Meets(buf, k, k + 1, v)
    BY <1>1, <1>2, ReadJoins, Zenon
  <2> QED
    BY <2>1, Zenon DEF Meets
<1>6. Read(buf, k, k + 1) = y
  <2>1. k \in 1..Len(buf)
    BY <1>2
  <2>2. Read(buf, k, k + 1) = <<buf[k]>>
    BY <1>1, <2>1, ReadOne
  <2> QED
    BY <1>3, <2>2, Zenon
<1>7. x \in AnyText /\ y \in AnyText /\ z \in AnyText /\ Closed(y)
  <2>1. x \in AnyText
    BY <1>1, <1>2, <1>3, ReadIsText
  <2>2. z \in AnyText
    BY <1>1, <1>2, <1>3, ReadIsText
  <2>3. ":" \in Tokens \ {"Q"}
    BY MarksAreTokens
  <2>4. y \in AnyText /\ Closed(y)
    BY <1>3, <2>3, OneToken, ClosedTokens, Zenon
  <2> QED
    BY <2>1, <2>2, <2>4
<1>8. Read(buf, p, v) = x \o (y \o z)
  BY <1>3, <1>4, <1>5, <1>6, Zenon
<1>9. Closed(Read(buf, p, v))
  <2>1. Closed(x) /\ Closed(z)
    BY <1>3, Zenon
  <2>2. Closed(y \o z) <=> (Closed(y) <=> Closed(z))
    BY <1>7, ClosedJoins, Zenon
  <2>3. y \o z \in AnyText
    BY <1>7, Joins, Zenon
  <2>4. Closed(x \o (y \o z)) <=> (Closed(x) <=> Closed(y \o z))
    BY <1>7, <2>3, ClosedJoins, Zenon
  <2> QED
    BY <1>7, <1>8, <2>1, <2>2, <2>4, Zenon
<1>10. Read(buf, p, v) = Named(text, z)
  <2>1. PICK d, e : d = <<"Q">> /\ e = <<"Q", ":">>
    OBVIOUS
  <2>2. d \in AnyText /\ text \in AnyText /\ d \o y = e
    <3>1. d \in AnyText /\ text \in AnyText
      BY <2>1, OneToken, MarksAreTokens, Zenon
    <3> QED
      BY <1>3, <2>1, <3>1, TwoTokens, Zenon
  <2>3. x = (d \o text) \o d /\ d \o text \in AnyText
    BY <1>3, <2>1, <2>2, Joins, Zenon
  <2>4. ((d \o text) \o d) \o (y \o z) = (d \o text) \o (d \o (y \o z))
    <3>1. PICK a, w : a = d \o text /\ w = y \o z
      OBVIOUS
    <3>2. a \in AnyText /\ w \in AnyText
      BY <1>7, <2>3, <3>1, Joins, Zenon
    <3>3. Grouped(a, d, w)
      BY <2>2, <3>2, ThreeTexts, Zenon
    <3> QED
      BY <3>1, <3>3, Zenon DEF Grouped
  <2>5. d \o (y \o z) = e \o z
    <3>1. Grouped(d, y, z)
      BY <1>7, <2>2, ThreeTexts, Zenon
    <3> QED
      BY <2>2, <3>1, Zenon DEF Grouped
  <2>6. (d \o text) \o (e \o z) = ((d \o text) \o e) \o z
    <3>1. PICK a : a = d \o text
      OBVIOUS
    <3>2. a \in AnyText /\ e \in AnyText
      BY <1>7, <2>2, <2>3, <3>1, Joins, Zenon
    <3>3. Grouped(a, e, z)
      BY <1>7, <3>2, ThreeTexts, Zenon
    <3> QED
      BY <3>1, <3>3, Zenon DEF Grouped
  <2> QED
    BY <1>8, <2>1, <2>3, <2>4, <2>5, <2>6, Zenon DEF Named
<1> QED
  BY <1>3, <1>9, <1>10, Zenon DEF MemberSaid

(* so does parse_object, *)
LEMMA MembersStep ==
  ASSUME NEW n \in Nat, NEW buf, NEW L, Stored(buf, L), NEW limit \in Nat, NEW parse,
         Told(n, buf, L, parse), NEW p \in 1..L + 1, NEW used \in Nat
  PROVE  MembersRead(n, buf, L, p, ParseMembers(parse, buf, limit, p, used))
<1>1. /\ Len(buf) \in Nat /\ L \in Nat /\ L + 1 <= Len(buf) /\ buf \in AnyText
      /\ \A q \in 1..L + 1 : At(buf, q) # "NUL" => q \in 1..L /\ buf[q] = At(buf, q)
      /\ Clean(buf, L) => \A q \in Nat : q >= L + 2 => At(buf, q) = "NUL"
  BY Marked
<1>2. p \in Nat /\ p >= 1 /\ used + Item \in Nat
  BY <1>1, ItemIsNatural
<1>3. PICK key, value, rest, all :
        MembersMade(parse, buf, limit, p, used, key, value, rest, all)
  BY MembersSteps, Zenon
<1>4. \A u : MembersRead(n, buf, L, p, Refused(u))
  BY Refuses, Zenon DEF MembersRead
<1>5. /\ "," # "NUL" /\ "}" # "NUL" /\ "," # "Q" /\ "}" # "Q" /\ ":" # "NUL" /\ ":" # "Q"
      /\ NoTree # <<"Q">>
  BY DEF NoTree
<1>6. "," \in Tokens /\ "}" \in Tokens
  BY MarksAreTokens
<1> DEFINE Begins == /\ At(buf, p) = "Q" /\ key.tree # NoTree
                     /\ At(buf, key.p) = ":" /\ value.p # Null
           member == <<key.tree[2], value.tree>>
           Ends == At(buf, value.p) = "}"
                   /\ all = Left(value.p + 1, value.used, <<"object", <<member>>>>)
           Goes == At(buf, value.p) = "," /\ all = Joined(member, rest)
<1>7. CASE Begins /\ (Ends \/ Goes)
  <2>1. StringLeft(buf, L, p, key)
    <3>1. \E r : r = ParseString(buf, limit, p, used + Item) /\ StringLeft(buf, L, p, r)
      BY <1>2, <1>7, StringRead, Zenon
    <3> QED
      BY <1>3, <3>1, Zenon DEF MembersMade
  <2>2. /\ key.p \in Nat /\ key.used \in Nat
        /\ \E text \in Strings : TextRead(buf, L, p, key, text)
    BY <1>7, <2>1, Zenon DEF StringLeft
  <2> PICK text \in Strings : TextRead(buf, L, p, key, text)
    BY <2>2, Zenon
  <2>0. /\ key.tree = <<"string", text>>
         /\ \/ /\ key.p \in p + 1..L + 1 /\ Closed(Read(buf, p, key.p))
               /\ Read(buf, p, key.p) = <<"Q">> \o text \o <<"Q">>
            \/ /\ key.p = L + 2 /\ ~Closed(Read(buf, p, L + 1))
               /\ Read(buf, p, L + 1) = <<"Q">> \o text
    BY Zenon DEF TextRead
  <2>3. key.tree[2] = text
    BY <2>0
  <2>4. key.p + 1 \in Nat
    BY <2>2
  <2>5. Advances(value, key.p + 1)
    BY <1>3, <2>2, <2>4, Zenon DEF Told, MembersMade
  <2>6. value.p \in Nat /\ value.used \in Nat /\ value.p + 1 \in Nat /\ value.p >= key.p + 1
    <3>1. value.p \in Nat /\ value.used \in Nat /\ value.p >= key.p + 1
      BY <1>7, <2>5, Zenon DEF Advances
    <3> QED
      BY <3>1
  <2>7. Advances(rest, value.p + 1)
    BY <1>3, <2>6, Zenon DEF Told, MembersMade
  <2>8. /\ Ends => all.p = value.p + 1 /\ all.tree = <<"object", <<member>>>>
        /\ Goes => /\ all.p = rest.p
                   /\ rest.tree # NoTree =>
                        all.tree = <<rest.tree[1], <<member>> \o rest.tree[2]>>
    <3>1. LeftIs(Left(value.p + 1, value.used, <<"object", <<member>>>>),
                 value.p + 1, value.used, <<"object", <<member>>>>)
      BY LeavesThat, Zenon
    <3>2. JoinedIs(Joined(member, rest), member, rest)
      BY JoinedThat, Zenon
    <3> HIDE DEF member
    <3>3. ASSUME Ends PROVE all.p = value.p + 1 /\ all.tree = <<"object", <<member>>>>
      BY <3>1, <3>3, Zenon DEF LeftIs
    <3>4. ASSUME Goes
          PROVE  /\ all.p = rest.p
                 /\ rest.tree # NoTree =>
                      all.tree = <<rest.tree[1], <<member>> \o rest.tree[2]>>
      BY <3>2, <3>4, Zenon DEF JoinedIs
    <3> QED
      BY <3>3, <3>4, Zenon
  <2>9. At(buf, value.p) # "NUL" /\ At(buf, value.p) # "Q"
    BY <1>5, <1>7
  (* The value ends behind the line. *)
  <2>10. ASSUME value.p >= L + 2, ~Closed(Read(buf, p, L + 1))
         PROVE  MembersRead(n, buf, L, p, all)
    <3>1. ~Clean(buf, L)
      BY <1>1, <2>6, <2>9, <2>10
    <3>2. all.p = Null \/ all.p >= L + 2
      <4>1. Goes => all.p = Null \/ all.p >= L + 2
        <5>1. rest.p \in Nat /\ (rest.p = Null \/ rest.p >= value.p + 1)
          BY <2>7 DEF Advances
        <5>2. ASSUME Goes PROVE all.p = rest.p
          BY <2>8, <5>2, Zenon
        <5> HIDE DEF Goes
        <5> QED
          BY <1>1, <2>6, <2>10, <5>1, <5>2
      <4>2. Ends => all.p >= L + 2
        <5>1. ASSUME Ends PROVE all.p = value.p + 1
          BY <2>8, <5>1, Zenon
        <5> HIDE DEF Ends
        <5> QED
          BY <1>1, <2>6, <2>10, <5>1
      <4> QED
        BY <1>7, <4>1, <4>2, Zenon
    <3> QED
      BY <2>10, <3>1, <3>2, Zenon DEF MembersRead
  <2>11. CASE key.p = L + 2 /\ ~Closed(Read(buf, p, L + 1))
    <3>1. value.p >= L + 2
      BY <1>1, <2>6, <2>11
    <3> QED
      BY <1>3, <2>10, <2>11, <3>1, Zenon DEF MembersMade
  <2>12. CASE key.p \in p + 1..L + 1 /\ Closed(Read(buf, p, key.p))
              /\ Read(buf, p, key.p) = <<"Q">> \o text \o <<"Q">>
    <3>1. key.p \in p + 1..L /\ buf[key.p] = ":" /\ key.p + 1 \in 1..L + 1 /\ key.p \in p..L
      <4>1. PICK k : k = key.p
        OBVIOUS
      <4>2. k \in p + 1..L + 1 /\ At(buf, k) = ":"
        BY <1>7, <2>12, <4>1, Zenon
      <4>3. k \in p..L + 1
        BY <1>1, <1>2, <4>2
      <4>4. InLine(buf, L, p, k, ":")
        BY <1>5, <4>2, <4>3, MarkInLine, Zenon
      <4>5. k \in p + 1..L
        BY <1>1, <1>2, <4>2, <4>4 DEF InLine
      <4> QED
        BY <4>1, <4>4, <4>5, Zenon DEF InLine
    <3>2. ValueRead(n, buf, L, key.p + 1, value)
      BY <1>3, <2>2, <3>1, Zenon DEF Told, MembersMade
    <3>3. \/ value.p = key.p + 1 /\ At(buf, key.p + 1) = "Q"
          \/ /\ value.p \in (key.p + 1) + 1..L + 1 /\ Closed(Read(buf, key.p + 1, value.p))
             /\ value.tree \in TreesTo[n]
             /\ Renderings[n][value.tree] = Read(buf, key.p + 1, value.p)
          \/ value.p >= L + 2 /\ ~Closed(Read(buf, key.p + 1, L + 1))
      BY <1>7, <3>2, Zenon DEF ValueRead
    <3>4. CASE value.p = key.p + 1 /\ At(buf, key.p + 1) = "Q"
      BY <2>9, <3>4
    <3>5. CASE value.p >= L + 2 /\ ~Closed(Read(buf, key.p + 1, L + 1))
      <4>1. ~Closed(Read(buf, p, L + 1))
        BY <1>5, <2>12, <3>1, <3>5, OpenBehind
      <4> QED
        BY <1>3, <2>10, <3>5, <4>1, Zenon DEF MembersMade
    <3>6. CASE /\ value.p \in (key.p + 1) + 1..L + 1 /\ Closed(Read(buf, key.p + 1, value.p))
               /\ value.tree \in TreesTo[n]
               /\ Renderings[n][value.tree] = Read(buf, key.p + 1, value.p)
      <4> DEFINE v == value.p
                 name == Named(text, Renderings[n][value.tree])
      <4>1. v \in key.p + 2..L + 1 /\ v \in p..L + 1 /\ v \in 1..L + 1
        <5>1. L \in Nat /\ p \in Nat
          BY <1>1, <1>2, Zenon
        <5> QED
          BY <3>1, <3>6, <5>1, TwoOn, Zenon
      <4>2. Read(buf, p, v) = name /\ Closed(Read(buf, p, v))
        <5>1. MemberSaid(n, buf, p, v, text, value.tree)
          BY <2>12, <3>1, <3>6, <4>1, MemberRead, Zenon
        <5> QED
          BY <5>1, Zenon DEF MemberSaid
      <4>3. InLine(buf, L, p, v, At(buf, v))
        BY <2>9, <4>1, MarkInLine, Zenon
      <4>4. /\ p <= v /\ v <= Len(buf) /\ v + 1 \in p + 1..L + 1 /\ v + 1 \in 1..L + 1
            /\ v \in p..L /\ v \in Nat /\ buf[v] # "Q"
        BY <2>9, <4>3, Zenon DEF InLine
      <4>5. CASE Ends
        <5>1. all.p = v + 1 /\ all.tree = <<"object", <<member>>>>
          BY <2>8, <4>5, Zenon
        <5>2. /\ Listed(<<Read(buf, p, v)>>) \o <<buf[v]>> = Read(buf, p, v + 1)
              /\ Closed(Read(buf, p, v + 1))
          BY <1>1, <1>2, <4>2, <4>4, LastOfList
        <5>3. PICK members : members = <<member>>
          OBVIOUS
        <5>4. PICK none : none = <<>> /\ none \in Seq(Strings \X TreesTo[n])
          BY NoneIn, Zenon
        <5>5. /\ members \in Seq(Strings \X TreesTo[n]) /\ members # <<>>
              /\ Keyed(n, members) = <<name>>
          <6>1. KeysInFront(n, text, value.tree, none)
            BY <3>6, <5>4, KeyedFirst, Zenon
          <6> QED
            BY <2>3, <5>3, <6>1, Zenon DEF KeysInFront
        <5>6. Listed(Keyed(n, members)) \o <<"}">> = Read(buf, p, v + 1)
          <6>1. <<buf[v]>> = <<"}">>
            BY <4>3, <4>5, Zenon DEF InLine
          <6> QED
            BY <4>2, <5>2, <5>5, <6>1, Zenon
        <5>7. all.tree = <<"object", members>>
          BY <5>1, <5>3, Zenon
        <5> QED
          BY <1>3, <4>4, <5>1, <5>2, <5>5, <5>6, <5>7, Zenon DEF MembersRead, MembersMade
      <4>6. CASE Goes
        <5>1. all.p = rest.p /\ (rest.tree # NoTree =>
                all.tree = <<rest.tree[1], <<member>> \o rest.tree[2]>>)
          BY <2>8, <4>6, Zenon
        <5>2. MembersRead(n, buf, L, v + 1, rest)
          BY <1>3, <2>6, <4>4, Zenon DEF Told, MembersMade
        <5>3. CASE rest.p = Null
          BY <1>3, <5>1, <5>3, Zenon DEF MembersRead, MembersMade
        <5>4. ASSUME rest.p \in (v + 1) + 1..L + 1, Closed(Read(buf, v + 1, rest.p)),
                     NEW members \in Seq(Strings \X TreesTo[n]), members # <<>>,
                     rest.tree = <<"object", members>>,
                     Listed(Keyed(n, members)) \o <<"}">> = Read(buf, v + 1, rest.p)
              PROVE  MembersRead(n, buf, L, p, all)
          <6>1. rest.tree # NoTree /\ rest.tree[1] = "object" /\ rest.tree[2] = members
            BY <5>4, TreesAreTrees, Zenon
          <6>2. PICK longer : longer = <<member>> \o members
            OBVIOUS
          <6>3. all.tree = <<"object", longer>>
            BY <5>1, <6>1, <6>2, Zenon
          <6>4. /\ Keyed(n, members) \in Seq(AnyText) /\ Keyed(n, members) # <<>>
                /\ longer \in Seq(Strings \X TreesTo[n]) /\ longer # <<>>
                /\ Keyed(n, longer) = <<name>> \o Keyed(n, members)
            <7>1. KeysInFront(n, text, value.tree, members)
              BY <3>6, <5>4, KeyedFirst, Zenon
            <7> QED
              BY <2>3, <5>4, <6>2, <7>1, Zenon DEF KeysInFront
          <6>5. rest.p \in Nat /\ v + 1 <= rest.p /\ rest.p <= Len(buf) + 1
                /\ rest.p \in p + 1..L + 1
            <7>1. FurtherOn(Len(buf), L, p, v, rest.p)
              BY <1>1, <1>2, <4>4, <5>4, Further, Zenon
            <7> QED
              BY <7>1, Zenon DEF FurtherOn
          <6>6. buf[v] = ","
            BY <4>3, <4>6, Zenon DEF InLine
          <6>7. /\ Listed(<<Read(buf, p, v)>> \o Keyed(n, members)) \o <<"}">>
                     = Read(buf, p, rest.p)
                /\ Closed(Read(buf, p, rest.p))
            BY <1>1, <1>2, <1>6, <4>2, <4>4, <5>4, <6>4, <6>5, <6>6, MoreOfList
          <6>8. Listed(Keyed(n, longer)) \o <<"}">> = Read(buf, p, rest.p)
            BY <4>2, <6>4, <6>7, Zenon
          <6> QED
            BY <5>1, <6>3, <6>4, <6>5, <6>7, <6>8, Zenon DEF MembersRead
        <5>5. CASE rest.p >= L + 2 /\ ~Closed(Read(buf, v + 1, L + 1)) /\ ~Clean(buf, L)
          <6>1. ~Closed(Read(buf, p, L + 1))
            BY <4>2, <4>4, <5>5, OpenBehind
          <6> QED
            BY <1>3, <5>1, <5>5, <6>1, Zenon DEF MembersRead, MembersMade
        <5> QED
          BY <1>3, <5>2, <5>3, <5>4, <5>5, Zenon DEF MembersRead, MembersMade
      <4> QED
        BY <1>7, <4>5, <4>6
    <3> QED
      BY <3>3, <3>4, <3>5, <3>6, Zenon
  <2> QED
    BY <2>0, <2>11, <2>12, Zenon
<1>8. all = Refused(used) \/ all = Refused(value.used) \/ (Begins /\ (Ends \/ Goes))
  BY <1>3, Zenon DEF MembersMade
<1> QED
  BY <1>3, <1>4, <1>7, <1>8, Zenon DEF MembersMade

(* A part of the line that begins with a mark which is no quote. *)
FirstIs(buf, p, m, mark) ==
  /\ Read(buf, p, m) = <<mark>> \o Read(buf, p + 1, m)
  /\ Read(buf, p + 1, m) \in AnyText /\ Read(buf, p, m) \in AnyText
  /\ Closed(Read(buf, p, m)) <=> Closed(Read(buf, p + 1, m))
  /\ Read(buf, p + 1, p + 1) = <<>>

(* Its mark can be taken off, and the rest is closed when it is. *)
LEMMA FirstRead ==
  ASSUME NEW buf, NEW L, Stored(buf, L), NEW p \in 1..L, NEW m \in p + 1..L + 1, buf[p] # "Q"
  PROVE  FirstIs(buf, p, m, buf[p])
<1>1. /\ Len(buf) \in Nat /\ L \in Nat /\ L + 1 <= Len(buf) /\ buf \in AnyText
      /\ \A i \in 1..L : At(buf, i) = buf[i] /\ buf[i] # "NUL" /\ buf[i] \in Tokens
  BY Marked
<1>2. /\ p \in Nat /\ m \in Nat /\ p >= 1 /\ p <= p /\ p <= Len(buf) /\ p <= Len(buf) + 1
      /\ p + 1 \in p..Len(buf) + 1 /\ p + 1 \in Nat /\ p + 1 >= 1 /\ p <= p + 1
      /\ p + 1 <= Len(buf) + 1 /\ m \in p + 1..Len(buf) + 1 /\ p + 1 <= m /\ p <= m
      /\ m <= Len(buf) + 1
  BY <1>1
<1>3. PICK x, y : x = <<buf[p]>> /\ y = Read(buf, p + 1, m)
  OBVIOUS
<1>4. Read(buf, p, p + 1) = x
  <2>1. p \in 1..Len(buf)
    BY <1>2
  <2> QED
    BY <1>1, <1>3, <2>1, ReadOne
<1>5. Read(buf, p, p + 1) \o Read(buf, p + 1, m) = Read(buf, p, m)
  <2>1. Meets(buf, p, p + 1, m)
    BY <1>1, <1>2, ReadJoins, Zenon
  <2> QED
    BY <2>1, Zenon DEF Meets
<1>6. y \in AnyText
  BY <1>1, <1>2, <1>3, ReadIsText
<1>7. Read(buf, p, m) \in AnyText
  BY <1>1, <1>2, ReadIsText
<1>8. x \in AnyText /\ Closed(x)
  <2>1. buf[p] \in Tokens \ {"Q"}
    BY <1>1
  <2> QED
    BY <1>3, <2>1, OneToken, ClosedTokens, Zenon
<1>9. Closed(x \o y) <=> Closed(y)
  BY <1>6, <1>8, ClosedJoins, Zenon
<1>10. Read(buf, p + 1, p + 1) = <<>>
  BY <1>1, <1>2 DEF Read
<1> QED
  BY <1>3, <1>4, <1>5, <1>6, <1>7, <1>9, <1>10, Zenon DEF FirstIs

(* Nothing between two marks. *)
LEMMA EmptyBetween ==
  \A a, b : (<<a>> \o <<>>) \o <<b>> = <<a, b>>
<1> SUFFICES ASSUME NEW a, NEW b PROVE (<<a>> \o <<>>) \o <<b>> = <<a, b>>
  OBVIOUS
<1>1. <<a>> \in Seq({a}) /\ \A s \in Seq({a}) : s \o <<>> = s
  BY ConcatEmptySeq
<1>2. <<a>> \o <<>> = <<a>>
  BY <1>1, Zenon
<1> QED
  BY <1>2, TwoTokens, Zenon

(* Two brackets with nothing between. *)
TwoMarks(buf, L, p, open, close) ==
  /\ p + 2 \in p + 1..L + 1 /\ Read(buf, p, p + 2) = <<open, close>>
  /\ Closed(Read(buf, p, p + 2))

(* An empty array or object. *)
LEMMA EmptyRead ==
  ASSUME NEW buf, NEW L, Stored(buf, L), NEW p \in 1..L + 1, NEW open, NEW close,
         At(buf, p) = open, open # "NUL", open # "Q",
         At(buf, p + 1) = close, close # "NUL", close # "Q"
  PROVE  TwoMarks(buf, L, p, open, close)
<1>1. Len(buf) \in Nat /\ L \in Nat /\ buf \in AnyText /\ L + 1 <= Len(buf)
  BY Marked
<1>2. p \in Nat /\ p >= 1 /\ p \in p..L + 1
  BY <1>1
<1>3. InLine(buf, L, p, p, open)
  BY <1>2, MarkInLine, Zenon
<1>4. PICK q : q = p + 1
  OBVIOUS
<1>5. q \in 1..L + 1 /\ At(buf, q) = close
  BY <1>3, <1>4, Zenon DEF InLine
<1>6. q \in Nat /\ q \in q..L + 1 /\ q >= 1 /\ p <= q /\ q + 1 = p + 2
  BY <1>1, <1>2, <1>4, <1>5
<1>7. InLine(buf, L, q, q, close)
  BY <1>5, <1>6, MarkInLine, Zenon
<1>8. PICK m : m = q + 1
  OBVIOUS
<1>9. m \in q + 1..L + 1 /\ q \in 1..L /\ p \in 1..L /\ q <= Len(buf) /\ buf[q] = close
      /\ buf[p] = open
  BY <1>3, <1>7, <1>8, Zenon DEF InLine
<1>10. m \in p + 1..L + 1 /\ m \in Nat
  BY <1>1, <1>2, <1>4, <1>9
<1>11. FirstIs(buf, p, m, open) /\ FirstIs(buf, q, m, close)
  <2>1. FirstIs(buf, p, m, buf[p])
    BY <1>9, <1>10, FirstRead, Zenon
  <2>2. FirstIs(buf, q, m, buf[q])
    BY <1>9, FirstRead, Zenon
  <2> QED
    BY <1>9, <2>1, <2>2, Zenon
<1>12. Read(buf, q, m) = <<close>>
  <2>1. Read(buf, q, q + 1) = <<buf[q]>>
    <3>1. q \in 1..Len(buf)
      BY <1>1, <1>9
    <3> QED
      BY <1>1, <3>1, ReadOne, Zenon
  <2> QED
    BY <1>8, <1>9, <2>1, Zenon
<1>13. Closed(Read(buf, q, m))
  <2>1. Read(buf, q + 1, q + 1) = <<>>
    BY <1>11, Zenon DEF FirstIs
  <2>2. Closed(Read(buf, q + 1, m))
    BY <1>8, <2>1, ClosedTokens, Zenon
  <2> QED
    BY <1>11, <2>2, Zenon DEF FirstIs
<1>14. Read(buf, p, m) = <<open>> \o <<close>> /\ Closed(Read(buf, p, m))
  BY <1>4, <1>11, <1>12, <1>13, Zenon DEF FirstIs
<1>15. Read(buf, p, m) = <<open, close>>
  BY <1>14, TwoTokens, Zenon
<1>16. m = p + 2
  BY <1>6, <1>8, Zenon
<1> QED
  BY <1>10, <1>14, <1>15, <1>16, Zenon DEF TwoMarks

(* A list between its brackets. *)
Bracketed(buf, L, p, m, open, list, close) ==
  /\ m \in p + 1..L + 1 /\ Closed(Read(buf, p, m))
  /\ Read(buf, p, m) = <<open>> \o list \o <<close>>

(* A list with its brackets is a part of the line if the list with its     *)
(* closing one is.                                                         *)
LEMMA BracketRead ==
  ASSUME NEW buf, NEW L, Stored(buf, L), NEW p \in 1..L, NEW open \in Tokens, buf[p] = open,
         open # "Q", NEW m \in (p + 1) + 1..L + 1, NEW list \in AnyText, NEW close \in Tokens,
         list \o <<close>> = Read(buf, p + 1, m), Closed(Read(buf, p + 1, m))
  PROVE  Bracketed(buf, L, p, m, open, list, close)
<1>1. L \in Nat
  BY Marked
<1>2. m \in p + 1..L + 1
  BY <1>1
<1>3. FirstIs(buf, p, m, open)
  BY <1>2, FirstRead, Zenon
<1>4. PICK a, b : a = <<open>> /\ b = <<close>>
  OBVIOUS
<1>5. a \in AnyText /\ b \in AnyText
  BY <1>4, OneToken, Zenon
<1>6. Grouped(a, list, b)
  BY <1>5, ThreeTexts, Zenon
<1>7. Read(buf, p, m) = a \o (list \o b) /\ Closed(Read(buf, p, m))
  BY <1>3, <1>4, Zenon DEF FirstIs
<1> QED
  BY <1>2, <1>4, <1>6, <1>7, Zenon DEF Grouped, Bracketed

(* and so does parse_value. *)
LEMMA ValueStep ==
  ASSUME NEW n \in Nat, NEW buf, NEW L, Stored(buf, L), NEW limit \in Nat, NEW parse,
         Told(n, buf, L, parse), NEW p \in 1..L + 1, NEW used \in Nat
  PROVE  ValueRead(n + 1, buf, L, p, ParseValue(parse, buf, limit, p, used))
<1>1. /\ Len(buf) \in Nat /\ L \in Nat /\ L + 1 <= Len(buf) /\ buf \in AnyText
      /\ \A q \in 1..L + 1 : At(buf, q) # "NUL" => q \in 1..L /\ buf[q] = At(buf, q)
      /\ p \in p..L + 1
  BY Marked
<1>2. PICK all : ValueMade(parse, buf, limit, p, used, all)
  BY ValueSteps, Zenon
<1>3. /\ "{" # "NUL" /\ "}" # "NUL" /\ "[" # "NUL" /\ "]" # "NUL" /\ "{" # "Q" /\ "[" # "Q"
      /\ "}" # "Q" /\ "]" # "Q"
      /\ "{" \in Tokens /\ "}" \in Tokens /\ "[" \in Tokens /\ "]" \in Tokens
  BY MarksAreTokens
<1>4. CASE At(buf, p) = "Q" /\ all = ParseString(buf, limit, p, used)
  <2>1. PICK r : r = ParseString(buf, limit, p, used) /\ StringLeft(buf, L, p, r)
    BY <1>4, StringRead, Zenon
  <2>2. \A text \in Strings :
          /\ <<"string", text>> \in TreesTo[n + 1]
          /\ Renderings[n + 1][<<"string", text>>] = <<"Q">> \o text \o <<"Q">>
    BY TreeTexts, Zenon
  <2>3. r.p = L + 2 => r.p >= L + 2
    BY <1>1
  <2>4. r = ParseValue(parse, buf, limit, p, used)
    BY <1>2, <1>4, <2>1, Zenon DEF ValueMade
  <2>5. ValueRead(n + 1, buf, L, p, r)
    <3>1. CASE r.tree = NoTree /\ r.p = p
      BY <1>4, <3>1, Zenon DEF ValueRead
    <3>2. ASSUME NEW text \in Strings, TextRead(buf, L, p, r, text)
          PROVE  ValueRead(n + 1, buf, L, p, r)
      BY <2>2, <2>3, <3>2, Zenon DEF ValueRead, TextRead
    <3> QED
      BY <2>1, <3>1, <3>2, Zenon DEF StringLeft
  <2> QED
    BY <2>4, <2>5, Zenon
<1>5. CASE At(buf, p) \in Scalars /\ all = Left(p + 1, used, <<"scalar", At(buf, p)>>)
  <2>1. At(buf, p) # "NUL" /\ At(buf, p) # "Q"
    BY <1>5, JsonAssumption DEF Marks
  <2>2. p \in 1..L /\ buf[p] = At(buf, p) /\ p + 1 \in p + 1..L + 1 /\ p \in Nat
    BY <1>1, <2>1
  <2>3. FirstIs(buf, p, p + 1, At(buf, p))
    BY <2>1, <2>2, FirstRead, Zenon
  <2>4. Read(buf, p, p + 1) = <<At(buf, p)>> /\ Closed(Read(buf, p, p + 1))
    <3>1. p \in 1..Len(buf)
      BY <1>1, <2>2
    <3>2. Read(buf, p, p + 1) = <<buf[p]>>
      BY <1>1, <3>1, ReadOne, Zenon
    <3> QED
      BY <2>2, <2>3, <3>2, ClosedTokens, Zenon DEF FirstIs
  <2>5. /\ <<"scalar", At(buf, p)>> \in TreesTo[n + 1]
        /\ Renderings[n + 1][<<"scalar", At(buf, p)>>] = <<At(buf, p)>>
    BY <1>5, TreeTexts, Zenon
  <2>6. all.p = p + 1 /\ all.tree = <<"scalar", At(buf, p)>>
    BY <1>5, Leaves
  <2> QED
    BY <1>2, <2>2, <2>4, <2>5, <2>6, Zenon DEF ValueRead, ValueMade
<1>6. CASE At(buf, p) = "{" /\ At(buf, p + 1) = "}" /\ all = Left(p + 2, used, <<"object", <<>>>>)
  <2>1. TwoMarks(buf, L, p, "{", "}")
    BY <1>3, <1>6, EmptyRead, Zenon
  <2>2. PICK none : none = <<>> /\ none \in Seq(Strings \X TreesTo[n])
    BY NoneIn, Zenon
  <2>3. Keyed(n, none) = <<>>
    BY <2>2 DEF Keyed
  <2>4. /\ <<"object", none>> \in TreesTo[n + 1]
        /\ Renderings[n + 1][<<"object", none>>] = <<"{">> \o Listed(<<>>) \o <<"}">>
    BY <2>2, <2>3, TreeTexts, Zenon
  <2>5. Listed(<<>>) = <<>>
    BY OneToken, ListedFirst, Zenon
  <2>6. Renderings[n + 1][<<"object", none>>] = <<"{", "}">>
    BY <2>4, <2>5, EmptyBetween, Zenon
  <2>7. LeftIs(Left(p + 2, used, <<"object", <<>>>>), p + 2, used, <<"object", <<>>>>)
    BY LeavesThat, Zenon
  <2>8. all.p = p + 2 /\ all.tree = <<"object", none>>
    BY <1>6, <2>2, <2>7, Zenon DEF LeftIs
  <2> QED
    BY <1>2, <2>1, <2>4, <2>6, <2>8, Zenon DEF ValueRead, ValueMade, TwoMarks
<1>7. CASE At(buf, p) = "[" /\ At(buf, p + 1) = "]" /\ all = Left(p + 2, used, <<"array", <<>>>>)
  <2>1. TwoMarks(buf, L, p, "[", "]")
    BY <1>3, <1>7, EmptyRead, Zenon
  <2>2. PICK none : none = <<>> /\ none \in Seq(TreesTo[n])
    BY NoneIn, Zenon
  <2>3. Worded(n, none) = <<>>
    BY <2>2 DEF Worded
  <2>4. /\ <<"array", none>> \in TreesTo[n + 1]
        /\ Renderings[n + 1][<<"array", none>>] = <<"[">> \o Listed(<<>>) \o <<"]">>
    BY <2>2, <2>3, TreeTexts, Zenon
  <2>5. Listed(<<>>) = <<>>
    BY OneToken, ListedFirst, Zenon
  <2>6. Renderings[n + 1][<<"array", none>>] = <<"[", "]">>
    BY <2>4, <2>5, EmptyBetween, Zenon
  <2>7. LeftIs(Left(p + 2, used, <<"array", <<>>>>), p + 2, used, <<"array", <<>>>>)
    BY LeavesThat, Zenon
  <2>8. all.p = p + 2 /\ all.tree = <<"array", none>>
    BY <1>7, <2>2, <2>7, Zenon DEF LeftIs
  <2> QED
    BY <1>2, <2>1, <2>4, <2>6, <2>8, Zenon DEF ValueRead, ValueMade, TwoMarks
<1>8. CASE At(buf, p) = "{" /\ all = parse["members"][p + 1][used]
  <2>1. InLine(buf, L, p, p, "{")
    BY <1>1, <1>3, <1>8, MarkInLine, Zenon
  <2>2. p \in 1..L /\ buf[p] = "{" /\ p + 1 \in 1..L + 1 /\ L + 1 \in p + 1..L + 1
    BY <2>1, Zenon DEF InLine
  <2>3. MembersRead(n, buf, L, p + 1, all)
    BY <1>8, <2>2, Zenon DEF Told
  <2>4. ASSUME all.p \in (p + 1) + 1..L + 1, Closed(Read(buf, p + 1, all.p)),
               NEW members \in Seq(Strings \X TreesTo[n]), all.tree = <<"object", members>>,
               Listed(Keyed(n, members)) \o <<"}">> = Read(buf, p + 1, all.p)
        PROVE  ValueRead(n + 1, buf, L, p, all)
    <3>1. Listed(Keyed(n, members)) \in AnyText
      <4>1. Keyed(n, members) \in Seq(AnyText)
        BY KeyedAreTexts
      <4> QED
        BY <4>1, ListedIsText
    <3>2. Bracketed(buf, L, p, all.p, "{", Listed(Keyed(n, members)), "}")
      BY <1>3, <2>2, <2>4, <3>1, BracketRead, Zenon
    <3>3. /\ <<"object", members>> \in TreesTo[n + 1]
          /\ Renderings[n + 1][<<"object", members>>]
               = <<"{">> \o Listed(Keyed(n, members)) \o <<"}">>
      BY TreeTexts, Zenon
    <3> QED
      BY <2>4, <3>2, <3>3, Zenon DEF ValueRead, Bracketed
  <2>5. CASE all.p >= L + 2 /\ ~Closed(Read(buf, p + 1, L + 1)) /\ ~Clean(buf, L)
    <3>1. FirstIs(buf, p, L + 1, "{")
      BY <1>3, <2>2, FirstRead, Zenon
    <3> QED
      BY <1>2, <2>5, <3>1, Zenon DEF ValueRead, ValueMade, FirstIs
  <2>6. CASE all.p = Null
    BY <1>2, <2>6, Zenon DEF ValueRead, ValueMade
  <2> QED
    BY <1>2, <2>3, <2>4, <2>5, <2>6, Zenon DEF MembersRead, ValueMade
<1>9. CASE At(buf, p) = "[" /\ all = parse["elements"][p + 1][used]
  <2>1. InLine(buf, L, p, p, "[")
    BY <1>1, <1>3, <1>9, MarkInLine, Zenon
  <2>2. p \in 1..L /\ buf[p] = "[" /\ p + 1 \in 1..L + 1 /\ L + 1 \in p + 1..L + 1
    BY <2>1, Zenon DEF InLine
  <2>3. ElementsRead(n, buf, L, p + 1, all)
    BY <1>9, <2>2, Zenon DEF Told
  <2>4. ASSUME all.p \in (p + 1) + 1..L + 1, Closed(Read(buf, p + 1, all.p)),
               NEW trees \in Seq(TreesTo[n]), all.tree = <<"array", trees>>,
               Listed(Worded(n, trees)) \o <<"]">> = Read(buf, p + 1, all.p)
        PROVE  ValueRead(n + 1, buf, L, p, all)
    <3>1. Listed(Worded(n, trees)) \in AnyText
      <4>1. Worded(n, trees) \in Seq(AnyText)
        BY WordedAreTexts
      <4> QED
        BY <4>1, ListedIsText
    <3>2. Bracketed(buf, L, p, all.p, "[", Listed(Worded(n, trees)), "]")
      BY <1>3, <2>2, <2>4, <3>1, BracketRead, Zenon
    <3>3. /\ <<"array", trees>> \in TreesTo[n + 1]
          /\ Renderings[n + 1][<<"array", trees>>]
               = <<"[">> \o Listed(Worded(n, trees)) \o <<"]">>
      BY TreeTexts, Zenon
    <3> QED
      BY <2>4, <3>2, <3>3, Zenon DEF ValueRead, Bracketed
  <2>5. CASE all.p >= L + 2 /\ ~Closed(Read(buf, p + 1, L + 1)) /\ ~Clean(buf, L)
    <3>1. FirstIs(buf, p, L + 1, "[")
      BY <1>3, <2>2, FirstRead, Zenon
    <3> QED
      BY <1>2, <2>5, <3>1, Zenon DEF ValueRead, ValueMade, FirstIs
  <2>6. CASE all.p = Null
    BY <1>2, <2>6, Zenon DEF ValueRead, ValueMade
  <2> QED
    BY <1>2, <2>3, <2>4, <2>5, <2>6, Zenon DEF ElementsRead, ValueMade
<1>10. CASE all = Refused(used)
  BY <1>2, <1>10, Refuses, Zenon DEF ValueRead, ValueMade
<1> QED
  BY <1>2, <1>4, <1>5, <1>6, <1>7, <1>8, <1>9, <1>10, Zenon DEF ValueMade

(* So the three functions read what they stand at, at every level of       *)
(* nesting: the induction the recursion of cJSON asks for.                 *)
LEMMA ParserReads ==
  ASSUME NEW buf, NEW L, Stored(buf, L), NEW limit \in Nat
  PROVE  \A n \in Nat : Told(n, buf, L, Parsers[n][buf][limit])
<1> DEFINE S == {n \in Nat : Told(n, buf, L, Parsers[n][buf][limit])}
<1>1. L \in Nat /\ buf \in AnyText
  BY Marked
<1>2. \A q \in 1..L + 1 : q \in Nat
  BY <1>1
<1>3. ASSUME NEW n \in Nat
      PROVE  \A q, u \in Nat : /\ Advances(Parsers[n][buf][limit]["value"][q][u], q)
                               /\ Advances(Parsers[n][buf][limit]["elements"][q][u], q)
                               /\ Advances(Parsers[n][buf][limit]["members"][q][u], q)
  <2>1. \A what \in {"value", "elements", "members"} : \A q, u \in Nat :
          Advances(Parsers[n][buf][limit][what][q][u], q)
    BY <1>1, ParserAdvances, Zenon
  <2> QED
    BY <2>1, Zenon
<1>4. 0 \in S
  <2>1. ASSUME NEW q \in 1..L + 1, NEW u \in Nat
        PROVE  /\ ValueRead(0, buf, L, q, Parsers[0][buf][limit]["value"][q][u])
               /\ ElementsRead(0, buf, L, q, Parsers[0][buf][limit]["elements"][q][u])
               /\ MembersRead(0, buf, L, q, Parsers[0][buf][limit]["members"][q][u])
    <3>1. \A w \in {"value", "elements", "members"} :
            Parsers[0][buf][limit][w][q][u] = Refused(u)
      <4>1. buf \in AnyText /\ q \in Nat
        BY <1>1, <1>2
      <4> QED
        BY <4>1, ParserStops
    <3>2. \A w \in {"value", "elements", "members"} :
            Parsers[0][buf][limit][w][q][u].p = Null
      BY <3>1, Refuses, Zenon
    <3> QED
      BY <3>2, Zenon DEF ValueRead, ElementsRead, MembersRead
  <2>2. Told(0, buf, L, Parsers[0][buf][limit])
    BY <1>3, <2>1, Zenon DEF Told
  <2> QED
    BY <2>2
<1>5. ASSUME NEW n \in Nat, n \in S PROVE n + 1 \in S
  <2>1. PICK parse : parse = Parsers[n][buf][limit]
    OBVIOUS
  <2>2. Told(n, buf, L, parse)
    BY <1>5, <2>1
  <2>3. ASSUME NEW p \in 1..L + 1, NEW used \in Nat
        PROVE  /\ ValueRead(n + 1, buf, L, p, Parsers[n + 1][buf][limit]["value"][p][used])
               /\ ElementsRead(n + 1, buf, L, p, Parsers[n + 1][buf][limit]["elements"][p][used])
               /\ MembersRead(n + 1, buf, L, p, Parsers[n + 1][buf][limit]["members"][p][used])
    <3>1. /\ Parsers[n + 1][buf][limit]["value"][p][used] = ParseValue(parse, buf, limit, p, used)
          /\ Parsers[n + 1][buf][limit]["elements"][p][used]
               = ParseElements(parse, buf, limit, p, used)
          /\ Parsers[n + 1][buf][limit]["members"][p][used]
               = ParseMembers(parse, buf, limit, p, used)
      <4>1. buf \in AnyText /\ p \in Nat
        BY <1>1, <1>2
      <4> QED
        <5>1. Called(n, Parsers[n][buf][limit], buf, limit, p, used)
          BY <4>1, ParserCalled, Zenon
        <5> QED
          BY <2>1, <5>1, Zenon DEF Called
    <3>2. ValueRead(n + 1, buf, L, p, ParseValue(parse, buf, limit, p, used))
      BY <2>2, ValueStep
    <3>3. ElementsRead(n + 1, buf, L, p, ParseElements(parse, buf, limit, p, used))
      BY <2>2, ElementsStep, ReadDeeper, Zenon
    <3>4. MembersRead(n + 1, buf, L, p, ParseMembers(parse, buf, limit, p, used))
      BY <2>2, MembersStep, ReadDeeper, Zenon
    <3> QED
      BY <2>1, <3>1, <3>2, <3>3, <3>4, Zenon
  <2>4. n + 1 \in Nat
    OBVIOUS
  <2>5. Told(n + 1, buf, L, Parsers[n + 1][buf][limit])
    <3>1. \A q, u \in Nat : /\ Advances(Parsers[n + 1][buf][limit]["value"][q][u], q)
                            /\ Advances(Parsers[n + 1][buf][limit]["elements"][q][u], q)
                            /\ Advances(Parsers[n + 1][buf][limit]["members"][q][u], q)
      BY <1>3, <2>4, Zenon
    <3> QED
      BY <2>3, <3>1, Zenon DEF Told
  <2> QED
    BY <2>4, <2>5
<1>6. Nat \subseteq S
  <2> HIDE DEF S
  <2> QED
    BY <1>4, <1>5, Sums!NaturalInduction
<1> QED
  BY <1>6

(* cJSON_Parse on a stored line accepts nothing but the line: what it      *)
(* makes of the text from p on, written out again, is that text to its     *)
(* NUL; or the text leaves a string open, and it is that text with the     *)
(* missing quote, or an earlier and longer line has left something behind  *)
(* the NUL which it was read on into.  For every line, length of the       *)
(* buffer and size of the arena.                                           *)
THEOREM ParseTakesTheLine ==
  ASSUME NEW buf, NEW L, Stored(buf, L), Len(buf) <= Nested,
         NEW limit \in Nat, NEW used \in Nat, NEW p \in 1..L + 1,
         Parse(buf, limit, p, used).tree # NoTree
  PROVE  \/ Render(Parse(buf, limit, p, used).tree) = Read(buf, p, L + 1)
         \/ /\ ~Closed(Read(buf, p, L + 1))
            /\ \/ Render(Parse(buf, limit, p, used).tree) = Append(Read(buf, p, L + 1), "Q")
               \/ \E i \in L + 2..Len(buf) : buf[i] # "NUL"
<1>1. /\ Len(buf) \in Nat /\ L \in Nat /\ L + 1 <= Len(buf) /\ buf \in AnyText
      /\ \A q \in 1..L : At(buf, q) = buf[q] /\ buf[q] # "NUL"
      /\ At(buf, L + 1) = "NUL"
  BY Marked
<1>2. Nested \in Nat /\ Nested - 1 \in Nat /\ (Nested - 1) + 1 = Nested
  BY <1>1, JsonAssumption
<1>3. p \in Nat /\ used + Item \in Nat
  BY <1>1, ItemIsNatural
<1>4. PICK value : value = Parsers[Nested][buf][limit]["value"][p][used + Item]
  OBVIOUS
<1>5. Parse(buf, limit, p, used) = value /\ value.p # Null /\ At(buf, value.p) = "NUL"
  <2>1. Parse(buf, limit, p, used) =
          IF used + Item > limit \/ value.p = Null \/ At(buf, value.p) # "NUL"
          THEN Refused(value.used) ELSE value
    BY <1>4, Zenon DEF Parse
  <2>2. Refused(value.used).tree = NoTree
    BY Refuses, Zenon
  <2> QED
    BY <2>1, <2>2, Zenon
<1>6. ValueRead(Nested, buf, L, p, value)
  <2>1. Told(Nested, buf, L, Parsers[Nested][buf][limit])
    BY <1>2, ParserReads, Zenon
  <2> QED
    BY <1>3, <1>4, <2>1, Zenon DEF Told
<1>7. CASE value.p = p /\ At(buf, p) = "Q"
  <2>1. "Q" # "NUL"
    OBVIOUS
  <2> QED
    BY <1>5, <1>7, <2>1, Zenon
<1>8. CASE value.p \in p + 1..L + 1 /\ Renderings[Nested][value.tree] = Read(buf, p, value.p)
  <2>1. value.p = L + 1
    <3>1. value.p \notin 1..L
      BY <1>1, <1>5
    <3> QED
      BY <1>1, <1>3, <1>8, <3>1
  <2> QED
    BY <1>5, <1>8, <2>1, Zenon DEF Render
<1>9. CASE /\ ~Closed(Read(buf, p, L + 1))
           /\ Clean(buf, L) =>
                /\ value.p = L + 2
                /\ \E text \in Strings : /\ value.tree = <<"string", text>>
                                         /\ Read(buf, p, L + 1) = <<"Q">> \o text
  <2>1. CASE ~Clean(buf, L)
    <3>1. \E i \in L + 2..Len(buf) : buf[i] # "NUL"
      BY <2>1, Zenon DEF Clean
    <3> QED
      BY <1>9, <3>1, Zenon
  <2>2. CASE Clean(buf, L)
    <3>1. PICK text \in Strings : /\ value.tree = <<"string", text>>
                                  /\ Read(buf, p, L + 1) = <<"Q">> \o text
      BY <1>9, <2>2, Zenon
    <3>2. Renderings[Nested][value.tree] = <<"Q">> \o text \o <<"Q">>
      <4>1. Renderings[(Nested - 1) + 1][<<"string", text>>] = <<"Q">> \o text \o <<"Q">>
        BY <1>2, TreeTexts, Zenon
      <4> QED
        BY <1>2, <3>1, <4>1
    <3>3. text \in AnyText /\ <<"Q">> \in AnyText
      BY MarksAreTokens, OneToken
    <3>4. <<"Q">> \o text \o <<"Q">> = Append(<<"Q">> \o text, "Q")
      BY <3>3 DEF AnyText
    <3> QED
      BY <1>5, <1>9, <3>1, <3>2, <3>4, Zenon DEF Render
  <2> QED
    BY <2>1, <2>2
<1> QED
  BY <1>5, <1>6, <1>7, <1>8, <1>9, Zenon DEF ValueRead
-----------------------------------------------------------------------------
(* A number in front of a sequence adds to its sum. *)
LEMMA TotalFirst ==
  ASSUME NEW x \in Nat, NEW s \in Seq(Nat)
  PROVE  Total(<<x>> \o s) = x + Total(s)
<1> DEFINE all == <<x>> \o s
<1>1. /\ all \in Seq(Nat) /\ Len(all) = Len(s) + 1 /\ all[1] = x
      /\ \A i \in 1..Len(s) : all[i + 1] = s[i]
  BY InFront
<1> HIDE DEF all
<1> DEFINE S == {n \in Nat : n <= Len(s) =>
                   Totals[n][s] \in Nat /\ Totals[n + 1][all] = x + Totals[n][s]}
<1>2. 0 \in S
  <2>1. Totals[0][s] = 0 /\ Totals[0][all] = 0
    BY <1>1, TotalsUnroll
  <2>2. Totals[0 + 1][all] = Totals[0][all] + all[0 + 1]
    <3> DEFINE n == 0
    <3> HIDE DEF n
    <3>1. n \in Nat
      BY DEF n
    <3>2. Totals[n + 1][all] = Totals[n][all] + all[n + 1]
      BY <1>1, <3>1, TotalsUnroll
    <3> QED
      BY <3>2, Zenon DEF n
  <2> QED
    BY <1>1, <2>1, <2>2
<1>3. ASSUME NEW n \in Nat, n \in S PROVE n + 1 \in S
  <2> SUFFICES ASSUME n + 1 <= Len(s)
               PROVE  /\ Totals[n + 1][s] \in Nat
                      /\ Totals[(n + 1) + 1][all] = x + Totals[n + 1][s]
    OBVIOUS
  <2>1. Totals[n][s] \in Nat /\ Totals[n + 1][all] = x + Totals[n][s]
    BY <1>3
  <2>2. Totals[n + 1][s] = Totals[n][s] + s[n + 1]
    BY TotalsUnroll
  <2>3. Totals[(n + 1) + 1][all] = Totals[n + 1][all] + all[(n + 1) + 1]
    <3> DEFINE m == n + 1
    <3>1. m \in Nat
      OBVIOUS
    <3> HIDE DEF m
    <3>2. Totals[m + 1][all] = Totals[m][all] + all[m + 1]
      BY <1>1, <3>1, TotalsUnroll
    <3> QED
      BY <3>2, Zenon DEF m
  <2>4. all[(n + 1) + 1] = s[n + 1] /\ s[n + 1] \in Nat
    BY <1>1
  <2>5. PICK a, b, c, d, e :
          /\ a = Totals[n][s] /\ b = Totals[n + 1][all] /\ c = s[n + 1]
          /\ d = Totals[n + 1][s] /\ e = Totals[(n + 1) + 1][all]
    OBVIOUS
  <2>6. a \in Nat /\ b = x + a /\ c \in Nat /\ d = a + c /\ e = b + c
    BY <2>1, <2>2, <2>3, <2>4, <2>5, Zenon
  <2>7. d \in Nat /\ e = x + d
    BY <2>6
  <2> QED
    BY <2>5, <2>7, Zenon
<1>4. Nat \subseteq S
  <2> HIDE DEF S
  <2> QED
    BY <1>2, <1>3, Sums!NaturalInduction
<1>5. Len(s) \in Nat
  OBVIOUS
<1>6. Totals[Len(s) + 1][all] = x + Totals[Len(s)][s]
  BY <1>4, <1>5
<1> QED
  BY <1>1, <1>6 DEF Total, all

(* An empty one has the sum 0. *)
LEMMA TotalNone == Total(<<>>) = 0
<1>1. <<>> \in Seq(Nat) /\ Len(<<>>) = 0
  BY EmptySeq
<1> QED
  BY <1>1, TotalsUnroll DEF Total

(* What the images of a sequence add up to. *)
SumOf(f, s) == Total([k \in DOMAIN s |-> f[s[k]]])

(* The sum with one more in front. *)
SumsInFront(f, x, s) ==
  /\ SumOf(f, s) \in Nat
  /\ SumOf(f, <<x>>) = f[x]
  /\ SumOf(f, <<x>> \o s) = f[x] + SumOf(f, s)

(* It is what the one in front adds to it. *)
LEMMA SumInFront ==
  ASSUME NEW S, NEW f, \A a \in S : f[a] \in Nat, NEW x \in S, NEW s \in Seq(S)
  PROVE  SumsInFront(f, x, s)
<1>1. MapsInFront(S, Nat, f, x, s)
  BY MapInFront
<1>2. PICK w : w = [k \in DOMAIN s |-> f[s[k]]]
  OBVIOUS
<1>3. w \in Seq(Nat) /\ f[x] \in Nat
  BY <1>1, <1>2 DEF MapsInFront
<1>4. Total(w) \in Nat /\ Total(<<f[x]>> \o w) = f[x] + Total(w)
  BY <1>3, TotalIsNatural, TotalFirst
<1>5. Total(<<f[x]>>) = f[x]
  <2>1. <<>> \in Seq(Nat)
    BY EmptySeq
  <2>2. <<f[x]>> \o <<>> = <<f[x]>>
    BY <1>3
  <2>3. Total(<<f[x]>> \o <<>>) = f[x] + 0
    BY <1>3, <2>1, TotalFirst, TotalNone
  <2> QED
    BY <1>3, <2>2, <2>3
<1> QED
  BY <1>1, <1>2, <1>4, <1>5, Zenon DEF SumsInFront, SumOf, MapsInFront

(* Nothing adds up to 0. *)
LEMMA SumOfNone ==
  \A f : \A none : none = <<>> => SumOf(f, none) = 0
<1> SUFFICES ASSUME NEW f, NEW none, none = <<>> PROVE SumOf(f, none) = 0
  OBVIOUS
<1>1. [k \in DOMAIN none |-> f[none[k]]] = <<>>
  OBVIOUS
<1> QED
  BY <1>1, TotalNone, Zenon DEF SumOf

(* The sum of natural numbers is one. *)
LEMMA SumIsNatural ==
  ASSUME NEW S, NEW f, \A a \in S : f[a] \in Nat, NEW s \in Seq(S)
  PROVE  SumOf(f, s) \in Nat
<1>1. [k \in DOMAIN s |-> f[s[k]]] \in Seq(Nat)
  <2>1. \A k \in DOMAIN s : f[s[k]] \in Nat
    OBVIOUS
  <2> QED
    BY <2>1
<1> QED
  BY <1>1, TotalIsNatural, Zenon DEF SumOf
-----------------------------------------------------------------------------
(* What the elements of an array take of the arena, and the members of an  *)
(* object with their names.                                                *)
Held(n, trees) == SumOf(Sizes[n], trees)
(* What one member takes, its name and its tree, *)
KeySizes(n) == [member \in Strings \X TreesTo[n] |-> Kept(member[1]) + Sizes[n][member[2]]]
(* and all of them. *)
HeldKeyed(n, members) == SumOf(KeySizes(n), members)

(* What a member takes is a number when what its tree takes is one. *)
LEMMA KeySizesAreNumbers ==
  ASSUME NEW n, \A tree \in TreesTo[n] : Sizes[n][tree] \in Nat
  PROVE  \A member \in Strings \X TreesTo[n] : KeySizes(n)[member] \in Nat
<1> SUFFICES ASSUME NEW member \in Strings \X TreesTo[n] PROVE KeySizes(n)[member] \in Nat
  OBVIOUS
<1>1. member[1] \in Strings /\ member[2] \in TreesTo[n]
  OBVIOUS
<1>2. Kept(member[1]) \in Nat
  BY <1>1, KeptIsNatural DEF Strings
<1> QED
  BY <1>1, <1>2 DEF KeySizes

(* What each form of tree takes. *)
TreeSized(n) ==
  /\ \A token \in Scalars : Sizes[n + 1][<<"scalar", token>>] = Item
  /\ \A text \in Strings : Sizes[n + 1][<<"string", text>>] = Item + Kept(text)
  /\ \A trees \in Seq(TreesTo[n]) : Sizes[n + 1][<<"array", trees>>] = Item + Held(n, trees)
  /\ \A members \in Seq(Strings \X TreesTo[n]) :
       Sizes[n + 1][<<"object", members>>] = Item + HeldKeyed(n, members)

(* Memory, form by form, *)
LEMMA MemoryOf ==
  ASSUME NEW sizes, NEW x
  PROVE  /\ Memory(sizes, <<"scalar", x>>) = Item
         /\ Memory(sizes, <<"string", x>>) = Item + Kept(x)
         /\ Memory(sizes, <<"array", x>>) = Item + Total([k \in DOMAIN x |-> sizes[x[k]]])
         /\ Memory(sizes, <<"object", x>>) =
              Item + Total([k \in DOMAIN x |-> Kept(x[k][1]) + sizes[x[k][2]]])
<1>1. /\ <<"scalar", x>>[1] = "scalar" /\ <<"string", x>>[1] = "string"
      /\ <<"array", x>>[1] = "array" /\ <<"object", x>>[1] = "object"
      /\ <<"scalar", x>>[2] = x /\ <<"string", x>>[2] = x
      /\ <<"array", x>>[2] = x /\ <<"object", x>>[2] = x
  OBVIOUS
<1>2. /\ "scalar" # "string" /\ "scalar" # "array" /\ "scalar" # "object"
      /\ "string" # "array" /\ "string" # "object" /\ "array" # "object"
  OBVIOUS
<1>3. Memory(sizes, <<"scalar", x>>) = Item
  BY <1>1, <1>2, Zenon DEF Memory
<1>4. Memory(sizes, <<"string", x>>) = Item + Kept(x)
  BY <1>1, <1>2, Zenon DEF Memory
<1>5. Memory(sizes, <<"array", x>>) = Item + Total([k \in DOMAIN x |-> sizes[x[k]]])
  BY <1>1, <1>2, Zenon DEF Memory
<1>6. Memory(sizes, <<"object", x>>) =
        Item + Total([k \in DOMAIN x |-> Kept(x[k][1]) + sizes[x[k][2]]])
  BY <1>1, <1>2, Zenon DEF Memory
<1> QED
  BY <1>3, <1>4, <1>5, <1>6

(* and Sizes with it. *)
LEMMA TreeSizes ==
  ASSUME NEW n \in Nat
  PROVE  TreeSized(n)
<1>1. \A tree \in TreesTo[n + 1] : Sizes[n + 1][tree] = Memory(Sizes[n], tree)
  BY SizesUnroll
<1>2. /\ \A token \in Scalars : <<"scalar", token>> \in TreesTo[n + 1]
      /\ \A text \in Strings : <<"string", text>> \in TreesTo[n + 1]
      /\ \A trees \in Seq(TreesTo[n]) : <<"array", trees>> \in TreesTo[n + 1]
      /\ \A members \in Seq(Strings \X TreesTo[n]) : <<"object", members>> \in TreesTo[n + 1]
  BY TreeTexts, Zenon
<1>3. \A token \in Scalars : Sizes[n + 1][<<"scalar", token>>] = Item
  BY <1>1, <1>2, MemoryOf, Zenon
<1>4. \A text \in Strings : Sizes[n + 1][<<"string", text>>] = Item + Kept(text)
  BY <1>1, <1>2, MemoryOf, Zenon
<1>5. ASSUME NEW trees \in Seq(TreesTo[n])
      PROVE  Sizes[n + 1][<<"array", trees>>] = Item + Held(n, trees)
  BY <1>1, <1>2, MemoryOf, Zenon DEF Held, SumOf
<1>6. ASSUME NEW members \in Seq(Strings \X TreesTo[n])
      PROVE  Sizes[n + 1][<<"object", members>>] = Item + HeldKeyed(n, members)
  <2>1. [k \in DOMAIN members |-> Kept(members[k][1]) + Sizes[n][members[k][2]]]
          = [k \in DOMAIN members |-> KeySizes(n)[members[k]]]
    BY DEF KeySizes
  <2>2. Memory(Sizes[n], <<"object", members>>) =
          Item + Total([k \in DOMAIN members |-> Kept(members[k][1]) + Sizes[n][members[k][2]]])
    BY MemoryOf, Zenon
  <2> QED
    BY <1>1, <1>2, <2>1, <2>2, Zenon DEF HeldKeyed, SumOf
<1> QED
  BY <1>3, <1>4, <1>5, <1>6, Zenon DEF TreeSized

(* Every tree takes at least its node, *)
LEMMA SizesAreNumbers ==
  \A n \in Nat : \A tree \in TreesTo[n] : Sizes[n][tree] \in Nat /\ Sizes[n][tree] >= Item
<1> DEFINE S == {n \in Nat : \A tree \in TreesTo[n] :
                             Sizes[n][tree] \in Nat /\ Sizes[n][tree] >= Item}
<1>1. 0 \in S
  BY TreesUnroll
<1>2. ASSUME NEW n \in Nat, n \in S PROVE n + 1 \in S
  <2>1. \A tree \in TreesTo[n] : Sizes[n][tree] \in Nat
    BY <1>2
  <2>2. ASSUME NEW tree \in TreesTo[n + 1]
        PROVE  \E more \in Nat : Sizes[n + 1][tree] = Item + more
    <3>1. CASE \E token \in Scalars : tree = <<"scalar", token>>
      <4>1. Sizes[n + 1][tree] = Item
        BY <3>1, TreeSizes, Zenon DEF TreeSized
      <4>2. Item = Item + 0 /\ 0 \in Nat
        BY ItemIsNatural
      <4> QED
        BY <4>1, <4>2, Zenon
    <3>2. CASE \E text \in Strings : tree = <<"string", text>>
      <4>1. PICK text \in Strings : tree = <<"string", text>>
        BY <3>2
      <4>2. Sizes[n + 1][tree] = Item + Kept(text)
        BY <4>1, TreeSizes, Zenon DEF TreeSized
      <4>3. Kept(text) \in Nat
        BY KeptIsNatural DEF Strings
      <4> QED
        BY <4>2, <4>3, Zenon
    <3>3. CASE \E trees \in Seq(TreesTo[n]) : tree = <<"array", trees>>
      <4>1. PICK trees \in Seq(TreesTo[n]) : tree = <<"array", trees>>
        BY <3>3
      <4>2. Sizes[n + 1][tree] = Item + Held(n, trees)
        BY <4>1, TreeSizes, Zenon DEF TreeSized
      <4>3. Held(n, trees) \in Nat
        BY <2>1, SumIsNatural, Zenon DEF Held
      <4> QED
        BY <4>2, <4>3, Zenon
    <3>4. CASE \E members \in Seq(Strings \X TreesTo[n]) : tree = <<"object", members>>
      <4>1. PICK members \in Seq(Strings \X TreesTo[n]) : tree = <<"object", members>>
        BY <3>4
      <4>2. Sizes[n + 1][tree] = Item + HeldKeyed(n, members)
        BY <4>1, TreeSizes, Zenon DEF TreeSized
      <4>3. HeldKeyed(n, members) \in Nat
        <5>1. \A member \in Strings \X TreesTo[n] : KeySizes(n)[member] \in Nat
          BY <2>1, KeySizesAreNumbers, Zenon
        <5> QED
          BY <5>1, SumIsNatural, Zenon DEF HeldKeyed
      <4> QED
        BY <4>2, <4>3, Zenon
    <3> QED
      BY <3>1, <3>2, <3>3, <3>4, TreeForms, Zenon
  <2>3. ASSUME NEW tree \in TreesTo[n + 1]
        PROVE  Sizes[n + 1][tree] \in Nat /\ Sizes[n + 1][tree] >= Item
    BY <2>2, ItemIsNatural
  <2> QED
    BY <2>3
<1>3. Nat \subseteq S
  <2> HIDE DEF S
  <2> QED
    BY <1>1, <1>2, Sums!NaturalInduction
<1> QED
  BY <1>3

(* and takes the same however much nesting is left. *)
LEMMA SizesMonotone ==
  \A n \in Nat : \A tree \in TreesTo[n] : Sizes[n + 1][tree] = Sizes[n][tree]
<1> DEFINE S == {n \in Nat : \A tree \in TreesTo[n] : Sizes[n + 1][tree] = Sizes[n][tree]}
<1>1. 0 \in S
  BY TreesUnroll
<1>2. ASSUME NEW n \in Nat, n \in S PROVE n + 1 \in S
  <2>1. \A tree \in TreesTo[n] : Sizes[n + 1][tree] = Sizes[n][tree] /\ tree \in TreesTo[n + 1]
    BY <1>2, TreesMonotone
  <2>2. PICK m \in Nat : m = n + 1
    OBVIOUS
  <2>3. TreeSized(n) /\ TreeSized(m)
    BY TreeSizes, Zenon
  <2>4. ASSUME NEW tree \in TreesTo[m]
        PROVE  Sizes[m + 1][tree] = Sizes[m][tree]
    <3>1. CASE \E token \in Scalars : tree = <<"scalar", token>>
      BY <2>2, <2>3, <3>1, Zenon DEF TreeSized
    <3>2. CASE \E text \in Strings : tree = <<"string", text>>
      BY <2>2, <2>3, <3>2, Zenon DEF TreeSized
    <3>3. CASE \E trees \in Seq(TreesTo[n]) : tree = <<"array", trees>>
      <4>1. PICK trees \in Seq(TreesTo[n]) : tree = <<"array", trees>>
        BY <3>3
      <4>2. trees \in Seq(TreesTo[m])
        BY <2>2, WordedDeeper
      <4>3. Held(m, trees) = Held(n, trees)
        <5>1. [k \in DOMAIN trees |-> Sizes[m][trees[k]]]
                = [k \in DOMAIN trees |-> Sizes[n][trees[k]]]
          BY <2>1, <2>2
        <5> QED
          BY <5>1, Zenon DEF Held, SumOf
      <4> QED
        BY <2>2, <2>3, <4>1, <4>2, <4>3, Zenon DEF TreeSized
    <3>4. CASE \E members \in Seq(Strings \X TreesTo[n]) : tree = <<"object", members>>
      <4>1. PICK members \in Seq(Strings \X TreesTo[n]) : tree = <<"object", members>>
        BY <3>4
      <4>2. members \in Seq(Strings \X TreesTo[m])
        BY <2>2, KeyedDeeper
      <4>3. HeldKeyed(m, members) = HeldKeyed(n, members)
        <5>1. ASSUME NEW k \in DOMAIN members
              PROVE  KeySizes(m)[members[k]] = KeySizes(n)[members[k]]
          <6>1. members[k] \in Strings \X TreesTo[n] /\ members[k] \in Strings \X TreesTo[m]
            BY <4>2
          <6>2. Sizes[m][members[k][2]] = Sizes[n][members[k][2]]
            BY <2>1, <2>2, <6>1
          <6> QED
            BY <6>1, <6>2 DEF KeySizes
        <5> QED
          BY <5>1, Zenon DEF HeldKeyed, SumOf
      <4> QED
        BY <2>2, <2>3, <4>1, <4>2, <4>3, Zenon DEF TreeSized
    <3> QED
      BY <2>2, <3>1, <3>2, <3>3, <3>4, TreeForms, Zenon
  <2> QED
    BY <2>2, <2>4
<1>3. Nat \subseteq S
  <2> HIDE DEF S
  <2> QED
    BY <1>1, <1>2, Sums!NaturalInduction
<1> QED
  BY <1>3

(* A tree among those of nesting at most n, by its form: its text and what *)
(* it takes, from those of its children among the same trees.              *)
Shaped(n, tree) ==
  \/ \E token \in Scalars :
       tree = <<"scalar", token>> /\ Renderings[n][tree] = <<token>> /\ Sizes[n][tree] = Item
  \/ \E text \in Strings :
       /\ tree = <<"string", text>> /\ Renderings[n][tree] = <<"Q">> \o text \o <<"Q">>
       /\ Sizes[n][tree] = Item + Kept(text)
  \/ \E trees \in Seq(TreesTo[n]) :
       /\ tree = <<"array", trees>>
       /\ Renderings[n][tree] = <<"[">> \o Listed(Worded(n, trees)) \o <<"]">>
       /\ Sizes[n][tree] = Item + Held(n, trees)
  \/ \E members \in Seq(Strings \X TreesTo[n]) :
       /\ tree = <<"object", members>>
       /\ Renderings[n][tree] = <<"{">> \o Listed(Keyed(n, members)) \o <<"}">>
       /\ Sizes[n][tree] = Item + HeldKeyed(n, members)

(* Every tree has one of these forms, however much nesting is left. *)
LEMMA TreeShapes ==
  ASSUME NEW n \in Nat, NEW tree \in TreesTo[n]
  PROVE  Shaped(n, tree)
<1>1. tree \in TreesTo[n + 1] /\ Renderings[n + 1][tree] = Renderings[n][tree]
  BY TreesMonotone
<1>2. Sizes[n + 1][tree] = Sizes[n][tree]
  BY SizesMonotone
<1>3. TreeSized(n)
  BY TreeSizes, Zenon
<1>4. CASE \E token \in Scalars : tree = <<"scalar", token>>
  <2>1. PICK token \in Scalars : tree = <<"scalar", token>>
    BY <1>4
  <2>2. Renderings[n][tree] = <<token>>
    BY <1>1, <2>1, TreeTexts, Zenon
  <2>3. Sizes[n][tree] = Item
    BY <1>2, <1>3, <2>1, Zenon DEF TreeSized
  <2> QED
    BY <2>1, <2>2, <2>3, Zenon DEF Shaped
<1>5. CASE \E text \in Strings : tree = <<"string", text>>
  <2>1. PICK text \in Strings : tree = <<"string", text>>
    BY <1>5
  <2>2. Renderings[n][tree] = <<"Q">> \o text \o <<"Q">>
    BY <1>1, <2>1, TreeTexts, Zenon
  <2>3. Sizes[n][tree] = Item + Kept(text)
    BY <1>2, <1>3, <2>1, Zenon DEF TreeSized
  <2> QED
    BY <2>1, <2>2, <2>3, Zenon DEF Shaped
<1>6. CASE \E trees \in Seq(TreesTo[n]) : tree = <<"array", trees>>
  <2>1. PICK trees \in Seq(TreesTo[n]) : tree = <<"array", trees>>
    BY <1>6
  <2>2. Renderings[n][tree] = <<"[">> \o Listed(Worded(n, trees)) \o <<"]">>
    BY <1>1, <2>1, TreeTexts, Zenon
  <2>3. Sizes[n][tree] = Item + Held(n, trees)
    BY <1>2, <1>3, <2>1, Zenon DEF TreeSized
  <2> QED
    BY <2>1, <2>2, <2>3, Zenon DEF Shaped
<1>7. CASE \E members \in Seq(Strings \X TreesTo[n]) : tree = <<"object", members>>
  <2>1. PICK members \in Seq(Strings \X TreesTo[n]) : tree = <<"object", members>>
    BY <1>7
  <2>2. Renderings[n][tree] = <<"{">> \o Listed(Keyed(n, members)) \o <<"}">>
    BY <1>1, <2>1, TreeTexts, Zenon
  <2>3. Sizes[n][tree] = Item + HeldKeyed(n, members)
    BY <1>2, <1>3, <2>1, Zenon DEF TreeSized
  <2> QED
    BY <2>1, <2>2, <2>3, Zenon DEF Shaped
<1> QED
  BY <1>1, <1>4, <1>5, <1>6, <1>7, TreeForms, Zenon

(* What is left to allocate when a tree's node is there. *)
Extra(n, tree) == Sizes[n][tree] - Item

(* It is a number: no tree takes less than its node. *)
LEMMA ExtraIs ==
  ASSUME NEW n \in Nat, NEW tree \in TreesTo[n]
  PROVE  /\ Extra(n, tree) \in Nat /\ Sizes[n][tree] = Item + Extra(n, tree)
         /\ \A more \in Nat : Sizes[n][tree] = Item + more => Extra(n, tree) = more
<1>1. Sizes[n][tree] \in Nat /\ Sizes[n][tree] >= Item
  BY SizesAreNumbers, Zenon
<1> QED
  BY <1>1, ItemIsNatural DEF Extra

(* The first of a list takes its node and what it holds, then come the     *)
(* others.                                                                 *)
HeldFirst(n, tree, trees) ==
  /\ Held(n, trees) \in Nat
  /\ Held(n, <<tree>>) = Item + Extra(n, tree)
  /\ Held(n, <<tree>> \o trees) = (Item + Extra(n, tree)) + Held(n, trees)

(* So it is for the elements of an array, *)
LEMMA HeldInFront ==
  ASSUME NEW n \in Nat, NEW tree \in TreesTo[n], NEW trees \in Seq(TreesTo[n])
  PROVE  HeldFirst(n, tree, trees)
<1>1. \A t \in TreesTo[n] : Sizes[n][t] \in Nat
  BY SizesAreNumbers, Zenon
<1>2. SumsInFront(Sizes[n], tree, trees)
  BY <1>1, SumInFront, Zenon
<1>3. Sizes[n][tree] = Item + Extra(n, tree)
  BY ExtraIs, Zenon
<1> QED
  BY <1>2, <1>3, Zenon DEF SumsInFront, HeldFirst, Held

(* and with a name in front of each for the members of an object. *)
HeldKeyedFirst(n, key, tree, members) ==
  /\ HeldKeyed(n, members) \in Nat
  /\ HeldKeyed(n, << <<key, tree>> >>) = Kept(key) + (Item + Extra(n, tree))
  /\ HeldKeyed(n, << <<key, tree>> >> \o members)
       = (Kept(key) + (Item + Extra(n, tree))) + HeldKeyed(n, members)

(* So it is for those. *)
LEMMA HeldKeyedInFront ==
  ASSUME NEW n \in Nat, NEW key \in Strings, NEW tree \in TreesTo[n],
         NEW members \in Seq(Strings \X TreesTo[n])
  PROVE  HeldKeyedFirst(n, key, tree, members)
<1>1. PICK x, S, f : x = <<key, tree>> /\ S = Strings \X TreesTo[n] /\ f = KeySizes(n)
  OBVIOUS
<1>2. \A a \in S : f[a] \in Nat
  <2>1. \A a \in Strings \X TreesTo[n] : KeySizes(n)[a] \in Nat
    BY SizesAreNumbers, KeySizesAreNumbers, Zenon
  <2> QED
    BY <1>1, <2>1
<1>3. x \in S /\ members \in Seq(S)
  BY <1>1
<1>4. SumsInFront(f, x, members)
  BY <1>2, <1>3, SumInFront, Zenon
<1>5. f[x] = Kept(key) + Sizes[n][tree]
  BY <1>1 DEF KeySizes
<1>6. Sizes[n][tree] = Item + Extra(n, tree)
  BY ExtraIs, Zenon
<1> QED
  BY <1>1, <1>4, <1>5, <1>6, Zenon DEF SumsInFront, HeldKeyedFirst, HeldKeyed

(* A sequence is empty, or one element and a sequence. *)
LEMMA FirstAndRest ==
  ASSUME NEW S, NEW s \in Seq(S), s # <<>>
  PROVE  \E x \in S : \E rest \in Seq(S) : s = <<x>> \o rest
<1>1. s[1] \in S /\ Tail(s) \in Seq(S) /\ s = <<s[1]>> \o Tail(s)
  <2>1. Len(s) \in Nat /\ Len(s) # 0 /\ 1 \in DOMAIN s
    OBVIOUS
  <2>2. s[1] \in S
    BY <2>1
  <2>3. Tail(s) \in Seq(S) /\ Len(Tail(s)) = Len(s) - 1
        /\ \A i \in 1..Len(s) - 1 : Tail(s)[i] = s[i + 1]
    BY <2>1
  <2>4. PICK rest : rest = Tail(s)
    OBVIOUS
  <2>5. PICK all : all = <<s[1]>> \o rest
    OBVIOUS
  <2>6. /\ all \in Seq(S) /\ Len(all) = Len(rest) + 1 /\ all[1] = s[1]
        /\ \A i \in 1..Len(rest) : all[i + 1] = rest[i]
    BY <2>2, <2>3, <2>4, <2>5, InFront
  <2>7. Len(all) = Len(s) /\ \A k \in 1..Len(s) : all[k] = s[k]
    <3>1. Len(all) = Len(s)
      BY <2>1, <2>3, <2>4, <2>6
    <3>2. ASSUME NEW k \in 1..Len(s) PROVE all[k] = s[k]
      <4>1. CASE k = 1
        BY <2>6, <4>1
      <4>2. CASE k # 1
        <5>1. k - 1 \in 1..Len(s) - 1 /\ (k - 1) + 1 = k
          BY <2>1, <4>2
        <5> QED
          BY <2>3, <2>4, <2>6, <5>1
      <4> QED
        BY <4>1, <4>2
    <3> QED
      BY <3>1, <3>2
  <2>8. all = s
    BY <2>6, <2>7
  <2> QED
    BY <2>2, <2>3, <2>4, <2>5, <2>8
<1> QED
  BY <1>1, Zenon
-----------------------------------------------------------------------------
(* A text stands in the buffer from p to before m. *)
Stands(buf, p, m, text) ==
  /\ p \in Nat /\ p >= 1 /\ m \in Nat /\ p <= m /\ m <= Len(buf) + 1
  /\ Read(buf, p, m) = text

(* What its tokens are. *)
TokensOf(buf, p, m, text) ==
  /\ text \in AnyText /\ Len(text) = m - p
  /\ \A i \in 1..m - p : text[i] = buf[p + i - 1] /\ text[i] = At(buf, p + i - 1)

(* Of a text that stands in the buffer they are those of the buffer. *)
LEMMA StandsTokens ==
  ASSUME NEW buf \in AnyText, NEW p, NEW m, NEW text, Stands(buf, p, m, text)
  PROVE  TokensOf(buf, p, m, text)
<1>1. /\ p \in Nat /\ p >= 1 /\ m \in Nat /\ p <= m /\ m <= Len(buf) + 1
      /\ text = SubSeq(buf, p, m - 1) /\ Len(buf) \in Nat /\ DOMAIN buf = 1..Len(buf)
  BY LengthOf DEF Stands, Read, AnyText
<1>2. \A i \in p..m - 1 : buf[i] \in Tokens
  BY <1>1 DEF AnyText
<1>3. /\ SubSeq(buf, p, m - 1) \in Seq(Tokens)
      /\ Len(SubSeq(buf, p, m - 1)) = IF p <= m - 1 THEN (m - 1) - p + 1 ELSE 0
      /\ \A i \in 1..(m - 1) - p + 1 : SubSeq(buf, p, m - 1)[i] = buf[p + i - 1]
  BY <1>1, <1>2, SubSeqProperties
<1>4. text \in AnyText /\ Len(text) = m - p
  BY <1>1, <1>3 DEF AnyText
<1>5. ASSUME NEW i \in 1..m - p PROVE text[i] = buf[p + i - 1] /\ text[i] = At(buf, p + i - 1)
  <2>1. i \in 1..(m - 1) - p + 1 /\ p + i - 1 \in 1..Len(buf)
    BY <1>1
  <2> QED
    BY <1>1, <1>3, <2>1 DEF At
<1> QED
  BY <1>4, <1>5 DEF TokensOf

(* Texts with the same tokens are the same. *)
LEMMA SameTexts ==
  ASSUME NEW s \in AnyText, NEW t \in AnyText, Len(s) = Len(t),
         \A i \in 1..Len(t) : s[i] = t[i]
  PROVE  s = t
BY DEF AnyText

(* A text of two parts stands as its two parts. *)
SplitAt(buf, p, q, m, a, b) == Stands(buf, p, q, a) /\ Stands(buf, q, m, b)

(* The first part ends where the second begins. *)
LEMMA Splits ==
  ASSUME NEW buf \in AnyText, NEW p, NEW m, NEW a \in AnyText, NEW b \in AnyText,
         Stands(buf, p, m, a \o b)
  PROVE  \E q : SplitAt(buf, p, q, m, a, b)
<1>1. PICK s : s = a \o b
  OBVIOUS
<1>2. /\ Len(a) \in Nat /\ Len(b) \in Nat /\ Len(s) = Len(a) + Len(b)
      /\ \A i \in 1..Len(a) : s[i] = a[i]
      /\ \A i \in 1..Len(b) : s[i + Len(a)] = b[i]
  BY <1>1, LengthOf DEF AnyText
<1>3. /\ Len(s) = m - p
      /\ \A i \in 1..m - p : s[i] = buf[p + i - 1]
  <2>1. TokensOf(buf, p, m, s)
    BY <1>1, StandsTokens, Zenon
  <2> QED
    BY <2>1, Zenon DEF TokensOf
<1>4. p \in Nat /\ p >= 1 /\ m \in Nat /\ p <= m /\ m <= Len(buf) + 1 /\ Len(buf) \in Nat
  BY LengthOf DEF Stands
<1>5. PICK q : q = p + Len(a)
  OBVIOUS
<1>6. q \in Nat /\ p <= q /\ q <= m /\ m - q = Len(b) /\ q - p = Len(a) /\ q >= 1
  <2>1. PICK i, j, k : i = Len(a) /\ j = Len(b) /\ k = Len(s)
    OBVIOUS
  <2>2. i \in Nat /\ j \in Nat /\ k = i + j /\ k = m - p /\ q = p + i
    BY <1>2, <1>3, <1>5, <2>1, Zenon
  <2>3. q \in Nat /\ p <= q /\ q <= m /\ m - q = j /\ q - p = i /\ q >= 1
    BY <1>4, <2>2
  <2> QED
    BY <2>1, <2>3, Zenon
<1>7. PICK x, y : x = Read(buf, p, q) /\ y = Read(buf, q, m)
  OBVIOUS
<1>8. Stands(buf, p, q, x) /\ Stands(buf, q, m, y)
  BY <1>4, <1>6, <1>7 DEF Stands
<1>9. /\ x \in AnyText /\ Len(x) = q - p /\ \A i \in 1..q - p : x[i] = buf[p + i - 1]
      /\ y \in AnyText /\ Len(y) = m - q /\ \A i \in 1..m - q : y[i] = buf[q + i - 1]
  <2>1. TokensOf(buf, p, q, x) /\ TokensOf(buf, q, m, y)
    BY <1>8, StandsTokens, Zenon
  <2> QED
    BY <2>1, Zenon DEF TokensOf
<1>10. x = a
  <2>1. \A i \in 1..Len(a) : x[i] = a[i]
    BY <1>2, <1>3, <1>4, <1>6, <1>9
  <2> QED
    BY <1>2, <1>6, <1>9, <2>1, SameTexts, Zenon
<1>11. y = b
  <2>1. ASSUME NEW i \in 1..Len(b) PROVE y[i] = b[i]
    <3>1. i + Len(a) \in 1..m - p /\ p + (i + Len(a)) - 1 = q + i - 1 /\ i \in 1..m - q
      BY <1>2, <1>4, <1>5, <1>6
    <3> QED
      BY <1>2, <1>3, <1>9, <3>1
  <2> QED
    BY <1>2, <1>6, <1>9, <2>1, SameTexts, Zenon
<1> QED
  BY <1>8, <1>10, <1>11, Zenon DEF SplitAt

(* A single token. *)
StandsMark(buf, p, m, mark) ==
  /\ p \in Nat /\ p >= 1 /\ p + 1 \in Nat /\ m = p + 1 /\ p \in 1..Len(buf)
  /\ buf[p] = mark /\ At(buf, p) = mark

(* It takes one place. *)
LEMMA MarkStands ==
  ASSUME NEW buf \in AnyText, NEW p, NEW m, NEW mark, Stands(buf, p, m, <<mark>>)
  PROVE  StandsMark(buf, p, m, mark)
<1>1. PICK s : s = <<mark>>
  OBVIOUS
<1>2. Len(s) = 1 /\ s[1] = mark
  BY <1>1
<1>3. Len(s) = m - p /\ \A i \in 1..m - p : s[i] = buf[p + i - 1] /\ s[i] = At(buf, p + i - 1)
  <2>1. TokensOf(buf, p, m, s)
    BY <1>1, StandsTokens, Zenon
  <2> QED
    BY <2>1, Zenon DEF TokensOf
<1>4. p \in Nat /\ p >= 1 /\ m \in Nat /\ p <= m /\ m <= Len(buf) + 1 /\ Len(buf) \in Nat
  BY LengthOf DEF Stands
<1>5. m = p + 1 /\ 1 \in 1..m - p /\ p + 1 - 1 = p
  <2>1. m - p = 1
    BY <1>2, <1>3, Zenon
  <2>2. p \in Nat /\ m \in Nat
    BY <1>4, Zenon
  <2> QED
    BY <2>1, <2>2
<1>6. buf[p] = mark /\ At(buf, p) = mark
  BY <1>2, <1>3, <1>5
<1> QED
  BY <1>4, <1>5, <1>6 DEF StandsMark

(* A mark and what is behind it. *)
MarkThen(buf, p, m, mark, text) ==
  /\ p \in Nat /\ p >= 1 /\ p + 1 \in Nat /\ p + 1 <= m /\ p \in 1..Len(buf)
  /\ buf[p] = mark /\ At(buf, p) = mark
  /\ Stands(buf, p + 1, m, text)

(* The text stands at the next place. *)
LEMMA MarkFirst ==
  ASSUME NEW buf \in AnyText, NEW p, NEW m, NEW mark \in Tokens, NEW text \in AnyText,
         Stands(buf, p, m, <<mark>> \o text)
  PROVE  MarkThen(buf, p, m, mark, text)
<1>1. PICK a : a = <<mark>>
  OBVIOUS
<1>2. a \in AnyText
  BY <1>1, OneToken, Zenon
<1>3. PICK q : SplitAt(buf, p, q, m, a, text)
  BY <1>1, <1>2, Splits, Zenon
<1>4. Stands(buf, p, q, a) /\ Stands(buf, q, m, text)
  BY <1>3, Zenon DEF SplitAt
<1>5. StandsMark(buf, p, q, mark)
  BY <1>1, <1>4, MarkStands, Zenon
<1>6. q <= m
  BY <1>4 DEF Stands
<1> QED
  BY <1>4, <1>5, <1>6, Zenon DEF StandsMark, MarkThen

(* A text and the mark behind it. *)
ThenMark(buf, p, q, m, text, mark) ==
  /\ Stands(buf, p, q, text) /\ q \in Nat /\ p <= q /\ m = q + 1
  /\ q \in 1..Len(buf) /\ At(buf, q) = mark

(* The mark stands at the last place. *)
LEMMA MarkLast ==
  ASSUME NEW buf \in AnyText, NEW p, NEW m, NEW mark \in Tokens, NEW text \in AnyText,
         Stands(buf, p, m, text \o <<mark>>)
  PROVE  \E q : ThenMark(buf, p, q, m, text, mark)
<1>1. PICK b : b = <<mark>>
  OBVIOUS
<1>2. b \in AnyText
  BY <1>1, OneToken, Zenon
<1>3. PICK q : SplitAt(buf, p, q, m, text, b)
  BY <1>1, <1>2, Splits, Zenon
<1>4. Stands(buf, p, q, text) /\ Stands(buf, q, m, b)
  BY <1>3, Zenon DEF SplitAt
<1>5. StandsMark(buf, q, m, mark)
  BY <1>1, <1>4, MarkStands, Zenon
<1>6. p <= q
  BY <1>4 DEF Stands
<1> QED
  BY <1>4, <1>5, <1>6, Zenon DEF StandsMark, ThenMark

(* A list between its brackets, *)
LEMMA ListStands ==
  ASSUME NEW buf \in AnyText, NEW p, NEW m, NEW open \in Tokens, NEW close \in Tokens,
         NEW list \in AnyText, Stands(buf, p, m, <<open>> \o list \o <<close>>)
  PROVE  MarkThen(buf, p, m, open, list \o <<close>>)
<1>1. PICK a, b : a = <<open>> /\ b = <<close>>
  OBVIOUS
<1>2. a \in AnyText /\ b \in AnyText
  BY <1>1, OneToken, Zenon
<1>3. list \o b \in AnyText
  BY <1>2, Joins, Zenon
<1>4. Grouped(a, list, b)
  BY <1>2, ThreeTexts, Zenon
<1>5. Stands(buf, p, m, a \o (list \o b))
  BY <1>1, <1>4, Zenon DEF Grouped
<1> QED
  BY <1>1, <1>3, <1>5, MarkFirst, Zenon

(* and an empty one. *)
LEMMA NothingStands ==
  ASSUME NEW buf \in AnyText, NEW p, NEW m, NEW open \in Tokens, NEW close \in Tokens,
         NEW none, none = <<>>, Stands(buf, p, m, <<open>> \o none \o <<close>>)
  PROVE  At(buf, p) = open /\ At(buf, p + 1) = close /\ m = p + 2 /\ p \in Nat
<1>1. none \in AnyText /\ none \o <<close>> = <<close>>
  BY EmptySeq DEF AnyText
<1>2. MarkThen(buf, p, m, open, <<close>>)
  BY <1>1, ListStands, Zenon
<1>3. StandsMark(buf, p + 1, m, close)
  BY <1>2, MarkStands, Zenon DEF MarkThen
<1> QED
  BY <1>2, <1>3 DEF StandsMark, MarkThen
-----------------------------------------------------------------------------
(* A string of the buffer between its quotes, as parse_string finds it. *)
StringAt(buf, p, m, text) ==
  /\ p \in Nat /\ p >= 1 /\ p < m /\ At(buf, p) = "Q" /\ StringEnd(buf, p) + 1 = m
  /\ SubSeq(buf, p + 1, StringEnd(buf, p) - 1) = text

(* StringEnd finds the quote that closes it: the text has none. *)
LEMMA StringStands ==
  ASSUME NEW buf \in AnyText, NEW p, NEW m, NEW text \in Strings,
         Stands(buf, p, m, <<"Q">> \o text \o <<"Q">>)
  PROVE  StringAt(buf, p, m, text)
<1>1. text \in AnyText /\ "Q" \in Tokens
  BY MarksAreTokens
<1>2. MarkThen(buf, p, m, "Q", text \o <<"Q">>)
  BY <1>1, ListStands, Zenon
<1>3. /\ p \in Nat /\ p >= 1 /\ p + 1 \in Nat /\ At(buf, p) = "Q"
      /\ Stands(buf, p + 1, m, text \o <<"Q">>)
  BY <1>2, Zenon DEF MarkThen
<1>4. PICK q : ThenMark(buf, p + 1, q, m, text, "Q")
  BY <1>1, <1>3, MarkLast, Zenon
<1>5. /\ Stands(buf, p + 1, q, text) /\ q \in Nat /\ p + 1 <= q /\ m = q + 1
      /\ q \in 1..Len(buf) /\ At(buf, q) = "Q"
  BY <1>4, Zenon DEF ThenMark
<1>6. TokensOf(buf, p + 1, q, text)
  BY <1>5, StandsTokens, Zenon
<1>7. \A i \in 1..q - (p + 1) : text[i] = At(buf, (p + 1) + i - 1) /\ Len(text) = q - (p + 1)
  BY <1>6, Zenon DEF TokensOf
<1>8. ASSUME NEW i \in p + 1..q - 1 PROVE At(buf, i) \notin {"Q", "NUL"}
  <2>1. i - p \in 1..q - (p + 1) /\ (p + 1) + (i - p) - 1 = i
    BY <1>3, <1>5
  <2>2. text[i - p] = At(buf, i) /\ i - p \in 1..Len(text)
    BY <1>7, <2>1
  <2>3. text[i - p] \in Tokens \ {"Q", "NUL"}
    BY <2>2 DEF Strings
  <2> QED
    BY <2>2, <2>3
<1>9. PICK e : e = StringEnd(buf, p)
  OBVIOUS
<1>10. e \in p + 1..Len(buf) + 1 /\ At(buf, e) \in {"Q", "NUL"}
       /\ \A i \in p + 1..e - 1 : At(buf, i) \notin {"Q", "NUL"}
  BY <1>3, <1>9, StringEnds, Zenon
<1>11. e = q
  <2>1. Len(buf) \in Nat
    BY LengthOf
  <2>2. e \notin p + 1..q - 1
    BY <1>8, <1>10
  <2>3. q \notin p + 1..e - 1
    BY <1>5, <1>10
  <2> QED
    BY <1>3, <1>5, <1>10, <2>1, <2>2, <2>3
<1>12. text = SubSeq(buf, p + 1, q - 1)
  BY <1>5, Zenon DEF Stands, Read
<1>13. p < m
  BY <1>3, <1>5
<1> QED
  BY <1>3, <1>5, <1>9, <1>11, <1>12, <1>13, Zenon DEF StringAt

(* A place before the next one. *)
LEMMA BeforeNext ==
  \A i, j \in Nat : i + 1 <= j => i < j /\ i + 1 \in Nat
OBVIOUS

(* The text of a tree is not empty and does not begin with a bracket that  *)
(* closes.                                                                 *)
BeginsAt(buf, p, m) == p \in Nat /\ p >= 1 /\ p < m /\ m \in Nat /\ At(buf, p) # "]"

(* Whatever the tree is. *)
LEMMA TreeBegins ==
  ASSUME NEW buf \in AnyText, NEW n \in Nat, NEW tree \in TreesTo[n], NEW p, NEW m,
         Stands(buf, p, m, Renderings[n][tree])
  PROVE  BeginsAt(buf, p, m)
<1>1. p \in Nat /\ p >= 1 /\ m \in Nat
  BY DEF Stands
<1>2. "Q" # "]" /\ "[" # "]" /\ "{" # "]" /\ "]" \notin Scalars
  BY JsonAssumption DEF Marks
<1>3. "[" \in Tokens /\ "]" \in Tokens /\ "{" \in Tokens /\ "}" \in Tokens
  BY MarksAreTokens, Zenon
<1>4. Shaped(n, tree)
  BY TreeShapes, Zenon
<1>5. \A mark, text : MarkThen(buf, p, m, mark, text) => p + 1 <= m /\ At(buf, p) = mark
  BY Zenon DEF MarkThen
<1>6. CASE \E token \in Scalars : Renderings[n][tree] = <<token>>
  <2>1. PICK token \in Scalars : Renderings[n][tree] = <<token>>
    BY <1>6
  <2>2. StandsMark(buf, p, m, token)
    BY <2>1, MarkStands, Zenon
  <2> QED
    BY <1>1, <1>2, <2>2 DEF StandsMark, BeginsAt
<1>7. CASE \E text \in Strings : Renderings[n][tree] = <<"Q">> \o text \o <<"Q">>
  <2>1. PICK text \in Strings : Renderings[n][tree] = <<"Q">> \o text \o <<"Q">>
    BY <1>7
  <2>2. StringAt(buf, p, m, text)
    BY <2>1, StringStands, Zenon
  <2> QED
    BY <1>1, <1>2, <2>2, Zenon DEF StringAt, BeginsAt
<1>8. ASSUME NEW open \in {"[", "{"}, NEW close \in Tokens, NEW list \in AnyText,
             Renderings[n][tree] = <<open>> \o list \o <<close>>
      PROVE  BeginsAt(buf, p, m)
  <2>1. open \in Tokens /\ open # "]"
    BY <1>2, <1>3
  <2>2. MarkThen(buf, p, m, open, list \o <<close>>)
    BY <1>8, <2>1, ListStands, Zenon
  <2>3. p + 1 <= m /\ At(buf, p) = open
    BY <1>5, <2>2, Zenon
  <2>4. p < m
    BY <1>1, <2>3, BeforeNext, Zenon
  <2> QED
    BY <1>1, <2>1, <2>3, <2>4, Zenon DEF BeginsAt
<1>9. \A trees \in Seq(TreesTo[n]) : Listed(Worded(n, trees)) \in AnyText
  BY WordedAreTexts, ListedIsText, Zenon
<1>10. \A members \in Seq(Strings \X TreesTo[n]) : Listed(Keyed(n, members)) \in AnyText
  BY KeyedAreTexts, ListedIsText, Zenon
<1>11. "[" \in {"[", "{"} /\ "{" \in {"[", "{"}
  OBVIOUS
<1> QED
  BY <1>3, <1>4, <1>6, <1>7, <1>8, <1>9, <1>10, <1>11, Zenon DEF Shaped

(* One element and nothing behind it. *)
LEMMA OneAlone ==
  \A x : <<x>> \o <<>> = <<x>>
<1> SUFFICES ASSUME NEW x PROVE <<x>> \o <<>> = <<x>>
  OBVIOUS
<1>1. <<x>> \in Seq({x}) /\ \A s \in Seq({x}) : s \o <<>> = s
  BY ConcatEmptySeq
<1> QED
  BY <1>1, Zenon

(* Nothing is written as nothing. *)
LEMMA NothingWritten ==
  \A n : Worded(n, <<>>) = <<>> /\ Keyed(n, <<>>) = <<>>
BY DEF Worded, Keyed

(* A member is a key and a tree. *)
LEMMA MemberParts ==
  ASSUME NEW n, NEW x \in Strings \X TreesTo[n]
  PROVE  \E key \in Strings, tree \in TreesTo[n] : x = <<key, tree>>
OBVIOUS

(* The first of a list, and what the mark behind it says. *)
ListApart(buf, p, q, m, text, texts, close) ==
  /\ Stands(buf, p, q, text) /\ p \in Nat /\ p >= 1 /\ p <= q /\ q < m
  /\ q \in Nat /\ q + 1 \in Nat /\ m \in Nat
  /\ texts = <<>> => At(buf, q) = close /\ m = q + 1
  /\ texts # <<>> => At(buf, q) = "," /\ Stands(buf, q + 1, m, Listed(texts) \o <<close>>)

(* The list ends there, or a comma and the rest of it stand there. *)
LEMMA ListComesApart ==
  ASSUME NEW buf \in AnyText, NEW p, NEW m, NEW text \in AnyText, NEW texts \in Seq(AnyText),
         NEW close \in Tokens, Stands(buf, p, m, Listed(<<text>> \o texts) \o <<close>>)
  PROVE  \E q : ListApart(buf, p, q, m, text, texts, close)
<1>1. p \in Nat /\ p >= 1 /\ m \in Nat
  BY DEF Stands
<1>2. CASE texts = <<>>
  <2>1. <<text>> \o texts = <<text>>
    BY <1>2, OneAlone, Zenon
  <2>2. Listed(<<text>>) = text
    BY ListedFirst, Zenon
  <2>3. Stands(buf, p, m, text \o <<close>>)
    BY <2>1, <2>2, Zenon
  <2>4. PICK q : ThenMark(buf, p, q, m, text, close)
    BY <2>3, MarkLast, Zenon
  <2>5. Stands(buf, p, q, text) /\ q \in Nat /\ p <= q /\ m = q + 1 /\ At(buf, q) = close
    BY <2>4, Zenon DEF ThenMark
  <2>6. q < m /\ q + 1 \in Nat
    BY <2>5
  <2> QED
    BY <1>1, <1>2, <2>5, <2>6, Zenon DEF ListApart
<1>3. CASE texts # <<>>
  <2>1. PICK c, l, b : c = <<",">> /\ l = Listed(texts) /\ b = <<close>>
    OBVIOUS
  <2>2. c \in AnyText /\ l \in AnyText /\ b \in AnyText /\ "," \in Tokens
    BY <2>1, MarksAreTokens, OneToken, ListedIsText
  <2>3. Listed(<<text>> \o texts) = text \o (c \o l)
    BY <1>3, <2>1, ListedFirst, Zenon
  <2>4. PICK cl, lb : cl = c \o l /\ lb = l \o b
    OBVIOUS
  <2>5. cl \in AnyText /\ lb \in AnyText
    BY <2>2, <2>4, Joins, Zenon
  <2>6. Grouped(text, cl, b) /\ Grouped(c, l, b)
    BY <2>2, <2>5, ThreeTexts, Zenon
  <2>7. Stands(buf, p, m, text \o (c \o lb))
    BY <2>1, <2>3, <2>4, <2>6, Zenon DEF Grouped
  <2>8. c \o lb \in AnyText
    BY <2>2, <2>5, Joins, Zenon
  <2>9. PICK q : SplitAt(buf, p, q, m, text, c \o lb)
    BY <2>7, <2>8, Splits, Zenon
  <2>10. Stands(buf, p, q, text) /\ Stands(buf, q, m, c \o lb)
    BY <2>9, Zenon DEF SplitAt
  <2>11. MarkThen(buf, q, m, ",", lb)
    BY <2>1, <2>2, <2>5, <2>10, MarkFirst, Zenon
  <2>12. At(buf, q) = "," /\ Stands(buf, q + 1, m, lb) /\ q \in Nat /\ q + 1 <= m
    BY <2>11, Zenon DEF MarkThen
  <2>13. p <= q
    BY <2>10, Zenon DEF Stands
  <2>14. q < m /\ q + 1 \in Nat
    BY <1>1, <2>12, BeforeNext, Zenon
  <2> QED
    BY <1>1, <1>3, <2>1, <2>4, <2>10, <2>12, <2>13, <2>14, Zenon DEF ListApart
<1> QED
  BY <1>2, <1>3

(* A member: its key, a colon and its value. *)
MemberApart(buf, p, k, q, key, text) ==
  /\ Stands(buf, p, k, <<"Q">> \o key \o <<"Q">>) /\ At(buf, k) = ":" /\ k \in Nat /\ k >= 1
  /\ p < k /\ k + 1 \in Nat /\ Stands(buf, k + 1, q, text)

(* They stand one behind the other. *)
LEMMA MemberComesApart ==
  ASSUME NEW buf \in AnyText, NEW p, NEW q, NEW key \in Strings, NEW text \in AnyText,
         Stands(buf, p, q, Named(key, text))
  PROVE  \E k : MemberApart(buf, p, k, q, key, text)
<1>1. PICK a, c, d : a = <<"Q">> /\ c = <<":">> /\ d = <<"Q", ":">>
  OBVIOUS
<1>2. key \in AnyText /\ a \in AnyText /\ c \in AnyText /\ ":" \in Tokens
  BY <1>1, MarksAreTokens, OneToken
<1>3. d = a \o c
  BY <1>1, TwoTokens, Zenon
<1>4. PICK x, y : x = a \o key /\ y = a \o key \o a
  OBVIOUS
<1>5. x \in AnyText /\ y \in AnyText
  BY <1>2, <1>4, Joins, Zenon
<1>6. Grouped(x, a, c) /\ Grouped(y, c, text)
  BY <1>2, <1>5, ThreeTexts, Zenon
<1>7. Named(key, text) = y \o (c \o text)
  BY <1>1, <1>3, <1>4, <1>6, Zenon DEF Named, Grouped
<1>8. c \o text \in AnyText
  BY <1>2, Joins, Zenon
<1>9. PICK k : SplitAt(buf, p, k, q, y, c \o text)
  BY <1>5, <1>7, <1>8, Splits, Zenon
<1>10. Stands(buf, p, k, y) /\ Stands(buf, k, q, c \o text)
  BY <1>9, Zenon DEF SplitAt
<1>11. MarkThen(buf, k, q, ":", text)
  BY <1>1, <1>2, <1>10, MarkFirst, Zenon
<1>12. /\ At(buf, k) = ":" /\ k \in Nat /\ k >= 1 /\ k + 1 \in Nat
       /\ Stands(buf, k + 1, q, text)
  BY <1>11, Zenon DEF MarkThen
<1>13. StringAt(buf, p, k, key)
  BY <1>1, <1>4, <1>10, StringStands, Zenon
<1>14. p < k
  BY <1>13, Zenon DEF StringAt
<1> QED
  BY <1>1, <1>4, <1>10, <1>12, <1>14, Zenon DEF MemberApart
-----------------------------------------------------------------------------
(* What is left when need more bytes are to be had: the whole tree, or     *)
(* nothing.  A string that does not fit leaves the place where it is.      *)
ValueFits(buf, limit, p, m, used, need, r, tree) ==
  /\ used + need <= limit => LeftIs(r, m, used + need, tree)
  /\ ~(used + need <= limit) => r.p = Null \/ (r.p = p /\ At(buf, p) = "Q")

(* What a list that cannot be had leaves: no place and no tree. *)
Nothing(r) == r.p = Null /\ r.tree = NoTree

(* A list is whole, or nothing. *)
ListFits(limit, m, used, need, r, tree) ==
  /\ used + need <= limit => LeftIs(r, m, used + need, tree)
  /\ ~(used + need <= limit) => Nothing(r)

(* The calls of parse take the texts of at most d tokens as they should. *)
ValuesFit(n, buf, limit, d, value) ==
  \A tree \in TreesTo[n] : \A p, m, used \in Nat :
    Stands(buf, p, m, Renderings[n][tree]) /\ m <= p + d /\ used <= limit =>
      ValueFits(buf, limit, p, m, used, Extra(n, tree), value[p][used], tree)

(* The same for the elements of an array up to its closing bracket, *)
ElementsFit(n, buf, limit, d, elements) ==
  \A trees \in Seq(TreesTo[n]) : \A p, m, used \in Nat :
    /\ trees # <<>> /\ Stands(buf, p, m, Listed(Worded(n, trees)) \o <<"]">>)
    /\ m <= p + d /\ used <= limit
    => ListFits(limit, m, used, Held(n, trees), elements[p][used], <<"array", trees>>)

(* for the members of an object, *)
MembersFit(n, buf, limit, d, members) ==
  \A list \in Seq(Strings \X TreesTo[n]) : \A p, m, used \in Nat :
    /\ list # <<>> /\ Stands(buf, p, m, Listed(Keyed(n, list)) \o <<"}">>)
    /\ m <= p + d /\ used <= limit
    => ListFits(limit, m, used, HeldKeyed(n, list), members[p][used], <<"object", list>>)

(* and for all three. *)
Fits(n, buf, limit, d, parse) ==
  /\ ValuesFit(n, buf, limit, d, parse["value"])
  /\ ElementsFit(n, buf, limit, d, parse["elements"])
  /\ MembersFit(n, buf, limit, d, parse["members"])

(* What the turns of a loop take adds up: node by node, from the first. *)
AddsUp(limit, used, first, then, more) ==
  LET now == used + first
      next == now + then
  IN  /\ now \in Nat /\ next \in Nat /\ next + more \in Nat
      /\ used + (first + then) = next
      /\ used + ((first + then) + more) = next + more
      /\ next <= limit => now <= limit
      /\ next + more <= limit => next <= limit
      /\ now <= limit <=> ~(now > limit)

(* A part fits when the whole does. *)
LEMMA Adds ==
  ASSUME NEW limit \in Nat, NEW used \in Nat, NEW first \in Nat, NEW then \in Nat, NEW more \in Nat
  PROVE  AddsUp(limit, used, first, then, more)
BY DEF AddsUp

(* One turn of parse_array's loop. *)
LEMMA ElementsStepFits ==
  ASSUME NEW n \in Nat, NEW buf \in AnyText, NEW limit \in Nat, NEW d \in Nat, NEW parse,
         Fits(n, buf, limit, d, parse),
         NEW trees \in Seq(TreesTo[n]), NEW p \in Nat, NEW m \in Nat, NEW used \in Nat,
         trees # <<>>, Stands(buf, p, m, Listed(Worded(n, trees)) \o <<"]">>),
         m <= p + (d + 1)
  PROVE  ListFits(limit, m, used, Held(n, trees), ParseElements(parse, buf, limit, p, used),
                  <<"array", trees>>)
<1>1. PICK tree \in TreesTo[n] : \E rest \in Seq(TreesTo[n]) : trees = <<tree>> \o rest
  BY FirstAndRest
<1>2. PICK others \in Seq(TreesTo[n]) : trees = <<tree>> \o others
  BY <1>1
<1>3. HeldFirst(n, tree, others) /\ WordsInFront(n, tree, others)
  BY HeldInFront, WordedFirst, Zenon
<1>4. PICK text, texts : text = Renderings[n][tree] /\ texts = Worded(n, others)
  OBVIOUS
<1>5. /\ text \in AnyText /\ texts \in Seq(AnyText) /\ "]" \in Tokens
      /\ others = <<>> <=> texts = <<>>
  <2>1. others = <<>> => texts = <<>>
    BY <1>4, NothingWritten, Zenon
  <2> QED
    BY <1>3, <1>4, <2>1, RenderingsAreTexts, MarksAreTokens, Zenon DEF WordsInFront
<1>6. PICK q : ListApart(buf, p, q, m, text, texts, "]")
  <2>1. Stands(buf, p, m, Listed(<<text>> \o texts) \o <<"]">>)
    BY <1>2, <1>3, <1>4, Zenon DEF WordsInFront
  <2> QED
    BY <1>5, <2>1, ListComesApart, Zenon
<1>7. /\ Stands(buf, p, q, text) /\ p >= 1 /\ p <= q /\ q < m /\ q \in Nat /\ q + 1 \in Nat
      /\ texts = <<>> => At(buf, q) = "]" /\ m = q + 1
      /\ texts # <<>> => At(buf, q) = "," /\ Stands(buf, q + 1, m, Listed(texts) \o <<"]">>)
  BY <1>6, Zenon DEF ListApart
<1>8. p # Null /\ q # Null /\ q <= p + d /\ m <= (q + 1) + d
  <2>1. p >= 1 /\ p <= q /\ q < m /\ q \in Nat
    BY <1>7, Zenon
  <2> QED
    BY <2>1 DEF Null
<1>9. PICK element, rest, all : ElementsExact(parse, buf, limit, p, used, element, rest, all)
  BY ElementsCases, Zenon
<1>10. PICK now, e, next, h : /\ now = used + Item /\ e = Extra(n, tree) /\ next = now + e
                              /\ h = Held(n, others)
  OBVIOUS
<1>11. e \in Nat /\ h \in Nat /\ Item \in Nat
  BY <1>3, <1>10, ExtraIs, ItemIsNatural, Zenon DEF HeldFirst
<1>12. AddsUp(limit, used, Item, e, h)
  BY <1>11, Adds, Zenon
<1>13. /\ now \in Nat /\ next \in Nat /\ used + (Item + e) = next
       /\ used + ((Item + e) + h) = next + h
       /\ next <= limit => now <= limit
       /\ next + h <= limit => next <= limit
       /\ now <= limit <=> ~(now > limit)
  BY <1>10, <1>12, Zenon DEF AddsUp
(* The element. *)
<1>14. ASSUME next <= limit
       PROVE  LeftIs(element, q, next, tree) /\ ~(now > limit) /\ element.p # Null
  <2>1. ValueFits(buf, limit, p, q, now, e, parse["value"][p][now], tree)
    BY <1>4, <1>7, <1>8, <1>10, <1>13, <1>14, Zenon DEF Fits, ValuesFit
  <2>2. LeftIs(element, q, next, tree)
    BY <1>9, <1>10, <1>14, <2>1, Zenon DEF ElementsExact, ValueFits
  <2> QED
    BY <1>8, <1>13, <1>14, <2>2, Zenon DEF LeftIs
<1>15. ASSUME ~(next <= limit) PROVE Nothing(all)
  <2>1. CASE now > limit
    BY <1>9, <1>10, <2>1, Refuses, Zenon DEF ElementsExact, Nothing
  <2>2. CASE now <= limit
    <3>1. ValueFits(buf, limit, p, q, now, e, parse["value"][p][now], tree)
      BY <1>4, <1>7, <1>8, <1>10, <1>13, <2>2, Zenon DEF Fits, ValuesFit
    <3>2. element.p = Null \/ (element.p = p /\ At(buf, p) = "Q")
      BY <1>9, <1>10, <1>15, <3>1, Zenon DEF ElementsExact, ValueFits
    <3>3. "Q" \notin {",", "]"}
      OBVIOUS
    <3>4. all = Refused(used) \/ all = Refused(element.used)
      BY <1>8, <1>9, <1>10, <1>13, <2>2, <3>2, <3>3, Zenon DEF ElementsExact
    <3> QED
      BY <3>4, Refuses, Zenon DEF Nothing
  <2> QED
    BY <1>13, <2>1, <2>2, Zenon
(* The others, if there are any. *)
<1>16. CASE others = <<>>
  <2>1. trees = <<tree>>
    BY <1>2, <1>16, OneAlone, Zenon
  <2>2. used + Held(n, trees) = next
    BY <1>3, <1>10, <1>13, <2>1, Zenon DEF HeldFirst
  <2>3. ASSUME next <= limit PROVE LeftIs(all, m, next, <<"array", trees>>)
    <3>1. all = Left(q + 1, next, <<"array", <<tree>>>>)
      BY <1>5, <1>7, <1>9, <1>10, <1>14, <1>16, <2>3, Zenon DEF ElementsExact, LeftIs
    <3> QED
      BY <1>5, <1>7, <1>16, <2>1, <3>1, LeavesThat, Zenon
  <2> QED
    BY <1>9, <1>15, <2>2, <2>3, Zenon DEF ListFits, ElementsExact
<1>17. CASE others # <<>>
  <2>1. used + Held(n, trees) = next + h
    BY <1>2, <1>3, <1>10, <1>13, Zenon DEF HeldFirst
  <2>2. ASSUME next <= limit
        PROVE  all = Joined(tree, rest) /\ ListFits(limit, m, next, h, rest, <<"array", others>>)
    <3>1. At(buf, q) = "," /\ Stands(buf, q + 1, m, Listed(Worded(n, others)) \o <<"]">>)
      BY <1>4, <1>5, <1>7, <1>17, Zenon
    <3>2. all = Joined(tree, rest)
      BY <1>9, <1>10, <1>14, <2>2, <3>1, Zenon DEF ElementsExact, LeftIs
    <3>3. ListFits(limit, m, next, h, parse["elements"][q + 1][next], <<"array", others>>)
      BY <1>7, <1>8, <1>10, <1>13, <1>17, <2>2, <3>1, Zenon DEF Fits, ElementsFit
    <3> QED
      BY <1>9, <1>14, <2>2, <3>2, <3>3, Zenon DEF ElementsExact, LeftIs
  <2>3. JoinedIs(Joined(tree, rest), tree, rest)
    BY JoinedThat, Zenon
  <2>4. ASSUME next + h <= limit PROVE LeftIs(all, m, next + h, <<"array", trees>>)
    <3>1. LeftIs(rest, m, next + h, <<"array", others>>) /\ all = Joined(tree, rest)
      BY <1>13, <2>2, <2>4, Zenon DEF ListFits
    <3> QED
      BY <1>2, <2>3, <3>1, TreesAreTrees, Zenon DEF LeftIs, JoinedIs
  <2>5. ASSUME ~(next + h <= limit), next <= limit PROVE Nothing(all)
    <3>1. Nothing(rest) /\ all = Joined(tree, rest)
      BY <2>2, <2>5, Zenon DEF ListFits
    <3> QED
      BY <3>1, Zenon DEF Nothing, Joined
  <2> QED
    BY <1>9, <1>13, <1>15, <2>1, <2>4, <2>5, Zenon DEF ListFits, ElementsExact
<1> QED
  BY <1>16, <1>17

(* parse_string takes a whole string, or nothing. *)
StringFits(buf, limit, p, m, used, need, r, text) ==
  /\ used + need <= limit => LeftIs(r, m, used + need, <<"string", text>>)
  /\ ~(used + need <= limit) => r.p = p /\ r.tree = NoTree

(* Its closing quote is where the text ends, so Kept(text) is what it asks *)
(* for.                                                                    *)
LEMMA StringParsedFits ==
  ASSUME NEW buf \in AnyText, NEW limit \in Nat, NEW used \in Nat, NEW p, NEW m,
         NEW text \in Strings, Stands(buf, p, m, <<"Q">> \o text \o <<"Q">>)
  PROVE  StringFits(buf, limit, p, m, used, Kept(text), ParseString(buf, limit, p, used), text)
<1> DEFINE r == ParseString(buf, limit, p, used)
           end == StringEnd(buf, p)
           read == SubSeq(buf, p + 1, end - 1)
<1>1. p \in Nat /\ At(buf, p) = "Q" /\ end + 1 = m /\ read = text
  BY StringStands, Zenon DEF StringAt
<1>2. \/ used + Kept(read) > limit /\ r.p = p /\ r.used = used /\ r.tree = NoTree
      \/ /\ used + Kept(read) <= limit
         /\ r.p = end + 1 /\ r.used = used + Kept(read) /\ r.tree = <<"string", read>>
  BY <1>1, StringParsed, Zenon
<1> HIDE DEF r, end, read
<1>3. Kept(text) \in Nat
  BY KeptIsNatural DEF Strings
<1>4. used + Kept(text) > limit <=> ~(used + Kept(text) <= limit)
  BY <1>3
<1>5. StringFits(buf, limit, p, m, used, Kept(text), r, text)
  BY <1>1, <1>2, <1>4, Zenon DEF StringFits, LeftIs
<1> QED
  BY <1>5, Zenon DEF r

(* The same with a key in front of each node's children. *)
KeysAddUp(limit, used, first, key, more, others) ==
  LET now == used + first
      then == now + key
      next == then + more
  IN  /\ now \in Nat /\ then \in Nat /\ next \in Nat
      /\ used + (key + (first + more)) = next
      /\ used + ((key + (first + more)) + others) = next + others
      /\ next <= limit => then <= limit
      /\ then <= limit => now <= limit
      /\ next + others <= limit => next <= limit
      /\ now <= limit <=> ~(now > limit)

(* A part of that fits when the whole does. *)
LEMMA KeysAdd ==
  ASSUME NEW limit \in Nat, NEW used \in Nat, NEW first \in Nat, NEW key \in Nat,
         NEW more \in Nat, NEW others \in Nat
  PROVE  KeysAddUp(limit, used, first, key, more, others)
BY DEF KeysAddUp

(* What is read next stands nearer to the end. *)
LEMMA Nearer ==
  ASSUME NEW p \in Nat, NEW k \in Nat, NEW q \in Nat, NEW m \in Nat, NEW d \in Nat,
         p >= 1, p < k, p <= q, q < m, m <= p + (d + 1)
  PROVE  q # Null /\ k + 1 # Null /\ q <= (k + 1) + d /\ m <= (q + 1) + d
BY DEF Null

(* One turn of parse_object's loop. *)
LEMMA MembersStepFits ==
  ASSUME NEW n \in Nat, NEW buf \in AnyText, NEW limit \in Nat, NEW d \in Nat, NEW parse,
         Fits(n, buf, limit, d, parse),
         NEW list \in Seq(Strings \X TreesTo[n]), NEW p \in Nat, NEW m \in Nat, NEW used \in Nat,
         list # <<>>, Stands(buf, p, m, Listed(Keyed(n, list)) \o <<"}">>),
         m <= p + (d + 1)
  PROVE  ListFits(limit, m, used, HeldKeyed(n, list), ParseMembers(parse, buf, limit, p, used),
                  <<"object", list>>)
<1>1. PICK key \in Strings, tree \in TreesTo[n], others \in Seq(Strings \X TreesTo[n]) :
        list = << <<key, tree>> >> \o others
  <2>1. PICK x \in Strings \X TreesTo[n] : \E rest \in Seq(Strings \X TreesTo[n]) :
          list = <<x>> \o rest
    BY FirstAndRest
  <2>2. PICK key \in Strings, tree \in TreesTo[n] : x = <<key, tree>>
    BY MemberParts, Zenon
  <2> QED
    BY <2>1, <2>2, Zenon
<1>2. PICK member : member = <<key, tree>>
  OBVIOUS
<1>3. HeldKeyedFirst(n, key, tree, others) /\ KeysInFront(n, key, tree, others)
  BY HeldKeyedInFront, KeyedFirst, Zenon
<1>4. PICK word, text, texts : /\ word = Renderings[n][tree] /\ text = Named(key, word)
                               /\ texts = Keyed(n, others)
  OBVIOUS
<1>5. /\ word \in AnyText /\ text \in AnyText /\ texts \in Seq(AnyText) /\ "}" \in Tokens
      /\ others = <<>> <=> texts = <<>>
  <2>1. others = <<>> => texts = <<>>
    BY <1>4, NothingWritten, Zenon
  <2>2. word \in AnyText
    BY <1>4, RenderingsAreTexts
  <2> QED
    BY <1>3, <1>4, <2>1, <2>2, NamedIsText, MarksAreTokens, Zenon DEF KeysInFront
<1>6. PICK q : ListApart(buf, p, q, m, text, texts, "}")
  <2>1. Stands(buf, p, m, Listed(<<text>> \o texts) \o <<"}">>)
    BY <1>1, <1>3, <1>4, Zenon DEF KeysInFront
  <2> QED
    BY <1>5, <2>1, ListComesApart, Zenon
<1>7. /\ Stands(buf, p, q, text) /\ p >= 1 /\ p <= q /\ q < m /\ q \in Nat /\ q + 1 \in Nat
      /\ texts = <<>> => At(buf, q) = "}" /\ m = q + 1
      /\ texts # <<>> => At(buf, q) = "," /\ Stands(buf, q + 1, m, Listed(texts) \o <<"}">>)
  BY <1>6, Zenon DEF ListApart
<1>8. PICK k : MemberApart(buf, p, k, q, key, word)
  BY <1>4, <1>5, <1>7, MemberComesApart, Zenon
<1>9. /\ Stands(buf, p, k, <<"Q">> \o key \o <<"Q">>) /\ At(buf, k) = ":" /\ k \in Nat
      /\ p < k /\ k + 1 \in Nat /\ Stands(buf, k + 1, q, word)
  BY <1>8, Zenon DEF MemberApart
<1>10. q # Null /\ k + 1 # Null /\ q <= (k + 1) + d /\ m <= (q + 1) + d
  <2>1. p >= 1 /\ p <= q /\ q < m /\ q \in Nat /\ k \in Nat /\ p < k
    BY <1>7, <1>9, Zenon
  <2> QED
    BY <2>1, Nearer, Zenon
<1>11. At(buf, p) = "Q"
  BY <1>9, StringStands, Zenon DEF StringAt
<1>12. PICK named, value, rest, all :
         MembersExact(parse, buf, limit, p, used, named, value, rest, all)
  BY MembersCases, Zenon
<1>13. PICK now, c, then, e, next, h :
         /\ now = used + Item /\ c = Kept(key) /\ then = now + c /\ e = Extra(n, tree)
         /\ next = then + e /\ h = HeldKeyed(n, others)
  OBVIOUS
<1>14. c \in Nat /\ e \in Nat /\ h \in Nat /\ Item \in Nat
  <2>1. c \in Nat
    BY <1>13, KeptIsNatural DEF Strings
  <2> QED
    BY <1>3, <1>13, <2>1, ExtraIs, ItemIsNatural, Zenon DEF HeldKeyedFirst
<1>15. /\ now \in Nat /\ then \in Nat /\ next \in Nat /\ used + (c + (Item + e)) = next
       /\ used + ((c + (Item + e)) + h) = next + h
       /\ next <= limit => then <= limit
       /\ then <= limit => now <= limit
       /\ next + h <= limit => next <= limit
       /\ now <= limit <=> ~(now > limit)
  <2>1. KeysAddUp(limit, used, Item, c, e, h)
    BY <1>14, KeysAdd, Zenon
  <2> QED
    BY <1>13, <2>1, Zenon DEF KeysAddUp
<1>16. StringFits(buf, limit, p, k, now, c, named, key)
  BY <1>9, <1>12, <1>13, <1>15, StringParsedFits, Zenon DEF MembersExact
<1>17. <<"string", key>> # NoTree /\ <<"string", key>>[2] = key
  BY DEF NoTree
(* The key and its value. *)
<1>18. ASSUME then <= limit
       PROVE  /\ LeftIs(named, k, then, <<"string", key>>) /\ ~(now > limit)
              /\ ValueFits(buf, limit, k + 1, q, then, e, value, tree)
  <2>1. LeftIs(named, k, then, <<"string", key>>)
    BY <1>13, <1>16, <1>18, Zenon DEF StringFits
  <2>2. ValueFits(buf, limit, k + 1, q, then, e, parse["value"][k + 1][then], tree)
    BY <1>4, <1>7, <1>9, <1>10, <1>13, <1>15, <1>18, Zenon DEF Fits, ValuesFit
  <2> QED
    BY <1>12, <1>15, <1>18, <2>1, <2>2, Zenon DEF MembersExact, LeftIs
<1>19. ASSUME next <= limit
       PROVE  /\ LeftIs(value, q, next, tree) /\ value.p # Null /\ ~(now > limit)
              /\ named.tree # NoTree /\ At(buf, named.p) = ":" /\ named.tree[2] = key
  <2>1. /\ LeftIs(named, k, then, <<"string", key>>) /\ ~(now > limit)
        /\ ValueFits(buf, limit, k + 1, q, then, e, value, tree)
    BY <1>15, <1>18, <1>19, Zenon
  <2>2. LeftIs(value, q, next, tree)
    BY <1>13, <1>19, <2>1, Zenon DEF ValueFits
  <2> QED
    BY <1>9, <1>10, <1>17, <2>1, <2>2, Zenon DEF LeftIs
<1>20. ASSUME ~(next <= limit) PROVE Nothing(all)
  <2>1. CASE now > limit
    BY <1>12, <1>13, <2>1, Refuses, Zenon DEF MembersExact, Nothing
  <2>2. CASE now <= limit /\ ~(then <= limit)
    <3>1. named.tree = NoTree
      BY <1>13, <1>16, <2>2, Zenon DEF StringFits
    <3> QED
      BY <1>12, <3>1, Refuses, Zenon DEF MembersExact, Nothing
  <2>3. CASE then <= limit
    <3>1. /\ LeftIs(named, k, then, <<"string", key>>) /\ ~(now > limit)
          /\ ValueFits(buf, limit, k + 1, q, then, e, value, tree)
      BY <1>18, <2>3, Zenon
    <3>2. value.p = Null \/ (value.p = k + 1 /\ At(buf, k + 1) = "Q")
      BY <1>13, <1>20, <3>1, Zenon DEF ValueFits
    <3>3. "Q" \notin {",", "}"}
      OBVIOUS
    <3>4. named.tree # NoTree /\ At(buf, named.p) = ":"
      BY <1>9, <1>17, <3>1, Zenon DEF LeftIs
    <3>5. CASE value.p = Null
      <4>1. all = Refused(used)
        BY <1>12, <3>5, Zenon DEF MembersExact
      <4> QED
        BY <4>1, Refuses, Zenon DEF Nothing
    <3>6. CASE value.p = k + 1 /\ At(buf, k + 1) = "Q"
      <4>1. all = Refused(value.used)
        BY <1>10, <1>11, <1>12, <1>13, <3>1, <3>3, <3>4, <3>6, Zenon DEF MembersExact
      <4> QED
        BY <4>1, Refuses, Zenon DEF Nothing
    <3> QED
      BY <3>2, <3>5, <3>6
  <2> QED
    BY <1>15, <2>1, <2>2, <2>3, Zenon
(* The others, if there are any. *)
<1>21. CASE others = <<>>
  <2>1. list = <<member>>
    BY <1>1, <1>2, <1>21, OneAlone, Zenon
  <2>2. used + HeldKeyed(n, list) = next
    BY <1>2, <1>3, <1>13, <1>15, <2>1, Zenon DEF HeldKeyedFirst
  <2>3. ASSUME next <= limit PROVE LeftIs(all, m, next, <<"object", list>>)
    <3>1. At(buf, q) = "}" /\ m = q + 1
      BY <1>5, <1>7, <1>21, Zenon
    <3>2. LeftIs(value, q, next, tree)
      BY <1>19, <2>3, Zenon
    <3>3. all = Left(value.p + 1, value.used, <<"object", << <<named.tree[2], value.tree>> >>>>)
      BY <1>11, <1>12, <1>13, <1>19, <2>3, <3>1, <3>2, Zenon DEF MembersExact, LeftIs
    <3>4. all = Left(q + 1, next, <<"object", <<member>>>>)
      BY <1>2, <1>19, <2>3, <3>2, <3>3, Zenon DEF LeftIs
    <3> QED
      BY <2>1, <3>1, <3>4, LeavesThat, Zenon
  <2> QED
    BY <1>12, <1>20, <2>2, <2>3, Zenon DEF ListFits, MembersExact
<1>22. CASE others # <<>>
  <2>1. used + HeldKeyed(n, list) = next + h
    BY <1>1, <1>3, <1>13, <1>15, Zenon DEF HeldKeyedFirst
  <2>2. ASSUME next <= limit
        PROVE  /\ all = Joined(member, rest)
               /\ ListFits(limit, m, next, h, rest, <<"object", others>>)
    <3>1. At(buf, q) = "," /\ Stands(buf, q + 1, m, Listed(Keyed(n, others)) \o <<"}">>)
      BY <1>4, <1>5, <1>7, <1>22, Zenon
    <3>2. LeftIs(value, q, next, tree)
      BY <1>19, <2>2, Zenon
    <3>3. all = Joined(<<named.tree[2], value.tree>>, rest)
      BY <1>11, <1>12, <1>13, <1>19, <2>2, <3>1, <3>2, Zenon DEF MembersExact, LeftIs
    <3>4. all = Joined(member, rest)
      BY <1>2, <1>19, <2>2, <3>2, <3>3, Zenon DEF LeftIs
    <3>5. ListFits(limit, m, next, h, parse["members"][q + 1][next], <<"object", others>>)
      BY <1>7, <1>10, <1>13, <1>15, <1>22, <2>2, <3>1, Zenon DEF Fits, MembersFit
    <3> QED
      BY <1>12, <3>2, <3>4, <3>5, Zenon DEF MembersExact, LeftIs
  <2>3. JoinedIs(Joined(member, rest), member, rest)
    BY JoinedThat, Zenon
  <2>4. ASSUME next + h <= limit PROVE LeftIs(all, m, next + h, <<"object", list>>)
    <3>1. LeftIs(rest, m, next + h, <<"object", others>>) /\ all = Joined(member, rest)
      BY <1>15, <2>2, <2>4, Zenon DEF ListFits
    <3> QED
      BY <1>1, <1>2, <2>3, <3>1, TreesAreTrees, Zenon DEF LeftIs, JoinedIs
  <2>5. ASSUME ~(next + h <= limit), next <= limit PROVE Nothing(all)
    <3>1. Nothing(rest) /\ all = Joined(member, rest)
      BY <2>2, <2>5, Zenon DEF ListFits
    <3> QED
      BY <3>1, Zenon DEF Nothing, Joined
  <2> QED
    BY <1>12, <1>15, <1>20, <2>1, <2>4, <2>5, Zenon DEF ListFits, MembersExact
<1> QED
  BY <1>21, <1>22

(* A place before a later one. *)
LEMMA Follows ==
  \A p, q, m \in Nat : p <= q /\ q < m => p < m
OBVIOUS

(* What the members of an object take is a number. *)
LEMMA HeldKeyedIsNatural ==
  ASSUME NEW n \in Nat, NEW list \in Seq(Strings \X TreesTo[n])
  PROVE  HeldKeyed(n, list) \in Nat
<1>1. \A a \in Strings \X TreesTo[n] : KeySizes(n)[a] \in Nat
  BY SizesAreNumbers, KeySizesAreNumbers, Zenon
<1> QED
  BY <1>1, SumIsNatural, Zenon DEF HeldKeyed

(* What a bracket says of the rest of a list behind it. *)
LEMMA ListBegins ==
  ASSUME NEW buf \in AnyText, NEW n \in Nat, NEW p, NEW m
  PROVE  /\ \A trees \in Seq(TreesTo[n]) :
              trees # <<>> /\ Stands(buf, p, m, Listed(Worded(n, trees)) \o <<"]">>) =>
                p \in Nat /\ p < m /\ At(buf, p) # "]"
         /\ \A list \in Seq(Strings \X TreesTo[n]) :
              list # <<>> /\ Stands(buf, p, m, Listed(Keyed(n, list)) \o <<"}">>) =>
                p \in Nat /\ p < m /\ At(buf, p) # "}"
<1>1. "]" \in Tokens /\ "}" \in Tokens /\ "Q" # "}"
  BY MarksAreTokens
<1>2. ASSUME NEW trees \in Seq(TreesTo[n]), trees # <<>>,
             Stands(buf, p, m, Listed(Worded(n, trees)) \o <<"]">>)
      PROVE  p \in Nat /\ p < m /\ At(buf, p) # "]"
  <2>1. PICK tree \in TreesTo[n] : \E rest \in Seq(TreesTo[n]) : trees = <<tree>> \o rest
    BY <1>2, FirstAndRest
  <2>2. PICK others \in Seq(TreesTo[n]) : trees = <<tree>> \o others
    BY <2>1
  <2>3. PICK text, texts : text = Renderings[n][tree] /\ texts = Worded(n, others)
    OBVIOUS
  <2>4. text \in AnyText /\ texts \in Seq(AnyText)
    BY <2>3, RenderingsAreTexts, WordedAreTexts, Zenon
  <2>5. Stands(buf, p, m, Listed(<<text>> \o texts) \o <<"]">>)
    BY <1>2, <2>2, <2>3, WordedFirst, Zenon DEF WordsInFront
  <2>6. PICK q : ListApart(buf, p, q, m, text, texts, "]")
    BY <1>1, <2>4, <2>5, ListComesApart, Zenon
  <2>7. Stands(buf, p, q, text) /\ p \in Nat /\ p <= q /\ q < m /\ q \in Nat /\ m \in Nat
    BY <2>6, Zenon DEF ListApart
  <2>8. At(buf, p) # "]"
    BY <2>3, <2>7, TreeBegins, Zenon DEF BeginsAt
  <2>9. p < m
    BY <2>7, Follows, Zenon
  <2> QED
    BY <2>7, <2>8, <2>9, Zenon
<1>3. ASSUME NEW list \in Seq(Strings \X TreesTo[n]), list # <<>>,
             Stands(buf, p, m, Listed(Keyed(n, list)) \o <<"}">>)
      PROVE  p \in Nat /\ p < m /\ At(buf, p) # "}"
  <2>1. PICK x \in Strings \X TreesTo[n] : \E rest \in Seq(Strings \X TreesTo[n]) :
          list = <<x>> \o rest
    BY <1>3, FirstAndRest
  <2>2. PICK key \in Strings, tree \in TreesTo[n] : x = <<key, tree>>
    BY MemberParts, Zenon
  <2>3. PICK others \in Seq(Strings \X TreesTo[n]) : list = << <<key, tree>> >> \o others
    BY <2>1, <2>2, Zenon
  <2>4. PICK word, text, texts : /\ word = Renderings[n][tree] /\ text = Named(key, word)
                                 /\ texts = Keyed(n, others)
    OBVIOUS
  <2>5. word \in AnyText /\ text \in AnyText /\ texts \in Seq(AnyText)
    BY <2>4, RenderingsAreTexts, NamedIsText, KeyedAreTexts, Zenon
  <2>6. Stands(buf, p, m, Listed(<<text>> \o texts) \o <<"}">>)
    BY <1>3, <2>3, <2>4, KeyedFirst, Zenon DEF KeysInFront
  <2>7. PICK q : ListApart(buf, p, q, m, text, texts, "}")
    BY <1>1, <2>5, <2>6, ListComesApart, Zenon
  <2>8. Stands(buf, p, q, text) /\ p \in Nat /\ p <= q /\ q < m /\ q \in Nat /\ m \in Nat
    BY <2>7, Zenon DEF ListApart
  <2>9. PICK k : MemberApart(buf, p, k, q, key, word)
    BY <2>4, <2>5, <2>8, MemberComesApart, Zenon
  <2>10. At(buf, p) = "Q"
    BY <2>9, StringStands, Zenon DEF MemberApart, StringAt
  <2>11. p < m
    BY <2>8, Follows, Zenon
  <2> QED
    BY <1>1, <2>8, <2>10, <2>11, Zenon
<1> QED
  BY <1>2, <1>3, Zenon

(* parse_value. *)
LEMMA ValueStepFits ==
  ASSUME NEW n \in Nat, NEW buf \in AnyText, NEW limit \in Nat, NEW d \in Nat, NEW parse,
         Fits(n, buf, limit, d, parse),
         NEW tree \in TreesTo[n], NEW p \in Nat, NEW m \in Nat, NEW used \in Nat,
         Stands(buf, p, m, Renderings[n][tree]), m <= p + (d + 1), used <= limit
  PROVE  ValueFits(buf, limit, p, m, used, Extra(n, tree),
                   ParseValue(parse, buf, limit, p, used), tree)
<1>1. PICK all : all = ParseValue(parse, buf, limit, p, used)
  OBVIOUS
<1>2. ValueExact(parse, buf, limit, p, used, all)
  BY <1>1, ValueCases, Zenon
<1>3. Shaped(n, tree)
  BY TreeShapes, Zenon
<1>4. /\ "[" \in Tokens /\ "]" \in Tokens /\ "{" \in Tokens /\ "}" \in Tokens
  BY MarksAreTokens, Zenon
<1>5. Item = Item + 0 /\ used + 0 = used /\ 0 \in Nat /\ p + 1 \in Nat /\ m <= (p + 1) + d
  BY ItemIsNatural
<1>6. \A more \in Nat : Sizes[n][tree] = Item + more => Extra(n, tree) = more
  BY ExtraIs, Zenon
(* Nothing more to allocate. *)
<1>7. ASSUME LeftIs(all, m, used, tree), Extra(n, tree) = 0
      PROVE  ValueFits(buf, limit, p, m, used, Extra(n, tree), all, tree)
  BY <1>5, <1>7, Zenon DEF ValueFits
<1>8. CASE \E token \in Scalars :
             tree = <<"scalar", token>> /\ Renderings[n][tree] = <<token>> /\ Sizes[n][tree] = Item
  <2>1. PICK token \in Scalars :
          tree = <<"scalar", token>> /\ Renderings[n][tree] = <<token>> /\ Sizes[n][tree] = Item
    BY <1>8
  <2>2. StandsMark(buf, p, m, token)
    BY <2>1, MarkStands, Zenon
  <2>3. m = p + 1 /\ At(buf, p) = token
    BY <2>2, Zenon DEF StandsMark
  <2>4. all = Left(m, used, tree)
    BY <1>2, <2>1, <2>3, Zenon DEF ValueExact
  <2>5. LeftIs(all, m, used, tree)
    BY <2>4, LeavesThat, Zenon
  <2>6. Extra(n, tree) = 0
    BY <1>5, <1>6, <2>1, Zenon
  <2> QED
    BY <1>1, <1>7, <2>5, <2>6, Zenon
<1>9. CASE \E text \in Strings :
             /\ tree = <<"string", text>> /\ Renderings[n][tree] = <<"Q">> \o text \o <<"Q">>
             /\ Sizes[n][tree] = Item + Kept(text)
  <2>1. PICK text \in Strings :
          /\ tree = <<"string", text>> /\ Renderings[n][tree] = <<"Q">> \o text \o <<"Q">>
          /\ Sizes[n][tree] = Item + Kept(text)
    BY <1>9
  <2>2. Kept(text) \in Nat
    BY KeptIsNatural DEF Strings
  <2>3. Extra(n, tree) = Kept(text)
    BY <1>6, <2>1, <2>2, Zenon
  <2>4. At(buf, p) = "Q"
    BY <2>1, StringStands, Zenon DEF StringAt
  <2>5. StringFits(buf, limit, p, m, used, Kept(text), ParseString(buf, limit, p, used), text)
    BY <2>1, StringParsedFits, Zenon
  <2>6. all = ParseString(buf, limit, p, used)
    BY <1>2, <2>4, Zenon DEF ValueExact
  <2> QED
    BY <1>1, <2>1, <2>3, <2>4, <2>5, <2>6, Zenon DEF StringFits, ValueFits
(* A list: the brackets take nothing. *)
<1>10. ASSUME ListFits(limit, m, used, Extra(n, tree), all, tree)
       PROVE  ValueFits(buf, limit, p, m, used, Extra(n, tree), all, tree)
  BY <1>10, Zenon DEF ListFits, ValueFits, Nothing
<1>11. CASE \E trees \in Seq(TreesTo[n]) :
              /\ tree = <<"array", trees>>
              /\ Renderings[n][tree] = <<"[">> \o Listed(Worded(n, trees)) \o <<"]">>
              /\ Sizes[n][tree] = Item + Held(n, trees)
  <2>1. PICK trees \in Seq(TreesTo[n]) :
          /\ tree = <<"array", trees>>
          /\ Renderings[n][tree] = <<"[">> \o Listed(Worded(n, trees)) \o <<"]">>
          /\ Sizes[n][tree] = Item + Held(n, trees)
    BY <1>11
  <2>2. CASE trees = <<>>
    <3>1. Worded(n, trees) = <<>> /\ Listed(<<>>) = <<>> /\ Held(n, trees) = 0
      BY <2>2, NothingWritten, OneToken, ListedFirst, SumOfNone, Zenon DEF Held
    <3>2. Stands(buf, p, m, <<"[">> \o <<>> \o <<"]">>)
      BY <2>1, <3>1, Zenon
    <3>3. At(buf, p) = "[" /\ At(buf, p + 1) = "]" /\ m = p + 2
      BY <1>4, <3>2, NothingStands, Zenon
    <3>4. LeftIs(all, m, used, tree)
      BY <1>2, <2>1, <2>2, <3>3, LeavesThat, Zenon DEF ValueExact
    <3>5. Extra(n, tree) = 0
      BY <1>5, <1>6, <2>1, <3>1, Zenon
    <3> QED
      BY <1>1, <1>7, <3>4, <3>5, Zenon
  <2>3. CASE trees # <<>>
    <3>1. Listed(Worded(n, trees)) \in AnyText
      BY WordedAreTexts, ListedIsText, Zenon
    <3>2. MarkThen(buf, p, m, "[", Listed(Worded(n, trees)) \o <<"]">>)
      BY <1>4, <2>1, <3>1, ListStands, Zenon
    <3>3. At(buf, p) = "[" /\ Stands(buf, p + 1, m, Listed(Worded(n, trees)) \o <<"]">>)
      BY <3>2, Zenon DEF MarkThen
    <3>4. At(buf, p + 1) # "]"
      BY <2>3, <3>3, ListBegins, Zenon
    <3>5. all = parse["elements"][p + 1][used]
      BY <1>2, <3>3, <3>4, Zenon DEF ValueExact
    <3>6. ListFits(limit, m, used, Held(n, trees), all, <<"array", trees>>)
      BY <1>5, <2>3, <3>3, <3>5, Zenon DEF Fits, ElementsFit
    <3>7. Extra(n, tree) = Held(n, trees)
      <4>1. Held(n, trees) \in Nat
        BY SizesAreNumbers, SumIsNatural DEF Held
      <4> QED
        BY <1>6, <2>1, <4>1, Zenon
    <3> QED
      BY <1>1, <1>10, <2>1, <3>6, <3>7, Zenon
  <2> QED
    BY <2>2, <2>3
<1>12. CASE \E list \in Seq(Strings \X TreesTo[n]) :
              /\ tree = <<"object", list>>
              /\ Renderings[n][tree] = <<"{">> \o Listed(Keyed(n, list)) \o <<"}">>
              /\ Sizes[n][tree] = Item + HeldKeyed(n, list)
  <2>1. PICK list \in Seq(Strings \X TreesTo[n]) :
          /\ tree = <<"object", list>>
          /\ Renderings[n][tree] = <<"{">> \o Listed(Keyed(n, list)) \o <<"}">>
          /\ Sizes[n][tree] = Item + HeldKeyed(n, list)
    BY <1>12
  <2>2. CASE list = <<>>
    <3>1. Keyed(n, list) = <<>> /\ Listed(<<>>) = <<>> /\ HeldKeyed(n, list) = 0
      BY <2>2, NothingWritten, OneToken, ListedFirst, SumOfNone, Zenon DEF HeldKeyed
    <3>2. Stands(buf, p, m, <<"{">> \o <<>> \o <<"}">>)
      BY <2>1, <3>1, Zenon
    <3>3. At(buf, p) = "{" /\ At(buf, p + 1) = "}" /\ m = p + 2
      BY <1>4, <3>2, NothingStands, Zenon
    <3>4. LeftIs(all, m, used, tree)
      BY <1>2, <2>1, <2>2, <3>3, LeavesThat, Zenon DEF ValueExact
    <3>5. Extra(n, tree) = 0
      BY <1>5, <1>6, <2>1, <3>1, Zenon
    <3> QED
      BY <1>1, <1>7, <3>4, <3>5, Zenon
  <2>3. CASE list # <<>>
    <3>1. Listed(Keyed(n, list)) \in AnyText
      BY KeyedAreTexts, ListedIsText, Zenon
    <3>2. MarkThen(buf, p, m, "{", Listed(Keyed(n, list)) \o <<"}">>)
      BY <1>4, <2>1, <3>1, ListStands, Zenon
    <3>3. At(buf, p) = "{" /\ Stands(buf, p + 1, m, Listed(Keyed(n, list)) \o <<"}">>)
      BY <3>2, Zenon DEF MarkThen
    <3>4. At(buf, p + 1) # "}"
      BY <2>3, <3>3, ListBegins, Zenon
    <3>5. all = parse["members"][p + 1][used]
      BY <1>2, <3>3, <3>4, Zenon DEF ValueExact
    <3>6. ListFits(limit, m, used, HeldKeyed(n, list), all, <<"object", list>>)
      BY <1>5, <2>3, <3>3, <3>5, Zenon DEF Fits, MembersFit
    <3>7. Extra(n, tree) = HeldKeyed(n, list)
      <4>1. HeldKeyed(n, list) \in Nat
        BY HeldKeyedIsNatural, Zenon
      <4> QED
        BY <1>6, <2>1, <4>1, Zenon
    <3> QED
      BY <1>1, <1>10, <2>1, <3>6, <3>7, Zenon
  <2> QED
    BY <2>2, <2>3
<1> QED
  BY <1>3, <1>8, <1>9, <1>11, <1>12, Zenon DEF Shaped

(* So the calls take the texts of at most as many tokens as they may still *)
(* nest: every call is behind at least one token of its caller's text.     *)
LEMMA ParserFits ==
  ASSUME NEW n \in Nat, NEW buf \in AnyText, NEW limit \in Nat
  PROVE  \A d \in Nat : Fits(n, buf, limit, d, Parsers[d][buf][limit])
<1> DEFINE S == {d \in Nat : Fits(n, buf, limit, d, Parsers[d][buf][limit])}
<1>1. 0 \in S
  <2>1. \A p, m \in Nat : p < m => ~(m <= p + 0)
    OBVIOUS
  <2>2. PICK parse : parse = Parsers[0][buf][limit]
    OBVIOUS
  <2>3. ValuesFit(n, buf, limit, 0, parse["value"])
    BY <2>1, TreeBegins, Zenon DEF ValuesFit, BeginsAt
  <2>4. ElementsFit(n, buf, limit, 0, parse["elements"])
    BY <2>1, ListBegins, Zenon DEF ElementsFit
  <2>5. MembersFit(n, buf, limit, 0, parse["members"])
    BY <2>1, ListBegins, Zenon DEF MembersFit
  <2> QED
    BY <2>2, <2>3, <2>4, <2>5, Zenon DEF Fits
<1>2. ASSUME NEW d \in Nat, d \in S PROVE d + 1 \in S
  <2>1. PICK parse, called : /\ parse = Parsers[d][buf][limit]
                             /\ called = Parsers[d + 1][buf][limit]
    OBVIOUS
  <2>2. Fits(n, buf, limit, d, parse)
    BY <1>2, <2>1
  <2>3. \A p, used \in Nat : Called(d, parse, buf, limit, p, used)
    BY <2>1, ParserCalled, Zenon
  <2>4. \A p, used \in Nat :
          /\ called["value"][p][used] = ParseValue(parse, buf, limit, p, used)
          /\ called["elements"][p][used] = ParseElements(parse, buf, limit, p, used)
          /\ called["members"][p][used] = ParseMembers(parse, buf, limit, p, used)
    BY <2>1, <2>3, Zenon DEF Called
  <2>5. ValuesFit(n, buf, limit, d + 1, called["value"])
    <3>1. ASSUME NEW tree \in TreesTo[n], NEW p \in Nat, NEW m \in Nat, NEW used \in Nat,
                 Stands(buf, p, m, Renderings[n][tree]),
                 m <= p + (d + 1), used <= limit
          PROVE  ValueFits(buf, limit, p, m, used, Extra(n, tree), called["value"][p][used], tree)
      <4>1. ValueFits(buf, limit, p, m, used, Extra(n, tree),
                      ParseValue(parse, buf, limit, p, used), tree)
        BY <2>2, <3>1, ValueStepFits
      <4> QED
        BY <2>4, <3>1, <4>1, Zenon
    <3> QED
      BY <3>1, Zenon DEF ValuesFit
  <2>6. ElementsFit(n, buf, limit, d + 1, called["elements"])
    <3>1. ASSUME NEW trees \in Seq(TreesTo[n]), NEW p \in Nat, NEW m \in Nat, NEW used \in Nat,
                 trees # <<>>, Stands(buf, p, m, Listed(Worded(n, trees)) \o <<"]">>),
                 m <= p + (d + 1), used <= limit
          PROVE  ListFits(limit, m, used, Held(n, trees), called["elements"][p][used],
                          <<"array", trees>>)
      <4>1. ListFits(limit, m, used, Held(n, trees), ParseElements(parse, buf, limit, p, used),
                     <<"array", trees>>)
        BY <2>2, <3>1, ElementsStepFits
      <4> QED
        BY <2>4, <3>1, <4>1, Zenon
    <3> QED
      BY <3>1, Zenon DEF ElementsFit
  <2>7. MembersFit(n, buf, limit, d + 1, called["members"])
    <3>1. ASSUME NEW list \in Seq(Strings \X TreesTo[n]),
                 NEW p \in Nat, NEW m \in Nat, NEW used \in Nat,
                 list # <<>>, Stands(buf, p, m, Listed(Keyed(n, list)) \o <<"}">>),
                 m <= p + (d + 1), used <= limit
          PROVE  ListFits(limit, m, used, HeldKeyed(n, list), called["members"][p][used],
                          <<"object", list>>)
      <4>1. ListFits(limit, m, used, HeldKeyed(n, list), ParseMembers(parse, buf, limit, p, used),
                     <<"object", list>>)
        BY <2>2, <3>1, MembersStepFits
      <4> QED
        BY <2>4, <3>1, <4>1, Zenon
    <3> QED
      BY <3>1, Zenon DEF MembersFit
  <2>8. Fits(n, buf, limit, d + 1, Parsers[d + 1][buf][limit])
    BY <2>1, <2>5, <2>6, <2>7, Zenon DEF Fits
  <2> QED
    BY <2>8
<1>3. Nat \subseteq S
  <2> HIDE DEF S
  <2> QED
    BY <1>1, <1>2, Sums!NaturalInduction
<1> QED
  BY <1>3

(* cJSON_Parse takes a whole body as the tree it was made from when that   *)
(* fits in what is left of the arena, and refuses it when it does not: for *)
(* every tree, length of the buffer, size of the arena and use of it.      *)
THEOREM ParseTakesTheTree ==
  ASSUME NEW buf, NEW L, Stored(buf, L), Len(buf) <= Nested,
         NEW limit \in Nat, NEW used \in Nat, NEW p \in 1..L + 1,
         NEW tree \in TreesTo[Nested], Read(buf, p, L + 1) = Render(tree)
  PROVE  Parse(buf, limit, p, used).tree = IF used + Needs(tree) <= limit THEN tree ELSE NoTree
<1>1. /\ Len(buf) \in Nat /\ L \in Nat /\ L + 1 <= Len(buf) /\ buf \in AnyText
      /\ At(buf, L + 1) = "NUL"
  BY Marked
<1>2. Nested \in Nat
  BY JsonAssumption
<1>3. /\ p \in Nat /\ p >= 1 /\ p <= L + 1 /\ L + 1 \in Nat /\ L + 1 <= Len(buf) + 1
      /\ L + 1 <= p + Nested
  BY <1>1, <1>2
<1>4. PICK now, e : now = used + Item /\ e = Extra(Nested, tree)
  OBVIOUS
<1>5. e \in Nat /\ Needs(tree) = Item + e
  BY <1>2, <1>4, ExtraIs, Zenon DEF Needs
<1>6. /\ now \in Nat /\ used + Needs(tree) = now + e
      /\ now + e <= limit => now <= limit
      /\ now <= limit <=> ~(now > limit)
  <2>1. AddsUp(limit, used, Item, e, e)
    BY <1>5, ItemIsNatural, Adds, Zenon
  <2> QED
    BY <1>4, <1>5, <2>1, Zenon DEF AddsUp
<1>7. PICK value : value = Parsers[Nested][buf][limit]["value"][p][now]
  OBVIOUS
<1>8. Parse(buf, limit, p, used) =
        IF now > limit \/ value.p = Null \/ At(buf, value.p) # "NUL"
        THEN Refused(value.used) ELSE value
  BY <1>4, <1>7, Zenon DEF Parse
<1>9. ASSUME now <= limit PROVE ValueFits(buf, limit, p, L + 1, now, e, value, tree)
  <2>1. Stands(buf, p, L + 1, Renderings[Nested][tree])
    BY <1>3, Zenon DEF Stands, Render
  <2>2. Fits(Nested, buf, limit, Nested, Parsers[Nested][buf][limit])
    BY <1>1, <1>2, ParserFits, Zenon
  <2> QED
    BY <1>3, <1>4, <1>6, <1>7, <1>9, <2>1, <2>2, Zenon DEF Fits, ValuesFit
<1>10. CASE now + e <= limit
  <2>1. LeftIs(value, L + 1, now + e, tree)
    BY <1>6, <1>9, <1>10, Zenon DEF ValueFits
  <2>2. L + 1 # Null
    BY <1>1 DEF Null
  <2> QED
    BY <1>1, <1>6, <1>8, <1>10, <2>1, <2>2, Zenon DEF LeftIs
<1>11. CASE ~(now + e <= limit)
  <2>1. "Q" # "NUL"
    OBVIOUS
  <2>2. now > limit \/ value.p = Null \/ At(buf, value.p) # "NUL"
    BY <1>6, <1>9, <1>11, <2>1, Zenon DEF ValueFits
  <2>3. Parse(buf, limit, p, used) = Refused(value.used)
    BY <1>8, <2>2, Zenon
  <2> QED
    BY <1>6, <1>11, <2>3, Refuses, Zenon
<1> QED
  BY <1>10, <1>11

(* A tree is none of what stands for there being none. *)
LEMMA TreesAreThere ==
  \A n \in Nat : NoTree \notin TreesTo[n]
<1> SUFFICES ASSUME NEW n \in Nat, NEW tree \in TreesTo[n] PROVE tree # NoTree
  OBVIOUS
<1>1. Shaped(n, tree)
  BY TreeShapes, Zenon
<1>2. \A kind, x : <<kind, x>> # NoTree
  BY DEF NoTree
<1> QED
  BY <1>1, <1>2, Zenon DEF Shaped
-----------------------------------------------------------------------------
(* Between two lines the arena is empty, and the buffer a buffer. *)
ArenaTyped ==
  /\ pool \in Nat
  /\ cjson_pool_used = 0
  /\ line_buf \in AnyText /\ Len(line_buf) = BufLen

(* protocol_poll leaves the line and a NUL at the front of the buffer. *)
LEMMA StoredLine ==
  ASSUME ArenaTyped, NEW text \in Lines
  PROVE  /\ Stored(Store(text), Len(text)) /\ Len(Store(text)) = BufLen
         /\ \A p \in 1..Len(text) : Store(text)[p] = text[p]
<1>1. /\ text \in Seq(Tokens \ {"NUL"}) /\ Len(text) \in Nat /\ Len(text) < BufLen
      /\ BufLen \in Nat
  BY LinkAssumption
<1> DEFINE old == SubSeq(line_buf, Len(text) + 2, BufLen)
           front == text \o <<"NUL">>
<1>2. old \in AnyText /\ Len(old) = BufLen - (Len(text) + 1)
  <2>1. \A i \in Len(text) + 2..BufLen : line_buf[i] \in Tokens
    BY <1>1 DEF ArenaTyped, AnyText
  <2> QED
    BY <1>1, <2>1, SubSeqProperties DEF AnyText
<1>3. "NUL" \in Tokens
  BY MarksAreTokens
<1>4. /\ front \in AnyText /\ Len(front) = Len(text) + 1 /\ front[Len(text) + 1] = "NUL"
      /\ \A p \in 1..Len(text) : front[p] = text[p] /\ text[p] # "NUL"
  BY <1>1, <1>3 DEF AnyText
<1> HIDE DEF old, front
<1>5. /\ front \o old \in AnyText /\ Len(front \o old) = Len(front) + Len(old)
      /\ \A p \in 1..Len(front) : (front \o old)[p] = front[p]
  BY <1>2, <1>4 DEF AnyText
<1>6. Store(text) = front \o old
  BY DEF Store, front, old
<1>7. Len(Store(text)) = BufLen /\ \A p \in 1..Len(text) : Store(text)[p] = text[p]
  BY <1>1, <1>2, <1>4, <1>5, <1>6
<1>8. Stored(Store(text), Len(text))
  BY <1>1, <1>2, <1>4, <1>5, <1>6, <1>7 DEF Stored
<1> QED
  BY <1>7, <1>8

(* A line that is framed is long enough to have a body, which is its own. *)
LineFramed(text) ==
  /\ Stored(line_buf', Len(text)) /\ Len(line_buf') = BufLen
  /\ BufLen <= Nested /\ Body \in 1..Len(text) + 1
  /\ line' = text /\ OwnBody' = Read(line_buf', Body, Len(text) + 1)

(* A frame has at least its address and its command in front of the body. *)
LEMMA FramedLines ==
  ASSUME ArenaTyped, NEW text \in Lines, Receive(text), Framed(line_buf')
  PROVE  LineFramed(text)
<1>1. /\ Stored(line_buf', Len(text)) /\ Len(line_buf') = BufLen
      /\ \A p \in 1..Len(text) : line_buf'[p] = text[p]
  BY StoredLine, Zenon DEF Receive
<1>2. /\ text \in Seq(Tokens \ {"NUL"}) /\ Len(text) \in Nat /\ Len(text) < BufLen
      /\ text # <<>> /\ BufLen \in Nat /\ Nested \in Nat /\ BufLen <= Nested
  BY LinkAssumption, JsonAssumption
<1>3. Len(text) >= 5
  <2>1. line_buf'[Len(text) + 1] = "NUL"
    BY <1>1 DEF Stored
  <2>2. \A i \in {1, 2, 3, 4, 5} : line_buf'[i] # "NUL"
    BY DEF Framed, Chips, Ids
  <2>3. PICK e : e = Len(text)
    OBVIOUS
  <2>4. e \in Nat /\ line_buf'[e + 1] = "NUL"
    BY <1>2, <2>1, <2>3
  <2>5. e + 1 \notin {1, 2, 3, 4, 5}
    BY <2>2, <2>4, Zenon
  <2>6. e >= 5
    BY <2>4, <2>5
  <2> QED
    BY <2>3, <2>6, Zenon
<1>4. line' = text
  BY DEF Receive
<1>5. OwnBody' = Read(line_buf', Body, Len(text) + 1)
  <2>1. SubSeq(text, Body, Len(text)) = SubSeq(line_buf', Body, Len(text))
    BY <1>1, <1>2 DEF Body
  <2>2. (Len(text) + 1) - 1 = Len(text)
    BY <1>2
  <2> QED
    BY <1>4, <2>1, <2>2 DEF OwnBody, Read
<1>6. Body \in 1..Len(text) + 1
  BY <1>2, <1>3 DEF Body
<1> QED
  BY <1>1, <1>2, <1>4, <1>5, <1>6, Zenon DEF LineFramed

(* OwnLineOnly is inductive once the arena is empty between lines. *)
LEMMA LinkStep ==
  ASSUME ArenaTyped /\ OwnLineOnly, [LinkNext]_linkVars
  PROVE  ArenaTyped' /\ OwnLineOnly'
<1>1. CASE UNCHANGED linkVars
  BY <1>1 DEF ArenaTyped, OwnLineOnly, OwnBody, linkVars
<1>2. ASSUME NEW r \in Readings, SendTelemetry(r)
      PROVE  ArenaTyped' /\ OwnLineOnly'
  BY <1>2 DEF ArenaTyped, OwnLineOnly, SendTelemetry
<1>3. ASSUME NEW text \in Lines, Receive(text)
      PROVE  ArenaTyped' /\ OwnLineOnly'
  <2>1. /\ Stored(line_buf', Len(text)) /\ Len(line_buf') = BufLen
        /\ \A p \in 1..Len(text) : line_buf'[p] = text[p]
    BY <1>3, StoredLine, Zenon DEF Receive
  <2>2. ArenaTyped'
    <3>1. line_buf' \in AnyText
      BY <2>1 DEF Stored
    <3>2. cjson_pool_used' = 0
      BY <1>3 DEF Receive, ArenaTyped, Ignore, Refuse, Dispatch
    <3>3. pool' = pool
      BY <1>3 DEF Receive
    <3> QED
      BY <2>1, <3>1, <3>2, <3>3 DEF ArenaTyped
  <2>3. SUFFICES ASSUME outcome' = "dispatched" PROVE OwnLineOnly'
    BY <2>2 DEF OwnLineOnly
  <2>4. PICK parsed : /\ parsed = Parse(line_buf', pool, Body, cjson_pool_used)
                      /\ Dispatch(parsed)
    <3>1. ~Ignore /\ \A parsed : ~Refuse(parsed)
      BY <2>3 DEF Ignore, Refuse
    <3> QED
      BY <1>3, <3>1, Zenon DEF Receive
  <2>5. LineFramed(text)
    <3>1. Framed(line_buf')
      BY <2>4, Zenon DEF Dispatch
    <3> QED
      BY <1>3, <3>1, FramedLines, Zenon
  <2>6. OwnBody' = Read(line_buf', Body, Len(text) + 1)
    BY <2>5, Zenon DEF LineFramed
  <2>7. root' = parsed.tree /\ parsed.tree # NoTree
    BY <2>4 DEF Dispatch
  <2>8. \/ Render(root') = OwnBody'
        \/ /\ ~Closed(OwnBody')
           /\ \/ Render(root') = Append(OwnBody', "Q")
              \/ \E i \in Len(text) + 2..Len(line_buf') : line_buf'[i] # "NUL"
    <3>1. pool \in Nat /\ cjson_pool_used \in Nat
      BY DEF ArenaTyped
    <3>2. Body \in 1..Len(text) + 1 /\ Len(line_buf') <= Nested
      BY <2>5, Zenon DEF LineFramed
    <3> QED
      BY <2>1, <2>4, <2>6, <2>7, <3>1, <3>2, ParseTakesTheLine, Zenon
  <2>9. line' = text
    BY <1>3 DEF Receive
  <2>10. (Closed(OwnBody))' <=> Closed(OwnBody')
    BY DEF Closed
  <2>11. (Render(root))' = Render(root')
    BY DEF Render
  <2> QED
    BY <2>1, <2>8, <2>9, <2>10, <2>11 DEF OwnLineOnly
<1> QED
  BY <1>1, <1>2, <1>3 DEF LinkNext

(* Before the first line no line was dispatched. *)
LEMMA LinkStarts == LinkInit => ArenaTyped /\ OwnLineOnly
<1> SUFFICES ASSUME LinkInit PROVE ArenaTyped /\ OwnLineOnly
  OBVIOUS
<1>1. "NUL" \in Tokens
  BY MarksAreTokens
<1>2. pool \in Nat /\ BufLen \in Nat
  BY LinkAssumption DEF LinkInit
<1>3. line_buf \in AnyText /\ Len(line_buf) = BufLen
  BY <1>1, <1>2 DEF LinkInit, AnyText
<1> QED
  BY <1>2, <1>3 DEF LinkInit, ArenaTyped, OwnLineOnly

(* What protocol_process_command gets for a body is that of its own line   *)
(* (OwnLineOnly), for every set of lines, length of the buffer and size of *)
(* the arena.                                                              *)
THEOREM BodyIsTakenWhole == LinkSpec => []OwnLineOnly
<1>1. LinkInit => ArenaTyped /\ OwnLineOnly
  BY LinkStarts
<1>2. ArenaTyped /\ OwnLineOnly /\ [LinkNext]_linkVars => (ArenaTyped /\ OwnLineOnly)'
  BY LinkStep
<1> QED
  BY <1>1, <1>2, PTL DEF LinkSpec

(* After every line the outcome is the one the body's tree calls for. *)
LEMMA FitStep ==
  ASSUME ArenaTyped, FitMeansAccepted, [LinkNext]_linkVars
  PROVE  FitMeansAccepted'
<1>1. CASE UNCHANGED linkVars
  BY <1>1 DEF FitMeansAccepted, OwnBody, Texts, Needed, linkVars
<1>2. ASSUME NEW r \in Readings, SendTelemetry(r) PROVE FitMeansAccepted'
  BY <1>2 DEF FitMeansAccepted, SendTelemetry
<1>3. ASSUME NEW text \in Lines, Receive(text) PROVE FitMeansAccepted'
  <2>1. SUFFICES ASSUME NEW tree \in Trees, outcome' \in {"syntax", "dispatched"},
                        OwnBody' = Render(tree)
                 PROVE  IF Needs(tree) <= pool' THEN root' = tree ELSE outcome' = "syntax"
    <3>1. \A tree \in Trees : Texts[tree] = Render(tree) /\ Needed[tree] = Needs(tree)
      BY DEF Texts, Needed
    <3>2. \A tree \in Trees : Texts'[tree] = Render(tree) /\ Needed'[tree] = Needs(tree)
      BY DEF Texts, Needed, Render, Needs
    <3> QED
      BY <3>1, <3>2, Zenon DEF FitMeansAccepted
  <2>2. PICK parsed : /\ parsed = Parse(line_buf', pool, Body, cjson_pool_used)
                      /\ Refuse(parsed) \/ Dispatch(parsed)
    <3>1. ~Ignore
      BY <2>1 DEF Ignore
    <3> QED
      BY <1>3, <3>1, Zenon DEF Receive
  <2>3. Framed(line_buf')
    BY <2>2, Zenon DEF Refuse, Dispatch
  <2>4. LineFramed(text)
    BY <1>3, <2>3, FramedLines, Zenon
  <2>5. /\ tree \in TreesTo[Nested] /\ Nested \in Nat /\ pool' = pool
        /\ pool \in Nat /\ cjson_pool_used = 0 /\ 0 \in Nat
    <3>1. Trees \subseteq TreesTo[Nested] /\ Nested \in Nat
      BY LinkAssumption, JsonAssumption, Zenon
    <3>2. pool' = pool
      BY <1>3, Zenon DEF Receive
    <3> QED
      BY <3>1, <3>2 DEF ArenaTyped
  <2>6. parsed.tree = IF 0 + Needs(tree) <= pool THEN tree ELSE NoTree
    BY <2>1, <2>2, <2>4, <2>5, ParseTakesTheTree, Zenon DEF LineFramed
  <2>7. 0 + Needs(tree) = Needs(tree)
    <3>1. Needs(tree) \in Nat
      BY <2>5, SizesAreNumbers, Zenon DEF Needs
    <3> QED
      BY <3>1
  <2>8. tree # NoTree
    BY <2>5, TreesAreThere, Zenon
  <2>9. CASE Needs(tree) <= pool
    <3>1. parsed.tree = tree
      BY <2>6, <2>7, <2>9, Zenon
    <3>2. root' = tree
      BY <2>2, <2>8, <3>1, Zenon DEF Refuse, Dispatch
    <3> QED
      BY <2>5, <2>9, <3>2, Zenon
  <2>10. CASE ~(Needs(tree) <= pool)
    <3>1. parsed.tree = NoTree
      BY <2>6, <2>7, <2>10, Zenon
    <3>2. outcome' = "syntax"
      BY <2>2, <3>1, Zenon DEF Refuse, Dispatch
    <3> QED
      BY <2>5, <2>10, <3>2, Zenon
  <2> QED
    BY <2>9, <2>10
<1> QED
  BY <1>1, <1>2, <1>3 DEF LinkNext

(* A whole body is taken, as the tree it was made from, exactly when its   *)
(* tree fits in the arena, whatever came before (FitMeansAccepted): for    *)
(* every set of lines and trees, length of the buffer and size of the      *)
(* arena.                                                                  *)
THEOREM WholeBodiesAreTaken == LinkSpec => []FitMeansAccepted
<1>1. LinkInit => ArenaTyped /\ OwnLineOnly /\ FitMeansAccepted
  <2>1. LinkInit => ArenaTyped /\ OwnLineOnly
    BY LinkStarts
  <2> QED
    BY <2>1 DEF LinkInit, FitMeansAccepted
<1>2. /\ ArenaTyped /\ OwnLineOnly /\ FitMeansAccepted /\ [LinkNext]_linkVars
      => (ArenaTyped /\ OwnLineOnly /\ FitMeansAccepted)'
  BY LinkStep, FitStep
<1> QED
  BY <1>1, <1>2, PTL DEF LinkSpec
-----------------------------------------------------------------------------
Strips == INSTANCE Recursion WITH Base <- [text \in Seq(Tokens) |-> <<>>],
  Step <- LAMBDA n, fewer : [text \in Seq(Tokens) |->
            fewer[text] \o (IF text[n] = ":" THEN <<>> ELSE <<text[n]>>)]

(* A text without its colons, token after token. *)
LEMMA NoColonsUnroll ==
  /\ NoColonsIn[0] = [text \in Seq(Tokens) |-> <<>>]
  /\ \A n \in Nat : NoColonsIn[n + 1] =
       [text \in Seq(Tokens) |->
          NoColonsIn[n][text] \o (IF text[n + 1] = ":" THEN <<>> ELSE <<text[n + 1]>>)]
BY Strips!Unrolls DEF NoColonsIn, Strips!f

(* One token more. *)
LEMMA OneMoreToken ==
  ASSUME NEW text \in AnyText, NEW n \in Nat
  PROVE  NoColonsIn[n + 1][text] =
           NoColonsIn[n][text] \o (IF text[n + 1] = ":" THEN <<>> ELSE <<text[n + 1]>>)
<1>1. text \in Seq(Tokens)
  BY DEF AnyText
<1> QED
  BY <1>1, NoColonsUnroll

(* What is left is a text. *)
LEMMA NoColonsAreTexts ==
  ASSUME NEW text \in AnyText
  PROVE  \A n \in Nat : n <= Len(text) => NoColonsIn[n][text] \in AnyText
<1> DEFINE S == {n \in Nat : n <= Len(text) => NoColonsIn[n][text] \in AnyText}
<1>1. 0 \in S
  BY NoColonsUnroll, OneToken DEF AnyText
<1>2. ASSUME NEW n \in Nat, n \in S PROVE n + 1 \in S
  <2> SUFFICES ASSUME n + 1 <= Len(text) PROVE NoColonsIn[n + 1][text] \in AnyText
    OBVIOUS
  <2>1. NoColonsIn[n][text] \in AnyText
    BY <1>2
  <2>2. text[n + 1] \in Tokens
    BY DEF AnyText
  <2>3. (IF text[n + 1] = ":" THEN <<>> ELSE <<text[n + 1]>>) \in AnyText
    BY <2>2, OneToken, Zenon
  <2> QED
    BY <2>1, <2>3, OneMoreToken, Joins, Zenon
<1>3. Nat \subseteq S
  <2> HIDE DEF S
  <2> QED
    BY <1>1, <1>2, Sums!NaturalInduction
<1> QED
  BY <1>3

(* The colons of two texts together are those of each: first the one, *)
LEMMA NoColonsFront ==
  ASSUME NEW s \in AnyText, NEW t \in AnyText
  PROVE  \A n \in Nat : n <= Len(s) => NoColonsIn[n][s \o t] = NoColonsIn[n][s]
<1> DEFINE all == s \o t
<1>1. all \in AnyText /\ \A i \in 1..Len(s) : all[i] = s[i]
  BY DEF AnyText
<1> HIDE DEF all
<1> DEFINE S == {n \in Nat : n <= Len(s) => NoColonsIn[n][all] = NoColonsIn[n][s]}
<1>2. 0 \in S
  BY <1>1, NoColonsUnroll DEF AnyText
<1>3. ASSUME NEW n \in Nat, n \in S PROVE n + 1 \in S
  <2> SUFFICES ASSUME n + 1 <= Len(s) PROVE NoColonsIn[n + 1][all] = NoColonsIn[n + 1][s]
    OBVIOUS
  <2>1. NoColonsIn[n][all] = NoColonsIn[n][s]
    BY <1>3 DEF AnyText
  <2>2. all[n + 1] = s[n + 1]
    BY <1>1 DEF AnyText
  <2> QED
    BY <1>1, <2>1, <2>2, OneMoreToken, Zenon
<1>4. Nat \subseteq S
  <2> HIDE DEF S
  <2> QED
    BY <1>2, <1>3, Sums!NaturalInduction
<1> QED
  BY <1>4 DEF all

(* then the other. *)
LEMMA NoColonsJoin ==
  ASSUME NEW s \in AnyText, NEW t \in AnyText
  PROVE  NoColons(s \o t) = NoColons(s) \o NoColons(t)
<1> DEFINE all == s \o t
<1>1. /\ all \in AnyText /\ Len(all) = Len(s) + Len(t) /\ Len(s) \in Nat /\ Len(t) \in Nat
      /\ \A i \in 1..Len(t) : all[Len(s) + i] = t[i]
  BY DEF AnyText
<1>2. NoColonsIn[Len(s)][all] = NoColons(s) /\ NoColons(s) \in AnyText
  BY <1>1, NoColonsFront, NoColonsAreTexts DEF NoColons
<1> HIDE DEF all
<1> DEFINE S == {n \in Nat : n <= Len(t) =>
                   NoColonsIn[Len(s) + n][all] = NoColons(s) \o NoColonsIn[n][t]}
<1>3. 0 \in S
  <2>1. NoColonsIn[0][t] = <<>>
    BY NoColonsUnroll DEF AnyText
  <2>2. NoColons(s) \o <<>> = NoColons(s) /\ Len(s) + 0 = Len(s)
    BY <1>1, <1>2 DEF AnyText
  <2> QED
    BY <1>2, <2>1, <2>2
<1>4. ASSUME NEW n \in Nat, n \in S PROVE n + 1 \in S
  <2> SUFFICES ASSUME n + 1 <= Len(t)
               PROVE  NoColonsIn[Len(s) + (n + 1)][all] = NoColons(s) \o NoColonsIn[n + 1][t]
    OBVIOUS
  <2>1. PICK m \in Nat : m = Len(s) + n
    BY <1>1
  <2>2. Len(s) + (n + 1) = m + 1 /\ n + 1 \in 1..Len(t) /\ n <= Len(t)
    BY <1>1, <2>1
  <2>3. PICK new : new = IF t[n + 1] = ":" THEN <<>> ELSE <<t[n + 1]>>
    OBVIOUS
  <2>4. all[m + 1] = t[n + 1]
    BY <1>1, <2>2
  <2>5. NoColonsIn[m + 1][all] = NoColonsIn[m][all] \o new
    BY <1>1, <2>3, <2>4, OneMoreToken, Zenon
  <2>6. NoColonsIn[n + 1][t] = NoColonsIn[n][t] \o new
    BY <2>3, OneMoreToken, Zenon
  <2>7. NoColonsIn[m][all] = NoColons(s) \o NoColonsIn[n][t]
    BY <1>4, <2>1, <2>2
  <2>8. NoColonsIn[n][t] \in AnyText /\ new \in AnyText
    <3>1. NoColonsIn[n][t] \in AnyText
      BY <2>2, NoColonsAreTexts
    <3>2. t[n + 1] \in Tokens
      BY <2>2 DEF AnyText
    <3> QED
      BY <2>3, <3>1, <3>2, OneToken, Zenon
  <2>9. (NoColons(s) \o NoColonsIn[n][t]) \o new = NoColons(s) \o (NoColonsIn[n][t] \o new)
    BY <1>2, <2>8, ThreeTexts, Zenon DEF Grouped
  <2> QED
    BY <2>2, <2>5, <2>6, <2>7, <2>9, Zenon
<1>5. Nat \subseteq S
  <2> HIDE DEF S
  <2> QED
    BY <1>3, <1>4, Sums!NaturalInduction
<1>6. NoColonsIn[Len(s) + Len(t)][all] = NoColons(s) \o NoColonsIn[Len(t)][t]
  BY <1>1, <1>5
<1> QED
  BY <1>1, <1>6 DEF NoColons, all

(* Two texts that differ in their colons at most. *)
Same(a, b) == a \in AnyText /\ b \in AnyText /\ NoColons(a) = NoColons(b)

(* Such texts put together are such texts, *)
LEMMA SameJoins ==
  \A a, b, c, d : Same(a, b) /\ Same(c, d) => Same(a \o c, b \o d)
<1> SUFFICES ASSUME NEW a, NEW b, NEW c, NEW d, Same(a, b), Same(c, d)
             PROVE  Same(a \o c, b \o d)
  BY Zenon
<1>1. /\ a \in AnyText /\ b \in AnyText /\ c \in AnyText /\ d \in AnyText
      /\ NoColons(a) = NoColons(b) /\ NoColons(c) = NoColons(d)
  BY Zenon DEF Same
<1>2. a \o c \in AnyText /\ b \o d \in AnyText
  BY <1>1, Joins, Zenon
<1>3. NoColons(a \o c) = NoColons(a) \o NoColons(c)
      /\ NoColons(b \o d) = NoColons(b) \o NoColons(d)
  BY <1>1, NoColonsJoin, Zenon
<1> QED
  BY <1>1, <1>2, <1>3, Zenon DEF Same

(* a text is one of itself, and a third of a second is one of the first, *)
LEMMA SameChains ==
  /\ \A a \in AnyText : Same(a, a)
  /\ \A a, b, c : Same(a, b) /\ Same(b, c) => Same(a, c)
BY Zenon DEF Same

(* and so is a text with one colon more at its end. *)
LEMMA ColonMore ==
  ASSUME NEW text \in AnyText
  PROVE  /\ text \o <<":">> \in AnyText /\ Same(text \o <<":">>, text) /\ Same(text, text \o <<":">>)
         /\ SubSeq(text \o <<":">>, 1, Len(text \o <<":">>) - 1) = text
<1>1. <<":">> \in AnyText /\ Len(<<":">>) = 1 /\ <<":">>[1] = ":"
  BY MarksAreTokens, OneToken
<1>2. NoColons(<<":">>) = <<>>
  <2>1. NoColonsIn[0][<<":">>] = <<>>
    BY <1>1, NoColonsUnroll DEF AnyText
  <2>2. NoColonsIn[0 + 1][<<":">>] = <<>> \o <<>>
    <3> DEFINE n == 0
    <3> HIDE DEF n
    <3>1. n \in Nat /\ n + 1 = 1
      BY DEF n
    <3>2. PICK colon : colon = <<":">>
      OBVIOUS
    <3>3. colon \in AnyText /\ colon[n + 1] = ":"
      BY <1>1, <3>1, <3>2
    <3>4. NoColonsIn[n + 1][colon] = NoColonsIn[n][colon] \o <<>>
      BY <3>1, <3>3, OneMoreToken, Zenon
    <3> QED
      BY <2>1, <3>2, <3>4, Zenon DEF n
  <2>3. <<>> \o <<>> = <<>> /\ 0 + 1 = Len(<<":">>)
    OBVIOUS
  <2> QED
    BY <2>2, <2>3, Zenon DEF NoColons
<1>3. NoColons(text) \in AnyText
  BY NoColonsAreTexts DEF NoColons, AnyText
<1>4. NoColons(text) \o <<>> = NoColons(text)
  BY <1>3 DEF AnyText
<1>5. NoColons(text \o <<":">>) = NoColons(text) /\ text \o <<":">> \in AnyText
  BY <1>1, <1>2, <1>4, NoColonsJoin, Joins, Zenon
<1>6. SubSeq(text \o <<":">>, 1, Len(text \o <<":">>) - 1) = text
  BY <1>1 DEF AnyText
<1> QED
  BY <1>5, <1>6, Zenon DEF Same
-----------------------------------------------------------------------------
(* What print_value or a loop of it leaves is a text, or NoText when the   *)
(* memory ran out, and what is used a number.                              *)
Printing(r) == r.text \in AnyText /\ r.text # <<>> /\ r.used \in Nat

(* NULL is such a text. *)
LEMMA NoTextIsText == NoText \in AnyText /\ NoText # <<>>
BY MarksAreTokens, OneToken DEF NoText

(* A length is a number. *)
LEMMA SizeIsNatural ==
  \A text \in AnyText : Size(text) \in Nat
<1> SUFFICES ASSUME NEW text \in AnyText PROVE Size(text) \in Nat
  OBVIOUS
<1>1. [k \in DOMAIN text |-> Width(text[k])] \in Seq(Nat)
  BY WidthIsNatural DEF AnyText
<1> QED
  BY <1>1, TotalIsNatural DEF Size

(* A copy is the text, or NULL. *)
LEMMA CopiedIs ==
  ASSUME NEW text \in AnyText, text # <<>>, NEW n \in Nat, NEW limit, NEW used \in Nat
  PROVE  /\ Printing(Copied(text, n, limit, used))
         /\ Copied(text, n, limit, used).text \in {text, NoText}
<1>1. used + Aligned(n) \in Nat
  BY DEF Aligned
<1>2. \A t, u : Printed(t, u).text = t /\ Printed(t, u).used = u
  BY DEF Printed
<1> QED
  BY <1>1, <1>2, NoTextIsText, Zenon DEF Copied, Printing

(* What is printed of a tree is its text, but for colons, or NULL. *)
Prints(r, text) == Printing(r) /\ (r.text = NoText \/ Same(r.text, text))

(* The text with one child more: that of the ones before, a comma, and its *)
(* own.                                                                    *)
Continues(new, out, word) ==
  /\ Printing(new)
  /\ \/ new.text = NoText
     \/ /\ out.text # NoText /\ Len(new.text) > 1
        /\ Same(new.text, out.text \o Comma(out.text) \o word)

(* A comma is a text or none, *)
LEMMA CommaIsText ==
  \A out : Comma(out) \in AnyText /\ Len(Comma(out)) \in Nat
<1>1. <<",">> \in AnyText /\ Len(<<",">>) = 1 /\ <<>> \in AnyText /\ Len(<<>>) = 0
  BY MarksAreTokens, OneToken
<1>2. 1 \in Nat /\ 0 \in Nat
  OBVIOUS
<1> QED
  BY <1>1, <1>2, Zenon DEF Comma

(* and one byte long. *)
LEMMA CommaFits ==
  \A out : Size(Comma(out)) <= 1
<1>1. Width(",") = 1
  BY JsonAssumption DEF Width, Marks
<1>2. \A x \in Nat : Total(<<x>>) = x
  <2> SUFFICES ASSUME NEW x \in Nat PROVE Total(<<x>>) = x
    OBVIOUS
  <2>1. <<>> \in Seq(Nat) /\ <<x>> \o <<>> = <<x>>
    BY EmptySeq
  <2>2. Total(<<x>> \o <<>>) = x + 0
    BY <2>1, TotalFirst, TotalNone
  <2> QED
    BY <2>1, <2>2
<1>3. [k \in DOMAIN <<",">> |-> Width(<<",">>[k])] = <<1>>
  <2>1. \A x : [k \in DOMAIN <<x>> |-> Width(<<x>>[k])] = <<Width(x)>>
    OBVIOUS
  <2> QED
    BY <1>1, <2>1
<1>4. Size(<<",">>) = 1
  <2>1. 1 \in Nat
    OBVIOUS
  <2> QED
    BY <1>2, <1>3, <2>1, Zenon DEF Size
<1>5. [k \in DOMAIN <<>> |-> Width(<<>>[k])] = <<>>
  OBVIOUS
<1>6. Size(<<>>) = 0
  BY <1>5, TotalNone, Zenon DEF Size
<1>7. Size(<<",">>) <= 1 /\ Size(<<>>) <= 1
  <2>1. 1 <= 1 /\ 0 <= 1
    OBVIOUS
  <2> QED
    BY <1>4, <1>6, <2>1, Zenon
<1> QED
  BY <1>7, Zenon DEF Comma

(* One number more. *)
LEMMA OneMoreNumber ==
  ASSUME NEW numbers \in Seq(Nat), NEW n \in Nat
  PROVE  Totals[n + 1][numbers] = Totals[n][numbers] + numbers[n + 1]
BY TotalsUnroll

(* The numbers of two sequences add up to the sums of each. *)
LEMMA TotalsAdd ==
  ASSUME NEW a \in Seq(Nat), NEW b \in Seq(Nat), NEW all \in Seq(Nat),
         Len(all) = Len(a) + Len(b),
         \A k \in 1..Len(a) : all[k] = a[k],
         \A k \in 1..Len(b) : all[Len(a) + k] = b[k]
  PROVE  Total(all) = Total(a) + Total(b)
<1>1. Len(a) \in Nat /\ Len(b) \in Nat
  OBVIOUS
<1> DEFINE S == {n \in Nat : n <= Len(a) => Totals[n][all] = Totals[n][a]}
           T == {n \in Nat : n <= Len(b) =>
                   Totals[n][b] \in Nat /\ Totals[Len(a) + n][all] = Total(a) + Totals[n][b]}
<1>2. 0 \in S
  BY TotalsUnroll
<1>3. ASSUME NEW n \in Nat, n \in S PROVE n + 1 \in S
  <2> SUFFICES ASSUME n + 1 <= Len(a) PROVE Totals[n + 1][all] = Totals[n + 1][a]
    OBVIOUS
  <2>1. Totals[n][all] = Totals[n][a] /\ all[n + 1] = a[n + 1]
    BY <1>3
  <2> QED
    BY <2>1, OneMoreNumber, Zenon
<1>4. Nat \subseteq S
  <2> HIDE DEF S
  <2> QED
    BY <1>2, <1>3, Sums!NaturalInduction
<1>5. Totals[Len(a)][all] = Total(a) /\ Total(a) \in Nat
  BY <1>1, <1>4, TotalIsNatural DEF Total
<1>6. 0 \in T
  <2>1. Totals[0][b] = 0 /\ Len(a) + 0 = Len(a)
    BY TotalsUnroll
  <2> QED
    BY <1>5, <2>1
<1>7. ASSUME NEW n \in Nat, n \in T PROVE n + 1 \in T
  <2> SUFFICES ASSUME n + 1 <= Len(b)
               PROVE  /\ Totals[n + 1][b] \in Nat
                      /\ Totals[Len(a) + (n + 1)][all] = Total(a) + Totals[n + 1][b]
    OBVIOUS
  <2>1. PICK m \in Nat : m = Len(a) + n
    OBVIOUS
  <2>2. Len(a) + (n + 1) = m + 1 /\ n + 1 \in 1..Len(b) /\ n <= Len(b)
    BY <2>1
  <2>3. Totals[m + 1][all] = Totals[m][all] + all[m + 1]
    BY OneMoreNumber, Zenon
  <2>4. Totals[n + 1][b] = Totals[n][b] + b[n + 1]
    BY OneMoreNumber, Zenon
  <2>5. all[m + 1] = b[n + 1] /\ b[n + 1] \in Nat
    <3>1. all[Len(a) + (n + 1)] = b[n + 1]
      BY <2>2, Zenon
    <3>2. b[n + 1] \in Nat
      BY <2>2, ElementOfSeq, Zenon
    <3> QED
      BY <2>2, <3>1, <3>2, Zenon
  <2>6. Totals[n][b] \in Nat /\ Totals[m][all] = Total(a) + Totals[n][b]
    BY <1>7, <2>1, <2>2
  <2>7. PICK x, y, z : x = Totals[n][b] /\ y = b[n + 1] /\ z = Total(a)
    OBVIOUS
  <2>8. x \in Nat /\ y \in Nat /\ z \in Nat /\ Totals[n + 1][b] = x + y
        /\ Totals[m + 1][all] = (z + x) + y
    BY <1>5, <2>3, <2>4, <2>5, <2>6, <2>7, Zenon
  <2>9. x + y \in Nat /\ (z + x) + y = z + (x + y)
    BY <2>8
  <2> QED
    BY <2>2, <2>7, <2>8, <2>9, Zenon
<1>8. Nat \subseteq T
  <2> HIDE DEF T
  <2> QED
    BY <1>6, <1>7, Sums!NaturalInduction
<1>9. Totals[Len(a) + Len(b)][all] = Total(a) + Totals[Len(b)][b]
  BY <1>1, <1>8
<1> QED
  BY <1>9 DEF Total

(* The bytes of two texts together are those of each. *)
LEMMA SizeAdds ==
  \A s, t \in AnyText : Size(s \o t) = Size(s) + Size(t)
<1> SUFFICES ASSUME NEW s \in AnyText, NEW t \in AnyText
             PROVE  Size(s \o t) = Size(s) + Size(t)
  OBVIOUS
<1> DEFINE Numbers(text) == [k \in DOMAIN text |-> Width(text[k])]
           a == Numbers(s)
           b == Numbers(t)
           all == Numbers(s \o t)
<1>1. /\ a \in Seq(Nat) /\ b \in Seq(Nat) /\ all \in Seq(Nat)
      /\ Len(a) = Len(s) /\ Len(b) = Len(t) /\ Len(all) = Len(s) + Len(t)
      /\ Len(s) \in Nat /\ Len(t) \in Nat
  <2>1. \A text \in AnyText : Numbers(text) \in Seq(Nat) /\ Len(Numbers(text)) = Len(text)
    <3> SUFFICES ASSUME NEW text \in AnyText
                 PROVE  Numbers(text) \in Seq(Nat) /\ Len(Numbers(text)) = Len(text)
      OBVIOUS
    <3>1. text \in Seq(Tokens) /\ \A k \in DOMAIN text : Width(text[k]) \in Nat
      BY WidthIsNatural DEF AnyText
    <3>2. Numbers(text) \in Seq(Nat)
      BY <3>1
    <3>3. Len(Numbers(text)) = Len(text)
      BY <3>1
    <3> QED
      BY <3>2, <3>3
  <2>2. s \o t \in AnyText /\ Len(s \o t) = Len(s) + Len(t) /\ Len(s) \in Nat /\ Len(t) \in Nat
    BY DEF AnyText
  <2> HIDE DEF Numbers
  <2> QED
    BY <2>1, <2>2, Zenon
<1>2. /\ \A k \in 1..Len(s) : all[k] = a[k]
      /\ \A k \in 1..Len(t) : all[Len(s) + k] = b[k]
  BY DEF AnyText
<1>3. Size(s) = Total(a) /\ Size(t) = Total(b) /\ Size(s \o t) = Total(all)
  BY DEF Size
<1> HIDE DEF a, b, all
<1>4. /\ Len(all) = Len(a) + Len(b) /\ \A k \in 1..Len(a) : all[k] = a[k]
      /\ \A k \in 1..Len(b) : all[Len(a) + k] = b[k]
  BY <1>1, <1>2, Zenon
<1>5. Total(all) = Total(a) + Total(b)
  BY <1>1, <1>4, TotalsAdd, Zenon
<1> QED
  BY <1>3, <1>5, Zenon
-----------------------------------------------------------------------------
(* Two texts that are not empty have more than one token. *)
LEMMA TwoMore ==
  \A a, b, c \in AnyText : a # <<>> /\ c # <<>> => Len(a \o b \o c) > 1
<1> SUFFICES ASSUME NEW a \in AnyText, NEW b \in AnyText, NEW c \in AnyText, a # <<>>, c # <<>>
             PROVE  Len(a \o b \o c) > 1
  OBVIOUS
<1>1. Len(a) \in Nat \ {0} /\ Len(b) \in Nat /\ Len(c) \in Nat \ {0}
  BY DEF AnyText
<1>2. Len(a \o b \o c) = (Len(a) + Len(b)) + Len(c)
  BY DEF AnyText
<1> QED
  BY <1>1, <1>2

(* An element is printed behind the text so far, and nothing of it is cut: *)
(* the room is that of a comma and the NUL.                                *)
LEMMA ElementPrinted ==
  ASSUME NEW print, NEW elements, NEW limit \in Nat, NEW k, NEW word \in AnyText,
         NEW out, Printing(out),
         \A used \in Nat : Prints(print[elements[k]][used], word)
  PROVE  Continues(PrintElement(print, elements, limit, k, out), out, word)
<1>1. PICK tmp, room : /\ tmp = print[elements[k]][out.used]
                       /\ room = Size(out.text) + Size(tmp.text) + 2
  OBVIOUS
<1>2. /\ out.text \in AnyText /\ out.text # <<>> /\ out.used \in Nat
      /\ Printing(tmp) /\ (tmp.text = NoText \/ Same(tmp.text, word))
  BY <1>1, Zenon DEF Printing, Prints
<1>3. PICK all : all = out.text \o Comma(out.text) \o tmp.text
  OBVIOUS
<1>4. tmp.text \in AnyText /\ tmp.text # <<>> /\ tmp.used \in Nat
  BY <1>2, Zenon DEF Printing
<1>5. PrintElement(print, elements, limit, k, out) =
        IF out.text = NoText THEN out
        ELSE IF tmp.text = NoText THEN tmp
        ELSE Copied(Printf(all, room), room, limit, tmp.used)
  BY <1>1, <1>3, Zenon DEF PrintElement
<1>6. room \in Nat
  BY <1>1, <1>2, <1>4, SizeIsNatural
<1>7. Printf(all, room) = all
  <2>1. Size(all) = (Size(out.text) + Size(Comma(out.text))) + Size(tmp.text)
    <3>1. PICK front : front = out.text \o Comma(out.text)
      OBVIOUS
    <3>2. front \in AnyText /\ Size(front) = Size(out.text) + Size(Comma(out.text))
      BY <1>2, <3>1, CommaIsText, Joins, SizeAdds, Zenon
    <3>3. all = front \o tmp.text
      BY <1>3, <3>1, Zenon
    <3>4. Size(all) = Size(front) + Size(tmp.text)
      BY <1>4, <3>2, <3>3, SizeAdds, Zenon
    <3> QED
      BY <3>2, <3>4, Zenon
  <2>2. PICK a, b, c : a = Size(out.text) /\ b = Size(Comma(out.text)) /\ c = Size(tmp.text)
    OBVIOUS
  <2>3. a \in Nat /\ b \in Nat /\ c \in Nat /\ b <= 1
    BY <1>2, <1>4, <2>2, CommaIsText, CommaFits, SizeIsNatural, Zenon
  <2>4. (a + b) + c < a + c + 2
    BY <2>3
  <2>5. Size(all) < room
    BY <1>1, <2>1, <2>2, <2>4, Zenon
  <2> QED
    BY <2>5, Zenon DEF Printf
<1>8. all \in AnyText /\ Len(all) > 1 /\ all # <<>>
  <2>1. all \in AnyText
    BY <1>2, <1>3, <1>4, CommaIsText, Joins, Zenon
  <2>2. PICK a, b, c : a = out.text /\ b = Comma(out.text) /\ c = tmp.text
    OBVIOUS
  <2>3. /\ a \in AnyText /\ b \in AnyText /\ c \in AnyText /\ a # <<>> /\ c # <<>>
        /\ all = a \o b \o c
    BY <1>2, <1>3, <1>4, <2>2, CommaIsText, Zenon
  <2>4. Len(all) > 1
    BY <2>3, TwoMore, Zenon
  <2>5. all # <<>>
    BY <2>4
  <2> QED
    BY <2>1, <2>4, <2>5
<1>9. PICK new : new = Copied(all, room, limit, tmp.used)
  OBVIOUS
<1>10. Printing(new) /\ new.text \in {all, NoText}
  BY <1>4, <1>6, <1>8, <1>9, CopiedIs, Zenon
<1>11. Same(tmp.text, word) => Same(all, out.text \o Comma(out.text) \o word)
  <2>1. PICK front : front = out.text \o Comma(out.text)
    OBVIOUS
  <2>2. Same(front, front)
    BY <1>2, <2>1, CommaIsText, Joins, SameChains, Zenon
  <2>3. Same(tmp.text, word) => Same(front \o tmp.text, front \o word)
    BY <2>2, SameJoins, Zenon
  <2> QED
    BY <1>3, <2>1, <2>3, Zenon
<1> QED
  BY <1>2, <1>5, <1>7, <1>8, <1>9, <1>10, <1>11, Zenon DEF Continues

(* The name of a member in its quotes: with its colon and value it is what *)
(* Render writes, but for the colon.                                       *)
LEMMA QuotedKey ==
  ASSUME NEW key \in Strings, NEW word \in AnyText
  PROVE  LET quoted == <<"Q">> \o key \o <<"Q">>
         IN  /\ quoted \in AnyText /\ quoted # <<>> /\ key # NoText
             /\ Same(quoted \o word, Named(key, word))
<1>1. /\ key \in AnyText /\ <<"Q">> \in AnyText /\ <<":">> \in AnyText
      /\ <<"Q">> \o <<":">> = <<"Q", ":">> /\ <<"Q">> # <<>>
  <2>1. <<":">> \in AnyText
    <3>1. ":" \in Tokens
      BY MarksAreTokens
    <3> QED
      BY <3>1, OneToken, Zenon
  <2>2. <<"Q">> # <<>>
    OBVIOUS
  <2> QED
    BY <2>1, <2>2, MarksAreTokens, OneToken, TwoTokens, Zenon
<1>2. key # NoText
  <2>1. \A k \in DOMAIN key : key[k] # "NUL"
    BY DEF Strings
  <2>2. 1 \in DOMAIN NoText /\ NoText[1] = "NUL"
    BY DEF NoText
  <2> QED
    BY <2>1, <2>2, Zenon
<1>3. PICK quoted : quoted = <<"Q">> \o key \o <<"Q">>
  OBVIOUS
<1>4. quoted \in AnyText /\ quoted # <<>>
  BY <1>1, <1>3 DEF AnyText
<1>5. quoted \o <<":">> = <<"Q">> \o key \o <<"Q", ":">>
  <2>1. PICK front : front = <<"Q">> \o key
    OBVIOUS
  <2>2. front \in AnyText
    BY <1>1, <2>1, Joins, Zenon
  <2>3. (front \o <<"Q">>) \o <<":">> = front \o (<<"Q">> \o <<":">>)
    BY <1>1, <2>2, ThreeTexts, Zenon DEF Grouped
  <2> QED
    BY <1>1, <1>3, <2>1, <2>3, Zenon
<1>6. Same(quoted, quoted \o <<":">>)
  BY <1>4, ColonMore, Zenon
<1>7. Same(quoted \o word, (quoted \o <<":">>) \o word)
  BY <1>6, SameJoins, SameChains, Zenon
<1>8. Same(quoted \o word, Named(key, word))
  BY <1>5, <1>7, Zenon DEF Named
<1> QED
  BY <1>2, <1>3, <1>4, <1>8, Zenon

(* A member is printed behind the text so far, and only its colon may be   *)
(* cut.                                                                    *)
LEMMA MemberPrinted ==
  ASSUME NEW print, NEW members, NEW limit \in Nat, NEW k, NEW key \in Strings,
         members[k][1] = key, NEW word \in AnyText, NEW out, Printing(out),
         \A used \in Nat : Prints(print[members[k][2]][used], word)
  PROVE  Continues(PrintMember(print, members, limit, k, out), out, Named(key, word))
<1>1. PICK quoted, front, base, all :
        /\ quoted = <<"Q">> \o key \o <<"Q">> /\ front = out.text \o Comma(out.text)
        /\ base = front \o quoted /\ all = base \o <<":">>
  OBVIOUS
<1>2. /\ quoted \in AnyText /\ quoted # <<>> /\ key # NoText
      /\ Same(quoted \o word, Named(key, word))
  BY <1>1, QuotedKey, Zenon
<1>3. /\ out.text \in AnyText /\ out.text # <<>> /\ out.used \in Nat
  BY Zenon DEF Printing
<1>4. PICK name : name = PrintString(key, limit, out.used)
  OBVIOUS
<1>5. Printing(name) /\ name.text \in {quoted, NoText}
  <2>1. key \in AnyText
    BY MarksAreTokens
  <2>2. Size(key) + 3 \in Nat
    BY <2>1, SizeIsNatural
  <2>3. name = Copied(quoted, Size(key) + 3, limit, out.used)
    BY <1>1, <1>2, <1>4, Zenon DEF PrintString
  <2> QED
    BY <1>2, <1>3, <2>2, <2>3, CopiedIs, Zenon
<1>6. name.text \in AnyText /\ name.used \in Nat
  BY <1>5, Zenon DEF Printing
<1>7. PICK room : room = Size(out.text) + Size(name.text) + 2
  OBVIOUS
<1>8. room \in Nat
  BY <1>3, <1>6, <1>7, SizeIsNatural
<1>9. PICK named, tmp :
        /\ named = Copied(Printf(front \o name.text \o <<":">>, room), room, limit, name.used)
        /\ tmp = print[members[k][2]][named.used]
  OBVIOUS
<1>10. PrintMember(print, members, limit, k, out) =
         IF out.text = NoText \/ key = NoText THEN out
         ELSE IF name.text = NoText THEN name
         ELSE IF named.text = NoText THEN named
         ELSE IF tmp.text = NoText THEN tmp
         ELSE Copied(named.text \o tmp.text, Size(named.text) + Size(tmp.text) + 1, limit, tmp.used)
  BY <1>1, <1>4, <1>7, <1>9, Zenon DEF PrintMember
<1>11. /\ front \in AnyText /\ base \in AnyText /\ base # <<>>
       /\ all \in AnyText /\ all # <<>> /\ Same(all, base)
       /\ SubSeq(all, 1, Len(all) - 1) = base
  <2>1. front \in AnyText
    BY <1>1, <1>3, CommaIsText, Joins, Zenon
  <2>2. base \in AnyText
    BY <1>1, <1>2, <2>1, Joins, Zenon
  <2>3. base # <<>>
    BY <1>1, <1>2, <2>1 DEF AnyText
  <2>4. /\ all \in AnyText /\ Same(all, base)
        /\ SubSeq(all, 1, Len(all) - 1) = base
    BY <1>1, <2>2, ColonMore, Zenon
  <2>5. all # <<>>
    BY <1>1, <2>2 DEF AnyText
  <2> QED
    BY <2>1, <2>2, <2>3, <2>4, <2>5, Zenon
<1>12. CASE name.text = NoText \/ out.text = NoText
  <2>1. PrintMember(print, members, limit, k, out) \in {out, name}
    BY <1>2, <1>10, <1>12, Zenon
  <2> QED
    BY <1>2, <1>5, <1>10, <1>12, <2>1, Zenon DEF Continues
<1>13. CASE name.text # NoText /\ out.text # NoText
  <2>1. name.text = quoted
    BY <1>5, <1>13, Zenon
  <2>2. front \o name.text \o <<":">> = all
    BY <1>1, <2>1, Zenon
  <2>3. Printf(all, room) \in {all, base}
    BY <1>11, Zenon DEF Printf
  <2>4. PICK cut : cut = Printf(all, room)
    OBVIOUS
  <2>5. cut \in AnyText /\ cut # <<>> /\ Same(cut, base)
    <3>1. Same(base, base)
      BY <1>11, SameChains, Zenon
    <3>2. cut = all \/ cut = base
      BY <2>3, <2>4, Zenon
    <3>3. CASE cut = all
      BY <1>11, <3>3, Zenon
    <3>4. CASE cut = base
      BY <1>11, <3>1, <3>4, Zenon
    <3> QED
      BY <3>2, <3>3, <3>4, Zenon
  <2>6. Printing(named) /\ named.text \in {cut, NoText}
    BY <1>6, <1>8, <1>9, <2>2, <2>4, <2>5, CopiedIs, Zenon
  <2>7. named.used \in Nat /\ Prints(tmp, word)
    BY <1>9, <2>6, Zenon DEF Printing
  <2>8. /\ Printing(tmp) /\ (tmp.text = NoText \/ Same(tmp.text, word))
        /\ tmp.text \in AnyText /\ tmp.text # <<>> /\ tmp.used \in Nat
    BY <2>7, Zenon DEF Printing, Prints
  <2>9. CASE named.text = NoText \/ tmp.text = NoText
    <3>1. PrintMember(print, members, limit, k, out) \in {named, tmp}
      BY <1>2, <1>10, <1>13, <2>9, Zenon
    <3> QED
      BY <1>2, <1>10, <1>13, <2>6, <2>8, <2>9, Zenon DEF Continues
  <2>10. CASE named.text # NoText /\ tmp.text # NoText
    <3>1. PICK text, new : /\ text = cut \o tmp.text
                           /\ new = Copied(text, Size(cut) + Size(tmp.text) + 1, limit, tmp.used)
      OBVIOUS
    <3>2. named.text = cut /\ PrintMember(print, members, limit, k, out) = new
      BY <1>2, <1>10, <1>13, <2>6, <2>10, <3>1, Zenon
    <3>3. text \in AnyText /\ Len(text) > 1 /\ text # <<>>
      BY <2>5, <2>8, <3>1 DEF AnyText
    <3>4. Size(cut) + Size(tmp.text) + 1 \in Nat
      BY <2>5, <2>8, SizeIsNatural
    <3>5. Printing(new) /\ new.text \in {text, NoText}
      BY <2>8, <3>1, <3>3, <3>4, CopiedIs, Zenon
    <3>6. Same(text, base \o word)
      BY <2>5, <2>8, <2>10, <3>1, SameJoins, Zenon
    <3>7. Same(base \o word, front \o Named(key, word))
      <4>1. base \o word = front \o (quoted \o word)
        <5>1. Grouped(front, quoted, word)
          BY <1>2, <1>11, ThreeTexts, Zenon
        <5> QED
          BY <1>1, <5>1, Zenon DEF Grouped
      <4>2. Same(front, front)
        BY <1>11, SameChains, Zenon
      <4> QED
        BY <1>2, <4>1, <4>2, SameJoins, Zenon
    <3>8. Same(text, front \o Named(key, word))
      BY <3>6, <3>7, SameChains, Zenon
    <3> QED
      BY <1>1, <1>13, <3>2, <3>3, <3>5, <3>8, Zenon DEF Continues
  <2> QED
    BY <2>9, <2>10, Zenon
<1> QED
  BY <1>12, <1>13, Zenon

(* What is still to come when k texts of a list are printed. *)
Behind(texts, k) ==
  IF k = Len(texts) THEN <<>> ELSE (IF k = 0 THEN <<>> ELSE <<",">>) \o Lists[Len(texts) - k][texts]

(* The next text comes with a comma if it is not the first. *)
LEMMA NextBehind ==
  ASSUME NEW texts \in Seq(AnyText), NEW k \in Nat, k + 1 <= Len(texts)
  PROVE  /\ texts[k + 1] \in AnyText /\ Behind(texts, k + 1) \in AnyText
         /\ Behind(texts, k) =
              (IF k = 0 THEN <<>> ELSE <<",">>) \o (texts[k + 1] \o Behind(texts, k + 1))
<1>1. PICK n, j : n = Len(texts) /\ j = n - (k + 1)
  OBVIOUS
<1>2. n \in Nat /\ j \in Nat /\ n - k = j + 1 /\ n + 1 - (j + 1) = k + 1 /\ k # n
      /\ k + 1 \in 1..n /\ (j + 1 = 1 <=> k + 1 = n) /\ k + 1 # 0 /\ j <= n
  <2>1. n \in Nat /\ k \in Nat /\ k + 1 <= n
    BY <1>1
  <2> QED
    BY <1>1, <2>1
<1>3. texts[k + 1] \in AnyText
  BY <1>1, <1>2, ElementOfSeq, Zenon
<1>4. Lists[j][texts] \in AnyText
  BY <1>1, <1>2, ListsAreTexts, Zenon
<1>5. Behind(texts, k + 1) = IF j + 1 = 1 THEN <<>> ELSE <<",">> \o Lists[j][texts]
  BY <1>1, <1>2, Zenon DEF Behind
<1>6. Behind(texts, k + 1) \in AnyText
  <2>1. <<",">> \in AnyText /\ <<>> \in AnyText
    BY MarksAreTokens, OneToken
  <2>2. <<",">> \o Lists[j][texts] \in AnyText
    BY <1>4, <2>1, Joins, Zenon
  <2> QED
    BY <1>5, <2>1, <2>2, Zenon
<1>7. Lists[j + 1][texts] = texts[k + 1] \o Behind(texts, k + 1)
  <2>1. texts \in Seq(Seq(Tokens))
    BY DEF AnyText
  <2>2. Lists[j + 1][texts] =
          texts[Len(texts) + 1 - (j + 1)]
            \o (IF j + 1 = 1 THEN <<>> ELSE <<",">> \o Lists[j][texts])
    BY <1>2, <2>1, ListsUnroll
  <2> QED
    BY <1>1, <1>2, <1>5, <2>2, Zenon
<1>8. Behind(texts, k) = (IF k = 0 THEN <<>> ELSE <<",">>) \o Lists[j + 1][texts]
  BY <1>1, <1>2, Zenon DEF Behind
<1> QED
  BY <1>3, <1>6, <1>7, <1>8, Zenon

(* At first everything is to come, in the end nothing. *)
LEMMA BehindEnds ==
  ASSUME NEW texts \in Seq(AnyText)
  PROVE  Behind(texts, 0) = Listed(texts) /\ Behind(texts, Len(texts)) = <<>>
<1>1. Len(texts) \in Nat /\ Len(texts) - 0 = Len(texts)
  OBVIOUS
<1>2. CASE Len(texts) = 0
  <2>1. texts \in Seq(Seq(Tokens))
    BY DEF AnyText
  <2>2. Lists[0][texts] = <<>>
    BY <2>1, ListsUnroll
  <2> QED
    BY <1>2, <2>2, Zenon DEF Behind, Listed
<1>3. CASE Len(texts) # 0
  <2>1. Listed(texts) \in AnyText
    BY ListedIsText, Zenon
  <2>2. <<>> \o Listed(texts) = Listed(texts)
    BY <2>1 DEF AnyText
  <2> QED
    BY <1>1, <1>3, <2>2, Zenon DEF Behind, Listed
<1> QED
  BY <1>2, <1>3

(* A loop that starts with a bracket and puts each text behind the ones    *)
(* before it leaves the bracket and the list.                              *)
LEMMA LoopPrints ==
  ASSUME NEW texts \in Seq(AnyText), NEW mark \in Tokens, NEW g,
         Printing(g[0]), g[0].text \in {<<mark>>, NoText},
         \A k \in 1..Len(texts) : Printing(g[k - 1]) => Continues(g[k], g[k - 1], texts[k])
  PROVE  Prints(g[Len(texts)], <<mark>> \o Listed(texts))
<1> DEFINE whole == <<mark>> \o Listed(texts)
           So(k) == Printing(g[k]) /\ (\/ g[k].text = NoText
                                       \/ /\ Comma(g[k].text) = IF k = 0 THEN <<>> ELSE <<",">>
                                          /\ Same(g[k].text \o Behind(texts, k), whole))
           S == {k \in Nat : k <= Len(texts) => So(k)}
<1>1. Listed(texts) \in AnyText /\ <<mark>> \in AnyText /\ whole \in AnyText
  BY ListedIsText, OneToken, Joins, Zenon
<1>2. 0 \in S
  <2>1. CASE g[0].text = NoText
    BY <2>1
  <2>2. CASE g[0].text # NoText
    <3>1. g[0].text = <<mark>>
      BY <2>2
    <3>2. Comma(<<mark>>) = <<>>
      <4>1. ~(Len(<<mark>>) > 1)
        OBVIOUS
      <4> QED
        BY <4>1, Zenon DEF Comma
    <3>3. g[0].text \o Behind(texts, 0) = whole
      BY <3>1, BehindEnds, Zenon
    <3>4. Same(whole, whole)
      BY <1>1, SameChains, Zenon
    <3>5. So(0)
      BY <3>1, <3>2, <3>3, <3>4, Zenon
    <3> QED
      BY <3>5
  <2> QED
    BY <2>1, <2>2
<1>3. ASSUME NEW k \in Nat, k \in S PROVE k + 1 \in S
  <2> SUFFICES ASSUME k + 1 <= Len(texts) PROVE So(k + 1)
    <3> HIDE DEF So
    <3> QED
      OBVIOUS
  <2>1. PICK i : i = k + 1
    OBVIOUS
  <2>2. i \in 1..Len(texts) /\ i - 1 = k /\ k <= Len(texts) /\ i # 0
    BY <2>1
  <2>3. So(k)
    BY <1>3, <2>2
  <2>4. Continues(g[i], g[k], texts[i])
    BY <2>2, <2>3, Zenon
  <2>5. PICK comma : comma = IF k = 0 THEN <<>> ELSE <<",">>
    OBVIOUS
  <2>6. /\ texts[i] \in AnyText /\ Behind(texts, i) \in AnyText
        /\ Behind(texts, k) = comma \o (texts[i] \o Behind(texts, i))
    BY <2>1, <2>5, NextBehind, Zenon
  <2>7. comma \in AnyText
    <3>1. <<",">> \in AnyText /\ <<>> \in AnyText
      BY MarksAreTokens, OneToken
    <3> QED
      BY <2>5, <3>1, Zenon
  <2>8. CASE g[i].text = NoText
    <3>1. So(i)
      BY <2>4, <2>8, Zenon DEF Continues
    <3> QED
      BY <2>1, <3>1, Zenon
  <2>9. CASE g[i].text # NoText
    <3>1. /\ Printing(g[i]) /\ g[k].text # NoText /\ Len(g[i].text) > 1
          /\ Same(g[i].text, g[k].text \o Comma(g[k].text) \o texts[i])
      BY <2>4, <2>9, Zenon DEF Continues
    <3>2. /\ Comma(g[k].text) = comma /\ Same(g[k].text \o Behind(texts, k), whole)
          /\ g[k].text \in AnyText
      BY <2>3, <2>5, <3>1, Zenon DEF Printing
    <3>3. PICK front, rest : front = g[k].text /\ rest = Behind(texts, i)
      OBVIOUS
    <3>4. /\ Same(g[i].text, front \o comma \o texts[i])
          /\ Same(front \o (comma \o (texts[i] \o rest)), whole)
          /\ front \in AnyText /\ rest \in AnyText
      BY <2>6, <3>1, <3>2, <3>3, Zenon
    <3>5. front \o (comma \o (texts[i] \o rest)) = (front \o comma \o texts[i]) \o rest
      <4>1. texts[i] \o rest \in AnyText /\ front \o comma \in AnyText
        BY <2>6, <2>7, <3>4, Joins, Zenon
      <4>2. Grouped(front, comma, texts[i] \o rest) /\ Grouped(front \o comma, texts[i], rest)
        BY <2>6, <2>7, <3>4, <4>1, ThreeTexts, Zenon
      <4> QED
        BY <4>2, Zenon DEF Grouped
    <3>6. Same(rest, rest)
      BY <3>4, SameChains, Zenon
    <3>7. Same(g[i].text \o rest, (front \o comma \o texts[i]) \o rest)
      BY <3>4, <3>6, SameJoins, Zenon
    <3>8. Same(g[i].text \o rest, whole)
      BY <3>4, <3>5, <3>7, SameChains, Zenon
    <3>9. Comma(g[i].text) = <<",">>
      BY <3>1, Zenon DEF Comma
    <3>10. So(i)
      BY <2>2, <3>1, <3>3, <3>8, <3>9, Zenon
    <3> QED
      BY <2>1, <3>10, Zenon
  <2> QED
    BY <2>8, <2>9, Zenon
<1>4. Nat \subseteq S
  <2> HIDE DEF S
  <2> QED
    BY <1>2, <1>3, Sums!NaturalInduction
<1>5. Len(texts) \in Nat /\ Len(texts) <= Len(texts)
  OBVIOUS
<1>6. So(Len(texts))
  BY <1>4, <1>5
<1>7. g[Len(texts)].text \in AnyText => g[Len(texts)].text \o <<>> = g[Len(texts)].text
  BY DEF AnyText
<1> QED
  BY <1>6, <1>7, BehindEnds, Zenon DEF Prints, Printing

(* A loop of print_value from what it starts with, child after child. *)
PrintRun(print, tree, limit, open, g) ==
  /\ PrintList(print, tree, limit, open) = g[Len(tree[2])] /\ g[0] = open
  /\ \A k \in 1..Len(tree[2]) :
       g[k] = IF tree[1] = "array" THEN PrintElement(print, tree[2], limit, k, g[k - 1])
              ELSE PrintMember(print, tree[2], limit, k, g[k - 1])

(* It runs through. *)
LEMMA PrintListRuns ==
  ASSUME NEW print, NEW tree, NEW limit, NEW open, Len(tree[2]) \in Nat
  PROVE  \E g : PrintRun(print, tree, limit, open, g)
<1> DEFINE Next(k, x) == IF tree[1] = "array" THEN PrintElement(print, tree[2], limit, k, x)
                         ELSE PrintMember(print, tree[2], limit, k, x)
           Loop(n, g) == g = [k \in 0..n |-> IF k = 0 THEN open ELSE Next(k, g[k - 1])]
           S == {n \in Nat : \E g : Loop(n, g)}
           printed == CHOOSE g : Loop(Len(tree[2]), g)
<1>1. PrintList(print, tree, limit, open) = printed[Len(tree[2])]
  BY Zenon DEF PrintList
<1> HIDE DEF Next
<1>2. 0 \in S
  <2> DEFINE g == [k \in 0..0 |-> open]
  <2>1. Loop(0, g)
    OBVIOUS
  <2> QED
    BY <2>1
<1>3. ASSUME NEW n \in Nat, n \in S PROVE n + 1 \in S
  <2>1. PICK g : Loop(n, g)
    BY <1>3
  <2> DEFINE h == [k \in 0..n + 1 |-> IF k \in 0..n THEN g[k] ELSE Next(k, g[k - 1])]
  <2>2. ASSUME NEW k \in 0..n + 1
        PROVE  h[k] = IF k = 0 THEN open ELSE Next(k, h[k - 1])
    <3>1. CASE k = 0
      BY <2>1, <3>1
    <3>2. CASE k \in 0..n /\ k # 0
      <4>1. k - 1 \in 0..n /\ k - 1 \in 0..n + 1 /\ h[k] = g[k] /\ h[k - 1] = g[k - 1]
        BY <3>2
      <4>2. g[k] = Next(k, g[k - 1])
        BY <2>1, <3>2
      <4> QED
        BY <3>2, <4>1, <4>2
    <3>3. CASE k = n + 1
      <4>1. k - 1 \in 0..n /\ k - 1 \in 0..n + 1 /\ k \notin 0..n /\ k # 0
        BY <3>3
      <4>2. h[k] = Next(k, g[k - 1]) /\ h[k - 1] = g[k - 1]
        BY <4>1
      <4> QED
        BY <4>1, <4>2
    <3> QED
      BY <3>1, <3>2, <3>3
  <2>3. Loop(n + 1, h)
    BY <2>2
  <2> HIDE DEF Loop, h
  <2> QED
    BY <2>3
<1>4. Nat \subseteq S
  <2> HIDE DEF S
  <2> QED
    BY <1>2, <1>3, Sums!NaturalInduction
<1>5. Loop(Len(tree[2]), printed)
  <2> HIDE DEF Loop
  <2> QED
    BY <1>4, Zenon
<1> HIDE DEF printed
<1>6. printed[0] = open
  BY <1>5
<1>7. \A k \in 1..Len(tree[2]) : printed[k] = Next(k, printed[k - 1])
  <2> SUFFICES ASSUME NEW k \in 1..Len(tree[2]) PROVE printed[k] = Next(k, printed[k - 1])
    OBVIOUS
  <2>1. k \in 0..Len(tree[2]) /\ k # 0
    OBVIOUS
  <2> QED
    BY <1>5, <2>1, Zenon
<1> QED
  BY <1>1, <1>6, <1>7, Zenon DEF Next, PrintRun

(* The bracket at the end is printed behind the list. *)
LEMMA ClosingPrints ==
  ASSUME NEW out, NEW text, Prints(out, text), NEW mark \in Tokens, NEW limit \in Nat
  PROVE  Prints(Closing(mark, out, limit), text \o <<mark>>)
<1>1. CASE out.text = NoText
  BY <1>1, Zenon DEF Prints, Closing
<1>2. CASE out.text # NoText
  <2>1. /\ out.text \in AnyText /\ out.text # <<>> /\ out.used \in Nat /\ Same(out.text, text)
        /\ <<mark>> \in AnyText
    BY <1>2, OneToken, Zenon DEF Prints, Printing
  <2>2. PICK all : all = out.text \o <<mark>>
    OBVIOUS
  <2>3. Append(out.text, mark) = all /\ all \in AnyText /\ all # <<>>
    BY <2>1, <2>2 DEF AnyText
  <2>4. Size(out.text) + 2 \in Nat
    BY <2>1, SizeIsNatural
  <2>5. PICK new : new = Copied(all, Size(out.text) + 2, limit, out.used)
    OBVIOUS
  <2>6. Printing(new) /\ new.text \in {all, NoText}
    BY <2>1, <2>3, <2>4, <2>5, CopiedIs, Zenon
  <2>7. Same(all, text \o <<mark>>)
    BY <2>1, <2>2, SameJoins, SameChains, Zenon
  <2>8. Closing(mark, out, limit) = new
    BY <1>2, <2>3, <2>5, Zenon DEF Closing
  <2> QED
    BY <2>6, <2>7, <2>8, Zenon DEF Prints
<1> QED
  BY <1>1, <1>2

(* A list in its brackets, when each text is printed in its turn. *)
LEMMA ListPrints ==
  ASSUME NEW print, NEW tree, NEW limit \in Nat, NEW used \in Nat,
         NEW open \in Tokens, NEW close \in Tokens, NEW texts \in Seq(AnyText),
         Len(tree[2]) = Len(texts),
         \A k \in 1..Len(texts) : \A out : Printing(out) =>
           Continues(IF tree[1] = "array" THEN PrintElement(print, tree[2], limit, k, out)
                     ELSE PrintMember(print, tree[2], limit, k, out), out, texts[k])
  PROVE  Prints(Closing(close, PrintList(print, tree, limit, Copied(<<open>>, 2, limit, used)), limit),
                <<open>> \o Listed(texts) \o <<close>>)
<1>1. PICK first : first = Copied(<<open>>, 2, limit, used)
  OBVIOUS
<1>2. Printing(first) /\ first.text \in {<<open>>, NoText}
  <2>1. <<open>> \in AnyText /\ <<open>> # <<>> /\ 2 \in Nat
    BY OneToken
  <2> QED
    BY <1>1, <2>1, CopiedIs, Zenon
<1>3. Len(tree[2]) \in Nat
  OBVIOUS
<1>4. PICK g : PrintRun(print, tree, limit, first, g)
  BY <1>3, PrintListRuns, Zenon
<1>5. /\ PrintList(print, tree, limit, first) = g[Len(texts)] /\ g[0] = first
      /\ \A k \in 1..Len(texts) : Printing(g[k - 1]) => Continues(g[k], g[k - 1], texts[k])
  BY <1>4, Zenon DEF PrintRun
<1>6. Prints(g[Len(texts)], <<open>> \o Listed(texts))
  BY <1>2, <1>5, LoopPrints, Zenon
<1> QED
  BY <1>1, <1>5, <1>6, ClosingPrints, Zenon

(* print_value of a number or a literal. *)
LEMMA PrintTreeScalar ==
  ASSUME NEW print, NEW limit, NEW used, NEW x, NEW tree, tree = <<"scalar", x>>
  PROVE  PrintTree(print, tree, limit, used) = Copied(<<x>>, Width(x) + 1, limit, used)
<1>1. tree[1] = "scalar" /\ tree[2] = x
  OBVIOUS
<1>2. /\ "scalar" # "string" /\ "scalar" # "array" /\ "scalar" # "object"
      /\ "string" # "array" /\ "string" # "object" /\ "array" # "object"
  OBVIOUS
<1> QED
  BY <1>1, <1>2, Zenon DEF PrintTree

(* Of a string. *)
LEMMA PrintTreeString ==
  ASSUME NEW print, NEW limit, NEW used, NEW x, NEW tree, tree = <<"string", x>>
  PROVE  PrintTree(print, tree, limit, used) = PrintString(x, limit, used)
<1>1. tree[1] = "string" /\ tree[2] = x
  OBVIOUS
<1>2. /\ "scalar" # "string" /\ "scalar" # "array" /\ "scalar" # "object"
      /\ "string" # "array" /\ "string" # "object" /\ "array" # "object"
  OBVIOUS
<1> QED
  BY <1>1, <1>2, Zenon DEF PrintTree

(* Of an array. *)
LEMMA PrintTreeArray ==
  ASSUME NEW print, NEW limit, NEW used, NEW x, NEW tree, tree = <<"array", x>>
  PROVE  PrintTree(print, tree, limit, used) = 
           Closing("]", PrintList(print, tree, limit, Copied(<<"[">>, 2, limit, used)), limit)
<1>1. tree[1] = "array" /\ tree[2] = x
  OBVIOUS
<1>2. /\ "scalar" # "string" /\ "scalar" # "array" /\ "scalar" # "object"
      /\ "string" # "array" /\ "string" # "object" /\ "array" # "object"
  OBVIOUS
<1> QED
  BY <1>1, <1>2, Zenon DEF PrintTree

(* Of an object. *)
LEMMA PrintTreeObject ==
  ASSUME NEW print, NEW limit, NEW used, NEW x, NEW tree, tree = <<"object", x>>
  PROVE  PrintTree(print, tree, limit, used) = 
           Closing("}", PrintList(print, tree, limit, Copied(<<"{">>, 2, limit, used)), limit)
<1>1. tree[1] = "object" /\ tree[2] = x
  OBVIOUS
<1>2. /\ "scalar" # "string" /\ "scalar" # "array" /\ "scalar" # "object"
      /\ "string" # "array" /\ "string" # "object" /\ "array" # "object"
  OBVIOUS
<1> QED
  BY <1>1, <1>2, Zenon DEF PrintTree

(* If the calls one level down print the texts of their trees, so does     *)
(* this one.                                                               *)
LEMMA PrintStep ==
  ASSUME NEW n \in Nat, NEW print, NEW limit \in Nat, NEW used \in Nat, NEW tree \in TreesTo[n + 1],
         \A t \in TreesTo[n] : \A u \in Nat : Prints(print[t][u], Renderings[n][t])
  PROVE  Prints(PrintTree(print, tree, limit, used), Renderings[n + 1][tree])
<1>1. CASE \E token \in Scalars : tree = <<"scalar", token>>
  <2>1. PICK token \in Scalars : tree = <<"scalar", token>>
    BY <1>1
  <2>2. <<token>> \in AnyText /\ <<token>> # <<>> /\ Width(token) + 1 \in Nat
    <3>1. <<token>> \in AnyText
      BY MarksAreTokens, OneToken
    <3>2. Width(token) + 1 \in Nat
      BY WidthIsNatural
    <3> QED
      BY <3>1, <3>2
  <2>3. PICK new : new = Copied(<<token>>, Width(token) + 1, limit, used)
    OBVIOUS
  <2>4. Printing(new) /\ new.text \in {<<token>>, NoText} /\ Same(<<token>>, <<token>>)
    BY <2>2, <2>3, CopiedIs, SameChains, Zenon
  <2>5. PrintTree(print, tree, limit, used) = new /\ Renderings[n + 1][tree] = <<token>>
    <3>1. PrintTree(print, tree, limit, used) = new
      BY <2>1, <2>3, PrintTreeScalar
    <3>2. Renderings[n + 1][<<"scalar", token>>] = <<token>>
      BY TreeTexts, Zenon
    <3> QED
      BY <2>1, <3>1, <3>2, Zenon
  <2> QED
    BY <2>4, <2>5, Zenon DEF Prints
<1>2. CASE \E text \in Strings : tree = <<"string", text>>
  <2>1. PICK text \in Strings : tree = <<"string", text>>
    BY <1>2
  <2>2. PICK quoted : quoted = <<"Q">> \o text \o <<"Q">>
    OBVIOUS
  <2>3. quoted \in AnyText /\ quoted # <<>> /\ text # NoText
    <3>1. <<>> \in AnyText
      BY OneToken
    <3> QED
      BY <2>2, <3>1, QuotedKey, Zenon
  <2>4. Size(text) + 3 \in Nat
    <3>1. Size(text) \in Nat
      BY MarksAreTokens, SizeIsNatural, Zenon
    <3> QED
      BY <3>1
  <2>5. PICK new : new = Copied(quoted, Size(text) + 3, limit, used)
    OBVIOUS
  <2>6. Printing(new) /\ new.text \in {quoted, NoText} /\ Same(quoted, quoted)
    BY <2>3, <2>4, <2>5, CopiedIs, SameChains, Zenon
  <2>7. PrintTree(print, tree, limit, used) = new
    <3>1. PrintTree(print, tree, limit, used) = PrintString(text, limit, used)
      BY <2>1, PrintTreeString
    <3>2. PrintString(text, limit, used) = new
      BY <2>2, <2>3, <2>5, Zenon DEF PrintString
    <3> QED
      BY <2>1, <3>1, <3>2, Zenon
  <2>8. Renderings[n + 1][tree] = quoted
    BY <2>1, <2>2, TreeTexts, Zenon
  <2> QED
    BY <2>6, <2>7, <2>8, Zenon DEF Prints
<1>3. CASE \E trees \in Seq(TreesTo[n]) : tree = <<"array", trees>>
  <2>1. PICK trees \in Seq(TreesTo[n]) : tree = <<"array", trees>>
    BY <1>3
  <2>2. PICK texts : texts = Worded(n, trees)
    OBVIOUS
  <2>3. /\ tree[1] = "array" /\ tree[2] = trees /\ texts \in Seq(AnyText)
        /\ Len(texts) = Len(trees) /\ "[" \in Tokens /\ "]" \in Tokens
    <3>1. texts \in Seq(AnyText)
      BY <2>2, WordedAreTexts, Zenon
    <3>2. Len(texts) = Len(trees)
      BY <2>2 DEF Worded
    <3>3. tree[1] = "array" /\ tree[2] = trees
      BY <2>1
    <3> QED
      BY <3>1, <3>2, <3>3, MarksAreTokens
  <2>4. ASSUME NEW k \in 1..Len(texts), NEW out, Printing(out)
        PROVE  Continues(PrintElement(print, trees, limit, k, out), out, texts[k])
    <3>1. k \in DOMAIN trees /\ trees[k] \in TreesTo[n]
      BY <2>3
    <3>2. texts[k] = Renderings[n][trees[k]] /\ texts[k] \in AnyText
      <4>1. texts[k] = Renderings[n][trees[k]]
        BY <2>2, <3>1 DEF Worded
      <4> QED
        BY <2>3, <4>1, ElementOfSeq, Zenon
    <3>3. \A u \in Nat : Prints(print[trees[k]][u], texts[k])
      BY <3>1, <3>2, Zenon
    <3> QED
      BY <2>4, <3>2, <3>3, ElementPrinted, Zenon
  <2>5. Prints(Closing("]", PrintList(print, tree, limit, Copied(<<"[">>, 2, limit, used)), limit),
               <<"[">> \o Listed(texts) \o <<"]">>)
    BY <2>3, <2>4, ListPrints, Zenon
  <2>6. Renderings[n + 1][tree] = <<"[">> \o Listed(texts) \o <<"]">>
    BY <2>1, <2>2, TreeTexts, Zenon
  <2>7. PrintTree(print, tree, limit, used) =
          Closing("]", PrintList(print, tree, limit, Copied(<<"[">>, 2, limit, used)), limit)
    BY <2>1, PrintTreeArray, Zenon
  <2> QED
    BY <2>5, <2>6, <2>7, Zenon
<1>4. CASE \E members \in Seq(Strings \X TreesTo[n]) : tree = <<"object", members>>
  <2>1. PICK members \in Seq(Strings \X TreesTo[n]) : tree = <<"object", members>>
    BY <1>4
  <2>2. PICK texts : texts = Keyed(n, members)
    OBVIOUS
  <2>3. /\ tree[1] = "object" /\ tree[2] = members /\ texts \in Seq(AnyText)
        /\ Len(texts) = Len(members) /\ "{" \in Tokens /\ "}" \in Tokens
    <3>1. texts \in Seq(AnyText)
      BY <2>2, KeyedAreTexts, Zenon
    <3>2. Len(texts) = Len(members)
      BY <2>2 DEF Keyed
    <3>3. tree[1] = "object" /\ tree[2] = members
      BY <2>1
    <3> QED
      BY <3>1, <3>2, <3>3, MarksAreTokens
  <2>4. ASSUME NEW k \in 1..Len(texts), NEW out, Printing(out)
        PROVE  Continues(PrintMember(print, members, limit, k, out), out, texts[k])
    <3>1. k \in DOMAIN members /\ members[k] \in Strings \X TreesTo[n]
      <4>1. k \in 1..Len(members)
        BY <2>3, Zenon
      <4>2. DOMAIN members = 1..Len(members)
        OBVIOUS
      <4> QED
        BY <4>1, <4>2, ElementOfSeq, Zenon
    <3>2. PICK key, value : key = members[k][1] /\ value = members[k][2]
      OBVIOUS
    <3>3. key \in Strings /\ value \in TreesTo[n]
      BY <3>1, <3>2
    <3>4. PICK word : word = Renderings[n][value]
      OBVIOUS
    <3>5. word \in AnyText /\ texts[k] = Named(key, word)
      <4>1. word \in AnyText
        BY <3>3, <3>4, RenderingsAreTexts, Zenon
      <4>2. texts[k] = Named(members[k][1], Renderings[n][members[k][2]])
        BY <2>2, <3>1 DEF Keyed
      <4> QED
        BY <3>2, <3>4, <4>1, <4>2, Zenon
    <3>6. \A u \in Nat : Prints(print[members[k][2]][u], word)
      BY <3>2, <3>3, <3>4, Zenon
    <3>7. Continues(PrintMember(print, members, limit, k, out), out, Named(key, word))
      BY <2>4, <3>2, <3>3, <3>5, <3>6, MemberPrinted, Zenon
    <3> QED
      BY <3>5, <3>7, Zenon
  <2>5. Prints(Closing("}", PrintList(print, tree, limit, Copied(<<"{">>, 2, limit, used)), limit),
               <<"{">> \o Listed(texts) \o <<"}">>)
    <3>1. tree[1] # "array"
      BY <2>3
    <3> QED
      BY <2>3, <2>4, <3>1, ListPrints, Zenon
  <2>6. Renderings[n + 1][tree] = <<"{">> \o Listed(texts) \o <<"}">>
    BY <2>1, <2>2, TreeTexts, Zenon
  <2>7. PrintTree(print, tree, limit, used) =
          Closing("}", PrintList(print, tree, limit, Copied(<<"{">>, 2, limit, used)), limit)
    BY <2>1, PrintTreeObject, Zenon
  <2> QED
    BY <2>5, <2>6, <2>7, Zenon
<1> QED
  BY <1>1, <1>2, <1>3, <1>4, TreeForms, Zenon

Makings == INSTANCE Recursion WITH
  Base <- {}, Step <- LAMBDA n, flatter : TreesOver(Strings \union {NoText}, flatter)

(* The trees the builders leave. *)
LEMMA MadeUnroll ==
  /\ MadeTo[0] = {}
  /\ \A n \in Nat : MadeTo[n + 1] = TreesOver(Strings \union {NoText}, MadeTo[n])
BY Makings!Unrolls DEF MadeTo, Makings!f

(* The trees of a text are among them. *)
LEMMA TreesAreMade ==
  \A n \in Nat : TreesTo[n] \subseteq MadeTo[n]
<1> DEFINE S == {n \in Nat : TreesTo[n] \subseteq MadeTo[n]}
<1>1. 0 \in S
  BY TreesUnroll
<1>2. ASSUME NEW n \in Nat, n \in S PROVE n + 1 \in S
  <2>1. PICK texts : texts = Strings \union {NoText}
    OBVIOUS
  <2>2. PICK trees, made : trees = TreesTo[n] /\ made = MadeTo[n]
    OBVIOUS
  <2>3. trees \subseteq made /\ Strings \subseteq texts
    BY <1>2, <2>1, <2>2
  <2>4. /\ TreesTo[n + 1] = TreesOver(Strings, trees)
        /\ MadeTo[n + 1] = TreesOver(texts, made)
    BY <2>1, <2>2, TreesUnroll, MadeUnroll
  <2>5. Seq(trees) \subseteq Seq(made)
    BY <2>3
  <2>6. Seq(Strings \X trees) \subseteq Seq(texts \X made)
    <3>1. Strings \X trees \subseteq texts \X made
      BY <2>3
    <3> QED
      BY <3>1
  <2>7. {"string"} \X Strings \subseteq {"string"} \X texts
    BY <2>3
  <2>8. /\ {"array"} \X Seq(trees) \subseteq {"array"} \X Seq(made)
        /\ {"object"} \X Seq(Strings \X trees) \subseteq {"object"} \X Seq(texts \X made)
    BY <2>5, <2>6
  <2>9. TreesOver(Strings, trees) \subseteq TreesOver(texts, made)
    BY <2>7, <2>8, Zenon DEF TreesOver
  <2> QED
    BY <2>4, <2>9
<1>3. Nat \subseteq S
  <2> HIDE DEF S
  <2> QED
    BY <1>1, <1>2, Sums!NaturalInduction
<1> QED
  BY <1>3

Outputs == INSTANCE Recursion WITH Base <- [limit \in Nat |-> <<>>],
  Step <- LAMBDA n, shallower : [limit \in Nat |-> [tree \in MadeTo[n] |-> [used \in Nat |->
            PrintTree(shallower[limit], tree, limit, used)]]]

(* print_value calls itself for a tree's children. *)
LEMMA PrintersUnroll ==
  \A n \in Nat : Printers[n + 1] =
    [limit \in Nat |-> [tree \in MadeTo[n + 1] |-> [used \in Nat |->
       PrintTree(Printers[n][limit], tree, limit, used)]]]
BY Outputs!Unrolls DEF Printers, Outputs!f

(* One call of it. *)
LEMMA PrinterCalls ==
  ASSUME NEW n \in Nat, NEW limit \in Nat, NEW tree \in MadeTo[n + 1], NEW used \in Nat
  PROVE  Printers[n + 1][limit][tree][used] = PrintTree(Printers[n][limit], tree, limit, used)
<1> DEFINE P(size, t, u) == PrintTree(Printers[n][size], t, size, u)
<1>1. PICK made : made = MadeTo[n + 1]
  OBVIOUS
<1>2. Printers[n + 1] = [size \in Nat |-> [t \in made |-> [u \in Nat |-> P(size, t, u)]]]
  BY <1>1, PrintersUnroll, Zenon
<1> HIDE DEF P
<1>3. Printers[n + 1][limit][tree][used] = P(limit, tree, used)
  BY <1>1, <1>2
<1> QED
  BY <1>3 DEF P

(* It prints the text of every tree it has the nesting for, but for colons *)
(* that are cut, or runs out of memory.                                    *)
LEMMA PrinterPrints ==
  ASSUME NEW limit \in Nat
  PROVE  \A n \in Nat : \A tree \in TreesTo[n] : \A used \in Nat :
           Prints(Printers[n][limit][tree][used], Renderings[n][tree])
<1> DEFINE So(n) == \A tree \in TreesTo[n] : \A used \in Nat :
                      Prints(Printers[n][limit][tree][used], Renderings[n][tree])
           S == {n \in Nat : So(n)}
<1>1. 0 \in S
  BY TreesUnroll
<1>2. ASSUME NEW n \in Nat, n \in S PROVE n + 1 \in S
  <2>1. ASSUME NEW tree \in TreesTo[n + 1], NEW used \in Nat
        PROVE  Prints(Printers[n + 1][limit][tree][used], Renderings[n + 1][tree])
    <3>1. PICK print : print = Printers[n][limit]
      OBVIOUS
    <3>2. Prints(PrintTree(print, tree, limit, used), Renderings[n + 1][tree])
      BY <1>2, <3>1, PrintStep, Zenon
    <3>3. Printers[n + 1][limit][tree][used] = PrintTree(print, tree, limit, used)
      <4>1. tree \in MadeTo[n + 1]
        BY TreesAreMade
      <4> QED
        BY <3>1, <4>1, PrinterCalls, Zenon
    <3> QED
      BY <3>2, <3>3, Zenon
  <2>2. So(n + 1)
    BY <2>1
  <2> HIDE DEF So
  <2> QED
    BY <2>2
<1>3. Nat \subseteq S
  <2> HIDE DEF S
  <2> QED
    BY <1>1, <1>2, Sums!NaturalInduction
<1> QED
  BY <1>3, Zenon
-----------------------------------------------------------------------------
(* The loop of a builder over the children, one after the other. *)
AddRun(build, tree, limit, open, g) ==
  /\ AddChildren(build, tree, limit, open) = g[Len(tree[2])] /\ g[0] = open
  /\ \A k \in 1..Len(tree[2]) : g[k] = AddChild(build, tree, limit, k, g[k - 1])

(* It runs through. *)
LEMMA AddChildrenRuns ==
  ASSUME NEW build, NEW tree, NEW limit, NEW open, Len(tree[2]) \in Nat
  PROVE  \E g : AddRun(build, tree, limit, open, g)
<1> DEFINE Next(k, x) == AddChild(build, tree, limit, k, x)
           Loop(n, g) == g = [k \in 0..n |-> IF k = 0 THEN open ELSE Next(k, g[k - 1])]
           S == {n \in Nat : \E g : Loop(n, g)}
           added == CHOOSE g : Loop(Len(tree[2]), g)
<1>1. AddChildren(build, tree, limit, open) = added[Len(tree[2])]
  BY Zenon DEF AddChildren
<1> HIDE DEF Next
<1>2. 0 \in S
  <2> DEFINE g == [k \in 0..0 |-> open]
  <2>1. Loop(0, g)
    OBVIOUS
  <2> QED
    BY <2>1
<1>3. ASSUME NEW n \in Nat, n \in S PROVE n + 1 \in S
  <2>1. PICK g : Loop(n, g)
    BY <1>3
  <2> DEFINE h == [k \in 0..n + 1 |-> IF k \in 0..n THEN g[k] ELSE Next(k, g[k - 1])]
  <2>2. ASSUME NEW k \in 0..n + 1
        PROVE  h[k] = IF k = 0 THEN open ELSE Next(k, h[k - 1])
    <3>1. CASE k = 0
      BY <2>1, <3>1
    <3>2. CASE k \in 0..n /\ k # 0
      <4>1. k - 1 \in 0..n /\ k - 1 \in 0..n + 1 /\ h[k] = g[k] /\ h[k - 1] = g[k - 1]
        BY <3>2
      <4>2. g[k] = Next(k, g[k - 1])
        BY <2>1, <3>2
      <4> QED
        BY <3>2, <4>1, <4>2
    <3>3. CASE k = n + 1
      <4>1. k - 1 \in 0..n /\ k - 1 \in 0..n + 1 /\ k \notin 0..n /\ k # 0
        BY <3>3
      <4>2. h[k] = Next(k, g[k - 1]) /\ h[k - 1] = g[k - 1]
        BY <4>1
      <4> QED
        BY <4>1, <4>2
    <3> QED
      BY <3>1, <3>2, <3>3
  <2>3. Loop(n + 1, h)
    BY <2>2
  <2> HIDE DEF Loop, h
  <2> QED
    BY <2>3
<1>4. Nat \subseteq S
  <2> HIDE DEF S
  <2> QED
    BY <1>2, <1>3, Sums!NaturalInduction
<1>5. Loop(Len(tree[2]), added)
  <2> HIDE DEF Loop
  <2> QED
    BY <1>4, Zenon
<1> HIDE DEF added
<1>6. added[0] = open
  BY <1>5
<1>7. \A k \in 1..Len(tree[2]) : added[k] = Next(k, added[k - 1])
  <2> SUFFICES ASSUME NEW k \in 1..Len(tree[2]) PROVE added[k] = Next(k, added[k - 1])
    OBVIOUS
  <2>1. k \in 0..Len(tree[2]) /\ k # 0
    OBVIOUS
  <2> QED
    BY <1>5, <2>1, Zenon
<1> QED
  BY <1>1, <1>6, <1>7, Zenon DEF Next, AddRun

(* The first numbers of some come to no more than all of them. *)
LEMMA TotalsGrow ==
  ASSUME NEW numbers \in Seq(Nat)
  PROVE  \A k \in 0..Len(numbers) :
           Totals[k][numbers] \in Nat /\ Totals[k][numbers] <= Total(numbers)
<1> DEFINE T(k) == Totals[k][numbers]
           So(n) == \A k \in 0..n : T(k) \in Nat /\ T(k) <= T(n)
           S == {n \in Nat : n <= Len(numbers) => So(n)}
<1>1. T(0) = 0
  BY TotalsUnroll
<1>2. ASSUME NEW n \in Nat, n + 1 <= Len(numbers) PROVE T(n + 1) = T(n) + numbers[n + 1]
  BY OneMoreNumber, Zenon
<1> HIDE DEF T
<1>3. 0 \in S
  BY <1>1
<1>4. ASSUME NEW n \in Nat, n \in S PROVE n + 1 \in S
  <2> SUFFICES ASSUME n + 1 <= Len(numbers) PROVE So(n + 1)
    <3> HIDE DEF So
    <3> QED
      OBVIOUS
  <2>1. n <= Len(numbers) /\ n + 1 \in 1..Len(numbers)
    OBVIOUS
  <2>2. numbers[n + 1] \in Nat
    BY <2>1, ElementOfSeq, Zenon
  <2>3. T(n) \in Nat /\ So(n)
    BY <1>4, <2>1
  <2>4. T(n + 1) \in Nat /\ T(n) <= T(n + 1)
    BY <1>2, <2>2, <2>3
  <2>5. ASSUME NEW k \in 0..n + 1 PROVE T(k) \in Nat /\ T(k) <= T(n + 1)
    <3>1. CASE k \in 0..n
      BY <2>3, <2>4, <3>1
    <3>2. CASE k = n + 1
      BY <2>4, <3>2
    <3> QED
      BY <3>1, <3>2
  <2> QED
    BY <2>5
<1>5. Nat \subseteq S
  <2> HIDE DEF S
  <2> QED
    BY <1>3, <1>4, Sums!NaturalInduction
<1>6. So(Len(numbers))
  BY <1>5
<1> QED
  BY <1>6 DEF T, Total

(* What one builder makes of a tree with room for it: all of the tree, and *)
(* it takes what the tree takes.                                           *)
Builds(made, tree, used, size) == made = Left(0, used + size, tree)

(* A child joins the others: what is used then is now. *)
JoinsThem(build, kind, list, limit, k, u, front, now) ==
  AddChild(build, <<kind, list>>, limit, k, Left(0, u, <<kind, front>>)) =
    Left(0, now, <<kind, Append(front, list[k])>>)

(* Child after child joins the list, while there is memory. *)
LEMMA ChildrenAdded ==
  ASSUME NEW build, NEW kind, NEW S, NEW list \in Seq(S), NEW limit \in Nat, NEW used \in Nat,
         NEW numbers \in Seq(Nat), Len(numbers) = Len(list), used + Total(numbers) <= limit,
         \A k \in 1..Len(list) : \A u \in Nat : \A front \in Seq(S) :
           u + numbers[k] <= limit =>
             JoinsThem(build, kind, list, limit, k, u, front, u + numbers[k])
  PROVE  Builds(AddChildren(build, <<kind, list>>, limit, Left(0, used, <<kind, <<>>>>)),
                <<kind, list>>, used, Total(numbers))
<1>1. PICK tree, open : tree = <<kind, list>> /\ open = Left(0, used, <<kind, <<>>>>)
  OBVIOUS
<1>2. tree[2] = list /\ Len(list) \in Nat
  BY <1>1
<1>3. PICK g : AddRun(build, tree, limit, open, g)
  <2>1. Len(tree[2]) \in Nat
    BY <1>2, Zenon
  <2> QED
    BY <2>1, AddChildrenRuns, Zenon
<1>4. /\ AddChildren(build, tree, limit, open) = g[Len(list)] /\ g[0] = open
      /\ \A k \in 1..Len(list) : g[k] = AddChild(build, tree, limit, k, g[k - 1])
  BY <1>2, <1>3, Zenon DEF AddRun
<1> DEFINE T(k) == Totals[k][numbers]
           So(k) == g[k] = Left(0, used + T(k), <<kind, SubSeq(list, 1, k)>>)
           I == {k \in Nat : k <= Len(list) => So(k)}
<1>5. \A k \in 0..Len(list) : T(k) \in Nat /\ T(k) <= Total(numbers)
  BY TotalsGrow
<1>6. ASSUME NEW k \in Nat PROVE T(k + 1) = T(k) + numbers[k + 1]
  BY OneMoreNumber, Zenon
<1>7. T(0) = 0
  BY TotalsUnroll
<1> HIDE DEF T
<1>8. 0 \in I
  <2>1. SubSeq(list, 1, 0) = <<>> /\ used + T(0) = used
    BY <1>7
  <2>2. So(0)
    BY <1>1, <1>4, <2>1, Zenon
  <2> QED
    BY <2>2
<1>9. ASSUME NEW k \in Nat, k \in I PROVE k + 1 \in I
  <2> SUFFICES ASSUME k + 1 <= Len(list) PROVE So(k + 1)
    <3> HIDE DEF So
    <3> QED
      OBVIOUS
  <2>1. PICK i, u, front : i = k + 1 /\ u = used + T(k) /\ front = SubSeq(list, 1, k)
    OBVIOUS
  <2>2. i \in 1..Len(list) /\ i - 1 = k /\ k \in 0..Len(list) /\ i \in 0..Len(list)
    BY <1>2, <2>1
  <2>3. g[k] = Left(0, u, <<kind, front>>)
    BY <1>9, <2>1, <2>2
  <2>4. g[i] = AddChild(build, tree, limit, i, g[k])
    BY <1>4, <2>2, Zenon
  <2>5. front \in Seq(S) /\ Append(front, list[i]) = SubSeq(list, 1, i)
    BY <1>2, <2>1, <2>2
  <2>6. numbers[i] \in Nat
    <3>1. i \in 1..Len(numbers)
      BY <2>2, Zenon
    <3> QED
      BY <3>1, ElementOfSeq, Zenon
  <2>7. u \in Nat /\ u + numbers[i] = used + T(i) /\ u + numbers[i] <= limit
    <3>1. T(i) = T(k) + numbers[i]
      BY <1>6, <2>1, Zenon
    <3>2. T(k) \in Nat /\ T(i) \in Nat /\ T(i) <= Total(numbers)
      BY <1>5, <2>2, Zenon
    <3>3. PICK x, y, z, total : x = T(k) /\ y = T(i) /\ z = numbers[i] /\ total = Total(numbers)
      OBVIOUS
    <3>4. Total(numbers) \in Nat
      BY TotalIsNatural, Zenon
    <3>5. x \in Nat /\ y \in Nat /\ z \in Nat /\ total \in Nat /\ y = x + z /\ y <= total
          /\ used + total <= limit /\ u = used + x
      BY <2>1, <2>6, <3>1, <3>2, <3>3, <3>4
    <3>6. u \in Nat /\ u + z = used + y /\ u + z <= limit
      BY <3>5
    <3> QED
      BY <3>3, <3>6, Zenon
  <2>8. AddChild(build, tree, limit, i, Left(0, u, <<kind, front>>)) =
          Left(0, u + numbers[i], <<kind, Append(front, list[i])>>)
    <3>1. JoinsThem(build, kind, list, limit, i, u, front, u + numbers[i])
      BY <2>2, <2>5, <2>7, Zenon
    <3> QED
      BY <1>1, <3>1, Zenon DEF JoinsThem
  <2>9. So(i)
    BY <2>3, <2>4, <2>5, <2>7, <2>8, Zenon
  <2> QED
    BY <2>1, <2>9, Zenon
<1>10. Nat \subseteq I
  <2> HIDE DEF I
  <2> QED
    BY <1>8, <1>9, Sums!NaturalInduction
<1>11. So(Len(list))
  BY <1>2, <1>10
<1>12. SubSeq(list, 1, Len(list)) = list
  OBVIOUS
<1>13. T(Len(list)) = Total(numbers)
  BY Zenon DEF T, Total
<1> QED
  BY <1>1, <1>4, <1>11, <1>12, <1>13, Zenon DEF Builds

(* cJSON_AddItemToArray: the element joins the others. *)
LEMMA ElementAdded ==
  ASSUME NEW build, NEW list, NEW limit, NEW k, NEW u, NEW front, NEW now, NEW item,
         list[k] = item, build[item][u] = Left(0, now, item), item # NoTree
  PROVE  JoinsThem(build, "array", list, limit, k, u, front, now)
<1>1. PICK tree, before, all : tree = <<"array", list>> /\ all = <<"array", front>>
                               /\ before = Left(0, u, all)
  OBVIOUS
<1>2. /\ tree[1] = "array" /\ tree[2] = list /\ all[2] = front /\ all # NoTree
      /\ "array" # "object"
  BY <1>1 DEF NoTree
<1>3. before.used = u /\ before.tree = all
  BY <1>1 DEF Left
<1>4. PICK child : child = build[list[k]][u]
  OBVIOUS
<1>5. child.used = now /\ child.tree = list[k]
  BY <1>4 DEF Left
<1>6. AddChild(build, tree, limit, k, before) = Left(0, now, <<"array", Append(front, list[k])>>)
  BY <1>2, <1>3, <1>4, <1>5, Zenon DEF AddChild
<1> QED
  BY <1>1, <1>6, Zenon DEF JoinsThem

(* cJSON_AddItemToObject: the member joins them with its key. *)
LEMMA MemberAdded ==
  ASSUME NEW build, NEW list, NEW limit, NEW k, NEW u, NEW front, NEW now, NEW key, NEW value,
         list[k] = <<key, value>>, build[value][u] = Left(0, now, value), value # NoTree,
         now + Kept(key) <= limit
  PROVE  JoinsThem(build, "object", list, limit, k, u, front, now + Kept(key))
<1>1. PICK tree, before, all : tree = <<"object", list>> /\ all = <<"object", front>>
                               /\ before = Left(0, u, all)
  OBVIOUS
<1>2. /\ tree[1] = "object" /\ tree[2] = list /\ all[2] = front /\ all # NoTree
      /\ list[k][1] = key /\ list[k][2] = value
  BY <1>1 DEF NoTree
<1>3. before.used = u /\ before.tree = all
  BY <1>1 DEF Left
<1>4. PICK child : child = build[value][u]
  OBVIOUS
<1>5. child.used = now /\ child.tree = value
  BY <1>4 DEF Left
<1>6. AddChild(build, tree, limit, k, before) =
        Left(0, now + Kept(key), <<"object", Append(front, <<key, value>>)>>)
  BY <1>2, <1>3, <1>4, <1>5, Zenon DEF AddChild
<1> QED
  BY <1>1, <1>6, Zenon DEF JoinsThem

(* An array or object is built child after child behind its node, *)
LEMMA BuildsList ==
  ASSUME NEW build, NEW kind \in {"array", "object"}, NEW x, NEW limit, NEW used,
         used + Item <= limit
  PROVE  BuildValue(build, <<kind, x>>, limit, used) =
           AddChildren(build, <<kind, x>>, limit, Left(0, used + Item, <<kind, <<>>>>))
<1>1. PICK tree : tree = <<kind, x>>
  OBVIOUS
<1>2. tree[1] = kind /\ kind # "scalar" /\ kind # "string"
  BY <1>1
<1> QED
  BY <1>1, <1>2, Zenon DEF BuildValue

(* a scalar is its node alone, *)
LEMMA BuildsScalar ==
  ASSUME NEW build, NEW x, NEW limit, NEW used, used + Item <= limit
  PROVE  BuildValue(build, <<"scalar", x>>, limit, used) = Left(0, used + Item, <<"scalar", x>>)
<1>1. PICK tree : tree = <<"scalar", x>>
  OBVIOUS
<1>2. tree[1] = "scalar"
  BY <1>1
<1> QED
  BY <1>1, <1>2, Zenon DEF BuildValue

(* and a string has its copy behind it. *)
LEMMA BuildsString ==
  ASSUME NEW build, NEW x, NEW limit, NEW used, used + Item <= limit,
         (used + Item) + Kept(x) <= limit
  PROVE  BuildValue(build, <<"string", x>>, limit, used) =
           Left(0, (used + Item) + Kept(x), <<"string", x>>)
<1>1. PICK tree : tree = <<"string", x>>
  OBVIOUS
<1>2. tree[1] = "string" /\ tree[2] = x /\ "string" # "scalar"
  BY <1>1
<1> QED
  BY <1>1, <1>2, Zenon DEF BuildValue

(* If the calls one level down do so, this one does. *)
LEMMA BuildStep ==
  ASSUME NEW n \in Nat, NEW build, NEW limit \in Nat, NEW used \in Nat, NEW tree \in TreesTo[n + 1],
         used + Sizes[n + 1][tree] <= limit,
         \A t \in TreesTo[n] : \A u \in Nat :
           u + Sizes[n][t] <= limit => Builds(build[t][u], t, u, Sizes[n][t])
  PROVE  Builds(BuildValue(build, tree, limit, used), tree, used, Sizes[n + 1][tree])
<1>1. PICK size : size = Sizes[n + 1][tree]
  OBVIOUS
<1>2. TreeSized(n) /\ Item \in Nat
  BY TreeSizes, ItemIsNatural, Zenon
<1>3. CASE \E token \in Scalars : tree = <<"scalar", token>>
  <2>1. PICK token \in Scalars : tree = <<"scalar", token>>
    BY <1>3
  <2>2. size = Item
    BY <1>1, <1>2, <2>1, Zenon DEF TreeSized
  <2> QED
    BY <1>1, <2>1, <2>2, BuildsScalar DEF Builds
<1>4. CASE \E text \in Strings : tree = <<"string", text>>
  <2>1. PICK text \in Strings : tree = <<"string", text>>
    BY <1>4
  <2>2. PICK copy : copy = Kept(text)
    OBVIOUS
  <2>3. size = Item + copy
    BY <1>1, <1>2, <2>1, <2>2, Zenon DEF TreeSized
  <2>4. copy \in Nat
    BY <2>2, KeptIsNatural DEF Strings
  <2>5. used + Item <= limit /\ (used + Item) + copy <= limit /\ used + size = (used + Item) + copy
    BY <1>1, <1>2, <2>3, <2>4
  <2>6. used + Item <= limit /\ (used + Item) + Kept(text) <= limit
    BY <2>2, <2>5, Zenon
  <2>7. BuildValue(build, <<"string", text>>, limit, used) =
          Left(0, (used + Item) + Kept(text), <<"string", text>>)
    BY <2>6, BuildsString
  <2> QED
    BY <1>1, <2>1, <2>2, <2>5, <2>7, Zenon DEF Builds
<1>5. CASE \E trees \in Seq(TreesTo[n]) : tree = <<"array", trees>>
  <2>1. PICK trees \in Seq(TreesTo[n]) : tree = <<"array", trees>>
    BY <1>5
  <2>2. PICK numbers : numbers = [k \in DOMAIN trees |-> Sizes[n][trees[k]]]
    OBVIOUS
  <2>3. numbers \in Seq(Nat) /\ Len(numbers) = Len(trees)
    <3>1. \A k \in DOMAIN trees : Sizes[n][trees[k]] \in Nat
      <4>1. \A t \in TreesTo[n] : Sizes[n][t] \in Nat
        BY SizesAreNumbers, Zenon
      <4> QED
        BY <4>1
    <3> QED
      BY <2>2, <3>1
  <2>4. size = Item + Total(numbers)
    BY <1>1, <1>2, <2>1, <2>2, Zenon DEF TreeSized, Held, SumOf
  <2>5. PICK now, total : now = used + Item /\ total = Total(numbers)
    OBVIOUS
  <2>6. now \in Nat /\ now <= limit /\ now + total <= limit /\ used + size = now + total
    <3>1. total \in Nat
      BY <2>3, <2>5, TotalIsNatural, Zenon
    <3> QED
      BY <1>1, <1>2, <2>4, <2>5, <3>1
  <2>7. ASSUME NEW k \in 1..Len(trees), NEW u \in Nat, NEW front \in Seq(TreesTo[n]),
               u + numbers[k] <= limit
        PROVE  JoinsThem(build, "array", trees, limit, k, u, front, u + numbers[k])
    <3>1. k \in DOMAIN trees /\ trees[k] \in TreesTo[n]
      OBVIOUS
    <3>2. numbers[k] = Sizes[n][trees[k]]
      BY <2>2, <3>1
    <3>3. build[trees[k]][u] = Left(0, u + numbers[k], trees[k])
      BY <2>7, <3>1, <3>2, Zenon DEF Builds
    <3>4. trees[k] # NoTree
      BY <3>1, TreesAreThere, Zenon
    <3> QED
      BY <3>3, <3>4, ElementAdded, Zenon
  <2>8. Builds(AddChildren(build, <<"array", trees>>, limit, Left(0, now, <<"array", <<>>>>)),
               <<"array", trees>>, now, Total(numbers))
    BY <2>3, <2>5, <2>6, <2>7, ChildrenAdded, Zenon
  <2>9. "array" \in {"array", "object"}
    OBVIOUS
  <2>10. BuildValue(build, <<"array", trees>>, limit, used) =
           AddChildren(build, <<"array", trees>>, limit, Left(0, now, <<"array", <<>>>>))
    BY <2>5, <2>6, <2>9, BuildsList, Zenon
  <2> QED
    BY <1>1, <2>1, <2>5, <2>6, <2>8, <2>10, Zenon DEF Builds
<1>6. CASE \E members \in Seq(Strings \X TreesTo[n]) : tree = <<"object", members>>
  <2>1. PICK members \in Seq(Strings \X TreesTo[n]) : tree = <<"object", members>>
    BY <1>6
  <2>2. PICK S, f, numbers : /\ S = Strings \X TreesTo[n] /\ f = KeySizes(n)
                             /\ numbers = [k \in DOMAIN members |-> f[members[k]]]
    OBVIOUS
  <2>3. members \in Seq(S) /\ numbers \in Seq(Nat) /\ Len(numbers) = Len(members)
    <3>1. \A a \in S : f[a] \in Nat
      BY <2>2, SizesAreNumbers, KeySizesAreNumbers, Zenon
    <3>2. members \in Seq(S)
      BY <2>2, Zenon
    <3> QED
      BY <2>2, <3>1, <3>2
  <2>4. size = Item + Total(numbers)
    BY <1>1, <1>2, <2>1, <2>2, Zenon DEF TreeSized, HeldKeyed, SumOf
  <2>5. PICK now, total : now = used + Item /\ total = Total(numbers)
    OBVIOUS
  <2>6. now \in Nat /\ now <= limit /\ now + total <= limit /\ used + size = now + total
    <3>1. total \in Nat
      BY <2>3, <2>5, TotalIsNatural, Zenon
    <3> QED
      BY <1>1, <1>2, <2>4, <2>5, <3>1
  <2>7. ASSUME NEW k \in 1..Len(members), NEW u \in Nat, NEW front \in Seq(S),
               u + numbers[k] <= limit
        PROVE  JoinsThem(build, "object", members, limit, k, u, front, u + numbers[k])
    <3>1. k \in DOMAIN members /\ members[k] \in S
      BY <2>3
    <3>2. PICK key, value : /\ key \in Strings /\ value \in TreesTo[n]
                            /\ members[k] = <<key, value>>
      BY <2>2, <3>1
    <3>3. PICK copy, more : copy = Kept(key) /\ more = Sizes[n][value]
      OBVIOUS
    <3>4. numbers[k] = copy + more
      <4>1. numbers[k] = KeySizes(n)[members[k]]
        BY <2>2, <3>1
      <4>2. KeySizes(n)[<<key, value>>] = Kept(key) + Sizes[n][value]
        BY <3>2 DEF KeySizes
      <4> QED
        BY <3>2, <3>3, <4>1, <4>2, Zenon
    <3>5. copy \in Nat /\ more \in Nat
      <4>1. copy \in Nat
        BY <3>2, <3>3, KeptIsNatural DEF Strings
      <4>2. more \in Nat
        BY <3>2, <3>3, SizesAreNumbers, Zenon
      <4> QED
        BY <4>1, <4>2
    <3>6. u + more <= limit /\ (u + more) + copy <= limit /\ u + numbers[k] = (u + more) + copy
      <4>1. u + (copy + more) <= limit
        BY <2>7, <3>4, Zenon
      <4>2. u + more <= limit /\ (u + more) + copy <= limit /\ u + (copy + more) = (u + more) + copy
        BY <3>5, <4>1
      <4> QED
        BY <3>4, <4>2, Zenon
    <3>7. build[value][u] = Left(0, u + more, value)
      BY <3>2, <3>3, <3>6, Zenon DEF Builds
    <3>8. value # NoTree
      BY <3>2, TreesAreThere, Zenon
    <3> QED
      BY <3>2, <3>3, <3>6, <3>7, <3>8, MemberAdded, Zenon
  <2>8. Builds(AddChildren(build, <<"object", members>>, limit, Left(0, now, <<"object", <<>>>>)),
               <<"object", members>>, now, Total(numbers))
    BY <2>3, <2>5, <2>6, <2>7, ChildrenAdded, Zenon
  <2>9. "object" \in {"array", "object"}
    OBVIOUS
  <2>10. BuildValue(build, <<"object", members>>, limit, used) =
           AddChildren(build, <<"object", members>>, limit, Left(0, now, <<"object", <<>>>>))
    BY <2>5, <2>6, <2>9, BuildsList, Zenon
  <2> QED
    BY <1>1, <2>1, <2>5, <2>6, <2>8, <2>10, Zenon DEF Builds
<1> QED
  BY <1>3, <1>4, <1>5, <1>6, TreeForms, Zenon

Assemblies == INSTANCE Recursion WITH Base <- [limit \in Nat |-> <<>>],
  Step <- LAMBDA n, shallower : [limit \in Nat |-> [tree \in TreesTo[n] |-> [used \in Nat |->
            BuildValue(shallower[limit], tree, limit, used)]]]

(* The calls that build a tree, and its children before them. *)
LEMMA BuildersUnroll ==
  \A n \in Nat : Builders[n + 1] =
    [limit \in Nat |-> [tree \in TreesTo[n + 1] |-> [used \in Nat |->
       BuildValue(Builders[n][limit], tree, limit, used)]]]
BY Assemblies!Unrolls DEF Builders, Assemblies!f

(* One of them. *)
LEMMA BuilderCalls ==
  ASSUME NEW n \in Nat, NEW limit \in Nat, NEW tree \in TreesTo[n + 1], NEW used \in Nat
  PROVE  Builders[n + 1][limit][tree][used] = BuildValue(Builders[n][limit], tree, limit, used)
<1> DEFINE P(size, t, u) == BuildValue(Builders[n][size], t, size, u)
<1>1. PICK trees : trees = TreesTo[n + 1]
  OBVIOUS
<1>2. Builders[n + 1] = [size \in Nat |-> [t \in trees |-> [u \in Nat |-> P(size, t, u)]]]
  BY <1>1, BuildersUnroll, Zenon
<1> HIDE DEF P
<1>3. Builders[n + 1][limit][tree][used] = P(limit, tree, used)
  BY <1>1, <1>2
<1> QED
  BY <1>3 DEF P

(* Together they build every tree there is room for, field by field. *)
LEMMA BuilderBuilds ==
  ASSUME NEW limit \in Nat
  PROVE  \A n \in Nat : \A tree \in TreesTo[n] : \A used \in Nat :
           used + Sizes[n][tree] <= limit =>
             Builds(Builders[n][limit][tree][used], tree, used, Sizes[n][tree])
<1> DEFINE So(n) == \A tree \in TreesTo[n] : \A used \in Nat :
                      used + Sizes[n][tree] <= limit =>
                        Builds(Builders[n][limit][tree][used], tree, used, Sizes[n][tree])
           S == {n \in Nat : So(n)}
<1>1. 0 \in S
  BY TreesUnroll
<1>2. ASSUME NEW n \in Nat, n \in S PROVE n + 1 \in S
  <2>1. ASSUME NEW tree \in TreesTo[n + 1], NEW used \in Nat, used + Sizes[n + 1][tree] <= limit
        PROVE  Builds(Builders[n + 1][limit][tree][used], tree, used, Sizes[n + 1][tree])
    <3>1. PICK build : build = Builders[n][limit]
      OBVIOUS
    <3>2. Builds(BuildValue(build, tree, limit, used), tree, used, Sizes[n + 1][tree])
      BY <1>2, <2>1, <3>1, BuildStep, Zenon
    <3>3. Builders[n + 1][limit][tree][used] = BuildValue(build, tree, limit, used)
      BY <3>1, BuilderCalls, Zenon
    <3> QED
      BY <3>2, <3>3, Zenon
  <2>2. So(n + 1)
    BY <2>1
  <2> HIDE DEF So
  <2> QED
    BY <2>2
<1>3. Nat \subseteq S
  <2> HIDE DEF S
  <2> QED
    BY <1>1, <1>2, Sums!NaturalInduction
<1> QED
  BY <1>3, Zenon
-----------------------------------------------------------------------------
(* In an arena that holds a tree, cJSON builds all of it, and of the tree  *)
(* it prints the whole text, the same but for its colons, or nothing:      *)
(* cJSON_Create, cJSON_AddItem and cJSON_PrintUnformatted for every tree,  *)
(* in every arena and behind whatever was used of it.                      *)
THEOREM TreeIsPrinted ==
  ASSUME NEW tree \in TreesTo[Nested], NEW limit \in Nat, NEW used \in Nat,
         used + Needs(tree) <= limit
  PROVE  /\ Build(tree, limit, used) = Left(0, used + Needs(tree), tree)
         /\ LET text == PrintValue(tree, limit, used + Needs(tree)).text
            IN  text = NoText \/ (text \in AnyText /\ NoColons(text) = NoColons(Render(tree)))
<1>1. Nested \in Nat
  BY JsonAssumption
<1>2. PICK size, now : size = Needs(tree) /\ now = used + size
  OBVIOUS
<1>3. size = Sizes[Nested][tree] /\ now \in Nat
  <2>1. size = Sizes[Nested][tree]
    BY <1>2, Zenon DEF Needs
  <2>2. size \in Nat
    BY <1>1, <2>1, SizesAreNumbers, Zenon
  <2> QED
    BY <1>2, <2>1, <2>2
<1>4. Builds(Build(tree, limit, used), tree, used, size)
  BY <1>1, <1>2, <1>3, BuilderBuilds, Zenon DEF Build
<1>5. PICK out : out = PrintValue(tree, limit, now)
  OBVIOUS
<1>6. Prints(out, Render(tree))
  BY <1>1, <1>3, <1>5, PrinterPrints, Zenon DEF PrintValue, Render
<1>7. out.text = NoText \/ (out.text \in AnyText /\ NoColons(out.text) = NoColons(Render(tree)))
  BY <1>6, Zenon DEF Prints, Printing, Same
<1> QED
  BY <1>2, <1>4, <1>5, <1>7, Zenon DEF Builds

(* So with the record of protocol_send_telemetry. *)
LEMMA RecordIsPrinted ==
  ASSUME NEW r \in Readings, NEW size \in Nat, Needs(Telemetry(r)) <= size
  PROVE  Printout(r, size) = NoText \/ NoColons(Printout(r, size)) = NoColons(Render(Telemetry(r)))
<1>1. PICK tree, need : tree = Telemetry(r) /\ need = Needs(tree)
  OBVIOUS
<1>2. tree \in TreesTo[Nested] /\ Nested \in Nat
  BY <1>1, LinkAssumption, JsonAssumption, Zenon
<1>3. need \in Nat
  BY <1>1, <1>2, SizesAreNumbers, Zenon DEF Needs
<1>4. 0 + need <= size /\ 0 + need = need /\ 0 \in Nat
  BY <1>1, <1>3
<1>5. PICK built, text : /\ built = Build(tree, size, 0)
                         /\ text = PrintValue(tree, size, need).text
  OBVIOUS
<1>6. built = Left(0, need, tree) /\ (text = NoText \/ NoColons(text) = NoColons(Render(tree)))
  <2>1. 0 + Needs(tree) <= size
    BY <1>1, <1>4, Zenon
  <2>2. /\ Build(tree, size, 0) = Left(0, 0 + Needs(tree), tree)
        /\ LET t == PrintValue(tree, size, 0 + Needs(tree)).text
           IN  t = NoText \/ (t \in AnyText /\ NoColons(t) = NoColons(Render(tree)))
    BY <1>2, <1>4, <2>1, TreeIsPrinted, Zenon
  <2> QED
    BY <1>1, <1>4, <1>5, <2>2, Zenon
<1>7. built.tree = tree /\ built.used = need /\ tree # NoTree
  <2>1. tree # NoTree
    BY <1>2, TreesAreThere, Zenon
  <2> QED
    BY <1>6, <2>1 DEF Left
<1>8. Printout(r, size) = text
  BY <1>1, <1>5, <1>7, Zenon DEF Printout
<1> QED
  BY <1>1, <1>6, <1>8, Zenon

(* A line leaves no record, and a record is printed whole. *)
LEMMA RecordStep ==
  ASSUME pool \in Pools, TelemetryWhole, [LinkNext]_linkVars
  PROVE  pool' \in Pools /\ TelemetryWhole'
<1>1. \A r \in Readings : /\ RecordTexts[r] = NoColons(Render(Telemetry(r)))
                          /\ RecordNeeds[r] = Needs(Telemetry(r))
  BY DEF RecordTexts, RecordNeeds
<1>2. RecordTexts' = RecordTexts /\ RecordNeeds' = RecordNeeds
  BY DEF RecordTexts, RecordNeeds, Render, Needs, NoColons, Telemetry
<1>3. CASE UNCHANGED linkVars
  <2>1. UNCHANGED <<pool, record, sent>>
    BY <1>3 DEF linkVars
  <2> QED
    BY <1>2, <2>1 DEF TelemetryWhole, NoColons, Telemetry
<1>4. ASSUME NEW text \in Lines, Receive(text) PROVE pool' \in Pools /\ TelemetryWhole'
  <2>1. record' = NoTree /\ pool' = pool
    BY <1>4, Zenon DEF Receive
  <2>2. \A r \in Readings : Telemetry(r) # NoTree
    BY LinkAssumption, JsonAssumption, TreesAreThere, Zenon
  <2> QED
    BY <2>1, <2>2, Zenon DEF TelemetryWhole
<1>5. ASSUME NEW now \in Readings, SendTelemetry(now) PROVE pool' \in Pools /\ TelemetryWhole'
  <2>1. record' = Telemetry(now) /\ sent' = Printouts[now][pool] /\ pool' = pool
    BY <1>5, Zenon DEF SendTelemetry
  <2>2. sent' = Printout(now, pool) /\ pool \in Nat
    BY <2>1, LinkAssumption DEF Printouts
  <2>3. ASSUME NEW r \in Readings, record' = Telemetry(r), sent' # NoText, RecordNeeds[r] <= pool
        PROVE  NoColons(sent') = RecordTexts[r]
    <3>1. Telemetry(now) = Telemetry(r)
      BY <2>1, <2>3
    <3>2. Needs(Telemetry(now)) <= pool
      BY <1>1, <2>3, <3>1, Zenon
    <3>3. NoColons(sent') = NoColons(Render(Telemetry(now)))
      BY <2>2, <2>3, <3>2, RecordIsPrinted, Zenon
    <3> QED
      BY <1>1, <3>1, <3>3, Zenon
  <2> QED
    BY <1>2, <2>1, <2>3, Zenon DEF TelemetryWhole
<1> QED
  BY <1>3, <1>4, <1>5 DEF LinkNext

(* A record whose tree the arena holds is printed field for field or not   *)
(* at all, whatever lines and records came before (TelemetryWhole): for    *)
(* every set of readings and size of the arena.                            *)
THEOREM RecordsArePrintedWhole == LinkSpec => []TelemetryWhole
<1>1. LinkInit => pool \in Pools /\ TelemetryWhole
  <2> SUFFICES ASSUME LinkInit PROVE pool \in Pools /\ TelemetryWhole
    OBVIOUS
  <2>1. pool \in Pools /\ record = NoTree
    BY DEF LinkInit
  <2>2. \A r \in Readings : Telemetry(r) # NoTree
    BY LinkAssumption, JsonAssumption, TreesAreThere, Zenon
  <2> QED
    BY <2>1, <2>2, Zenon DEF TelemetryWhole
<1>2. pool \in Pools /\ TelemetryWhole /\ [LinkNext]_linkVars => (pool \in Pools /\ TelemetryWhole)'
  BY RecordStep
<1> QED
  BY <1>1, <1>2, PTL DEF LinkSpec
=============================================================================
