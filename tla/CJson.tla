-------------------------------- MODULE CJson --------------------------------
(***************************************************************************)
(* Drivers/cjson/cJSON.c on the arena of Drivers/protocol.c.  The file is  *)
(* a rewrite of the library, so it is modelled as it stands.               *)
(*                                                                         *)
(* A text is a sequence of tokens: the punctuation of JSON, "Q" for a      *)
(* double quote, "NUL", a whole number or literal (Scalars), or a piece of *)
(* a string.  Texts carry no white space and no escapes.  The arena gives  *)
(* out memory from used upwards and takes none back, so an operation is a  *)
(* function from what is used to a result and what is used then.           *)
(*                                                                         *)
(* The recursion of the code is a function of how many calls may still be  *)
(* nested; Nested is more than any text or tree here needs.                *)
(***************************************************************************)
EXTENDS Integers, Sequences

CONSTANTS
  Tokens,    (* Marks, Scalars and the pieces strings and headers are made of *)
  Scalars,   (* the tokens that are a number, true, false or null *)
  Widths,    (* characters of the tokens that have more than one *)
  Nested     (* how deep the calls may nest *)

Marks == {"{", "}", "[", "]", ",", ":", "Q", "NUL"}
Strings == Seq(Tokens \ {"Q", "NUL"})

ASSUME JsonAssumption ==
  /\ Marks \union Scalars \subseteq Tokens
  /\ Marks \intersect Scalars = {} /\ Marks \intersect DOMAIN Widths = {}
  /\ \A token \in DOMAIN Widths : Widths[token] \in Nat \ {0}
  /\ Nested \in Nat

NoText == <<"NUL">>          (* NULL for a string *)
NoTree == <<"none">>         (* NULL for a tree *)
Null == 0                    (* NULL for a position *)

(* A tree is <<"scalar", token>>, <<"string", text>>, <<"array", trees>>   *)
(* or <<"object", members>>, a member being <<key, tree>>.                 *)
TreesOver(texts, children) ==
  ({"scalar"} \X Scalars) \union ({"string"} \X texts)
    \union ({"array"} \X Seq(children)) \union ({"object"} \X Seq(texts \X children))

(* Those that nest less than n deep, as a text gives them and as the       *)
(* builders leave them.                                                    *)
TreesTo[n \in Nat] == IF n = 0 THEN {} ELSE TreesOver(Strings, TreesTo[n - 1])
MadeTo[n \in Nat] ==
  IF n = 0 THEN {} ELSE TreesOver(Strings \union {NoText}, MadeTo[n - 1])

Width(token) == IF token \in DOMAIN Widths THEN Widths[token] ELSE 1

(* The sum of the first n of a sequence of numbers. *)
Totals[n \in Nat] ==
  IF n = 0 THEN [numbers \in Seq(Nat) |-> 0]
  ELSE [numbers \in Seq(Nat) |-> Totals[n - 1][numbers] + numbers[n]]
Total(numbers) == Totals[Len(numbers)][numbers]
Size(text) == Total([k \in DOMAIN text |-> Width(text[k])])

(* cjson_arena_alloc rounds up to eight bytes. *)
Aligned(n) == ((n + 7) \div 8) * 8
Item == Aligned(40)   (* sizeof(cJSON) on RV32 *)
Kept(text) == Aligned(Size(text) + 1)
-----------------------------------------------------------------------------
At(buf, p) == IF p \in DOMAIN buf THEN buf[p] ELSE "NUL"

(* What a parser leaves: where it stopped, what is used, what it made. *)
Left(p, used, tree) == [p |-> p, used |-> used, tree |-> tree]
Refused(used) == Left(Null, used, NoTree)

(* parse_string ends at a quote or at the end of the text, and steps over  *)
(* either.  Without memory it moves nothing.                               *)
StringEnd(buf, p) ==
  CHOOSE q \in p + 1..Len(buf) + 1 :
    /\ At(buf, q) \in {"Q", "NUL"}
    /\ \A r \in p + 1..q - 1 : At(buf, r) \notin {"Q", "NUL"}

ParseString(buf, limit, p, used) ==
  LET end == StringEnd(buf, p)
      text == SubSeq(buf, p + 1, end - 1)
  IN  IF used + Kept(text) > limit THEN Left(p, used, NoTree)
      ELSE Left(end + 1, used + Kept(text), <<"string", text>>)

(* A child and those behind it in its list. *)
Joined(child, rest) ==
  IF rest.tree = NoTree THEN rest
  ELSE Left(rest.p, rest.used, <<rest.tree[1], <<child>> \o rest.tree[2]>>)

(* The loop of parse_array, from the first character of an element on. *)
ParseElements(parse, buf, limit, p, used) ==
  LET element == parse["value"][p][used + Item]
      rest == parse["elements"][element.p + 1][element.used]
  IN  IF used + Item > limit \/ element.p = Null THEN Refused(used)
      ELSE CASE At(buf, element.p) = "," -> Joined(element.tree, rest)
             [] At(buf, element.p) = "]" ->
                  Left(element.p + 1, element.used, <<"array", <<element.tree>>>>)
             [] OTHER -> Refused(element.used)

(* The loop of parse_object, from the first character of a key on. *)
ParseMembers(parse, buf, limit, p, used) ==
  LET key == ParseString(buf, limit, p, used + Item)
      value == parse["value"][key.p + 1][key.used]
      member == <<key.tree[2], value.tree>>
      rest == parse["members"][value.p + 1][value.used]
  IN  IF \/ used + Item > limit \/ At(buf, p) # "Q" \/ key.tree = NoTree
         \/ At(buf, key.p) # ":" \/ value.p = Null
      THEN Refused(used)
      ELSE CASE At(buf, value.p) = "," -> Joined(member, rest)
             [] At(buf, value.p) = "}" ->
                  Left(value.p + 1, value.used, <<"object", <<member>>>>)
             [] OTHER -> Refused(value.used)

ParseValue(parse, buf, limit, p, used) ==
  CASE At(buf, p) = "Q" -> ParseString(buf, limit, p, used)
    [] At(buf, p) = "{" /\ At(buf, p + 1) = "}" -> Left(p + 2, used, <<"object", <<>>>>)
    [] At(buf, p) = "{" /\ At(buf, p + 1) # "}" -> parse["members"][p + 1][used]
    [] At(buf, p) = "[" /\ At(buf, p + 1) = "]" -> Left(p + 2, used, <<"array", <<>>>>)
    [] At(buf, p) = "[" /\ At(buf, p + 1) # "]" -> parse["elements"][p + 1][used]
    [] At(buf, p) \in Scalars -> Left(p + 1, used, <<"scalar", At(buf, p)>>)
    [] OTHER -> Refused(used)

(* The three together, when n calls may still be nested. *)
Deeper(parse, buf, limit) ==
  [what \in {"value", "elements", "members"} |-> [p \in Nat |-> [used \in Nat |->
     CASE what = "value"    -> ParseValue(parse, buf, limit, p, used)
       [] what = "elements" -> ParseElements(parse, buf, limit, p, used)
       [] what = "members"  -> ParseMembers(parse, buf, limit, p, used)]]]

Shallowest ==
  [what \in {"value", "elements", "members"} |-> [p \in Nat |-> [used \in Nat |-> Refused(used)]]]

Parsers[n \in Nat] ==
  IF n = 0 THEN [buf \in Seq(Tokens) |-> [limit \in Nat |-> Shallowest]]
  ELSE [buf \in Seq(Tokens) |-> [limit \in Nat |-> Deeper(Parsers[n - 1][buf][limit], buf, limit)]]

(* Mutant: what follows the value is not looked at. *)
ParseUnended(buf, limit, p, used) ==
  LET value == Parsers[Nested][buf][limit]["value"][p][used + Item]
  IN  IF used + Item > limit \/ value.p = Null THEN Refused(value.used) ELSE value

(* cJSON_Parse: the tree, or NoTree when the text is not one value. *)
Parse(buf, limit, p, used) ==
  LET value == Parsers[Nested][buf][limit]["value"][p][used + Item]
  IN  IF used + Item > limit \/ value.p = Null \/ At(buf, value.p) # "NUL"
      THEN Refused(value.used)
      ELSE value
-----------------------------------------------------------------------------
(* cJSON_AddItemToArray and cJSON_AddItemToObject: nothing is added to     *)
(* NULL nor is NULL added; a key is copied last.                           *)
AddChild(build, tree, limit, k, before) ==
  LET keyed == tree[1] = "object"
      child == build[IF keyed THEN tree[2][k][2] ELSE tree[2][k]][before.used]
      joins == before.tree # NoTree /\ child.tree # NoTree
      need == child.used + Kept(tree[2][k][1])
      named == joins /\ keyed /\ need <= limit
      new == IF keyed THEN <<IF named THEN tree[2][k][1] ELSE NoText, child.tree>> ELSE child.tree
  IN  Left(0, IF named THEN need ELSE child.used,
           IF joins THEN <<tree[1], Append(before.tree[2], new)>> ELSE before.tree)

(* Child after child. *)
AddChildren(build, tree, limit, open) ==
  LET added[k \in 0..Len(tree[2])] ==
        IF k = 0 THEN open ELSE AddChild(build, tree, limit, k, added[k - 1])
  IN  added[Len(tree[2])]

(* The cJSON_Create functions: a node without memory is NULL, a string     *)
(* without memory has a NULL value.                                        *)
BuildValue(build, tree, limit, used) ==
  LET have == used + Item <= limit
      after == IF have THEN used + Item ELSE used
  IN  CASE tree[1] = "scalar" -> Left(0, after, IF have THEN tree ELSE NoTree)
        [] tree[1] = "string" ->
             IF have /\ after + Kept(tree[2]) <= limit THEN Left(0, after + Kept(tree[2]), tree)
             ELSE Left(0, after, IF have THEN <<"string", NoText>> ELSE NoTree)
        [] OTHER -> AddChildren(build, tree, limit,
                                Left(0, after, IF have THEN <<tree[1], <<>>>> ELSE NoTree))

Builders[n \in Nat] ==
  IF n = 0 THEN [limit \in Nat |-> <<>>]
  ELSE [limit \in Nat |-> [tree \in TreesTo[n] |-> [used \in Nat |->
          BuildValue(Builders[n - 1][limit], tree, limit, used)]]]

Build(tree, limit, used) == Builders[Nested][limit][tree][used]
-----------------------------------------------------------------------------
(* What a printer leaves: its text, NoText when the memory ran out. *)
Printed(text, used) == [text |-> text, used |-> used]

Copied(text, n, limit, used) ==
  IF used + Aligned(n) > limit THEN Printed(NoText, used) ELSE Printed(text, used + Aligned(n))

(* snprintf into n bytes: the character that has no room beside the NUL is *)
(* cut; every text here is at most one too long.                           *)
Printf(text, n) == IF Size(text) < n THEN text ELSE SubSeq(text, 1, Len(text) - 1)

PrintString(text, limit, used) ==
  IF text = NoText THEN Copied(<<"Q", "Q">>, 3, limit, used)
  ELSE Copied(<<"Q">> \o text \o <<"Q">>, Size(text) + 3, limit, used)

(* Mutant: off by one, a comma before the first. *)
CommaAlways(out) == IF Len(out) > 0 THEN <<",">> ELSE <<>>

Comma(out) == IF Len(out) > 1 THEN <<",">> ELSE <<>>

(* An element of an array, behind the text so far. *)
PrintElement(print, elements, limit, k, out) ==
  LET tmp == print[elements[k]][out.used]
      room == Size(out.text) + Size(tmp.text) + 2
  IN  IF out.text = NoText THEN out
      ELSE IF tmp.text = NoText THEN tmp
      ELSE Copied(Printf(out.text \o Comma(out.text) \o tmp.text, room), room, limit, tmp.used)

(* A member of an object.  The room for a name is that of a first member:  *)
(* behind a comma the colon is cut.                                        *)
PrintMember(print, members, limit, k, out) ==
  LET key == PrintString(members[k][1], limit, out.used)
      room == Size(out.text) + Size(key.text) + 2
      named == Copied(Printf(out.text \o Comma(out.text) \o key.text \o <<":">>, room),
                      room, limit, key.used)
      tmp == print[members[k][2]][named.used]
  IN  IF out.text = NoText \/ members[k][1] = NoText THEN out
      ELSE IF key.text = NoText THEN key
      ELSE IF named.text = NoText THEN named
      ELSE IF tmp.text = NoText THEN tmp
      ELSE Copied(named.text \o tmp.text, Size(named.text) + Size(tmp.text) + 1, limit, tmp.used)

(* The loops over an array and over an object: the text after each child. *)
PrintList(print, tree, limit, open) ==
  LET printed[k \in 0..Len(tree[2])] ==
        IF k = 0 THEN open
        ELSE IF tree[1] = "array" THEN PrintElement(print, tree[2], limit, k, printed[k - 1])
        ELSE PrintMember(print, tree[2], limit, k, printed[k - 1])
  IN  printed[Len(tree[2])]

(* The bracket that closes a list. *)
Closing(mark, out, limit) ==
  IF out.text = NoText THEN out
  ELSE Copied(Append(out.text, mark), Size(out.text) + 2, limit, out.used)

(* print_value, which is cJSON_PrintUnformatted. *)
PrintTree(print, tree, limit, used) ==
  CASE tree[1] = "scalar" -> Copied(<<tree[2]>>, Width(tree[2]) + 1, limit, used)
    [] tree[1] = "string" -> PrintString(tree[2], limit, used)
    [] tree[1] = "array"  ->
         Closing("]", PrintList(print, tree, limit, Copied(<<"[">>, 2, limit, used)), limit)
    [] tree[1] = "object" ->
         Closing("}", PrintList(print, tree, limit, Copied(<<"{">>, 2, limit, used)), limit)

Printers[n \in Nat] ==
  IF n = 0 THEN [limit \in Nat |-> <<>>]
  ELSE [limit \in Nat |-> [tree \in MadeTo[n] |-> [used \in Nat |->
          PrintTree(Printers[n - 1][limit], tree, limit, used)]]]

PrintValue(tree, limit, used) == Printers[Nested][limit][tree][used]
-----------------------------------------------------------------------------
(* The text JSON gives a tree, and the memory the tree takes: no code, but *)
(* what the parser and the printer are held against.                       *)

(* The last n of a sequence of texts with commas between. *)
Lists[n \in Nat] ==
  IF n = 0 THEN [texts \in Seq(Seq(Tokens)) |-> <<>>]
  ELSE [texts \in Seq(Seq(Tokens)) |->
          texts[Len(texts) + 1 - n]
            \o (IF n = 1 THEN <<>> ELSE <<",">> \o Lists[n - 1][texts])]
Listed(texts) == Lists[Len(texts)][texts]

Named(key, text) == <<"Q">> \o key \o <<"Q", ":">> \o text

Text(render, tree) ==
  CASE tree[1] = "scalar" -> <<tree[2]>>
    [] tree[1] = "string" -> <<"Q">> \o tree[2] \o <<"Q">>
    [] tree[1] = "array"  ->
         <<"[">> \o Listed([k \in DOMAIN tree[2] |-> render[tree[2][k]]]) \o <<"]">>
    [] tree[1] = "object" ->
         <<"{">> \o Listed([k \in DOMAIN tree[2] |->
                             Named(tree[2][k][1], render[tree[2][k][2]])]) \o <<"}">>

Renderings[n \in Nat] ==
  IF n = 0 THEN <<>> ELSE [tree \in TreesTo[n] |-> Text(Renderings[n - 1], tree)]

Render(tree) == Renderings[Nested][tree]

Memory(sizes, tree) ==
  CASE tree[1] = "scalar" -> Item
    [] tree[1] = "string" -> Item + Kept(tree[2])
    [] tree[1] = "array"  -> Item + Total([k \in DOMAIN tree[2] |-> sizes[tree[2][k]]])
    [] tree[1] = "object" ->
         Item + Total([k \in DOMAIN tree[2] |-> Kept(tree[2][k][1]) + sizes[tree[2][k][2]]])

Sizes[n \in Nat] ==
  IF n = 0 THEN <<>> ELSE [tree \in TreesTo[n] |-> Memory(Sizes[n - 1], tree)]

Needs(tree) == Sizes[Nested][tree]
=============================================================================
