------------------------------ MODULE JsonLink ------------------------------
(***************************************************************************)
(* What Drivers/protocol.c does with a line and with a record: line_buf is *)
(* filled over what an earlier line left there, protocol_parse_frame and   *)
(* protocol_process_command take the frame apart and hand the body to      *)
(* cJSON, and protocol_send_telemetry builds and prints a record in the    *)
(* same arena.  Everything runs in main, so an operation is one step.      *)
(* How bytes reach line_buf is LinePoll, what a command does LoadControl.  *)
(***************************************************************************)
EXTENDS CJson, FiniteSets

CONSTANTS
  Lines,     (* the lines that arrive *)
  Trees,     (* the bodies a host sends *)
  Readings,  (* what the record is filled with: a token for each quantity *)
  Pools,     (* CJSON_POOL_SIZE, 4096, and other sizes *)
  BufLen     (* tokens line_buf has room for *)

(* The record of protocol_send_telemetry. *)
Telemetry(r) ==
  LET Mos == <<"object", << <<<<"v">>, <<"scalar", r.v>>>>, <<<<"i">>, <<"scalar", r.i>>>> >>>>
      Sum == <<"object", << <<<<"v">>, <<"scalar", r.v>>>>, <<<<"i">>, <<"scalar", r.i>>>>,
                            <<<<"p">>, <<"scalar", r.p>>>> >>>>
  IN  <<"object",
        << <<<<"seq">>, <<"scalar", r.seq>>>>,
           <<<<"uptime">>, <<"scalar", r.uptime>>>>,
           <<<<"mode">>, <<"string", <<r.mode>>>>>>,
           <<<<"fault">>, <<"scalar", r.fault>>>>,
           <<<<"dac">>, <<"scalar", r.dac>>>>,
           <<<<"retry">>, <<"scalar", r.retry>>>>,
           <<<<"temp">>, <<"scalar", r.temp>>>>,
           <<<<"fan_rpm">>, <<"scalar", r.fan_rpm>>>>,
           <<<<"fan_stall">>, <<"scalar", r.fan_stall>>>>,
           <<<<"ch">>, <<"array", <<Mos, Mos, Mos, Mos>>>>>>,
           <<<<"sum">>, Sum>> >>>>

ASSUME LinkAssumption ==
  /\ BufLen \in Nat /\ Nested >= BufLen
  /\ \A text \in Lines : text \in Seq(Tokens \ {"NUL"}) /\ text # <<>> /\ Len(text) < BufLen
  /\ Trees \subseteq TreesTo[Nested]
  /\ \A r \in Readings : Telemetry(r) \in TreesTo[Nested]
  /\ Pools \subseteq Nat

VARIABLES
  pool,             (* constant: CJSON_POOL_SIZE *)
  cjson_pool_used,
  line_buf,
  line,             (* history: the line of the last step, if it had one *)
  outcome,          (* what became of it *)
  root,             (* the tree made of it *)
  record,           (* history: the record of the last step, if it had one *)
  sent              (* the text telemetry printed, NoText if none *)

linkVars == <<pool, cjson_pool_used, line_buf, line, outcome, root, record, sent>>

LinkInit ==
  /\ pool \in Pools
  /\ cjson_pool_used = 0
  /\ line_buf = [p \in 1..BufLen |-> "NUL"]
  /\ line = <<>>
  /\ outcome = "none"
  /\ root = NoTree
  /\ record = NoTree
  /\ sent = NoText
-----------------------------------------------------------------------------
(* A definition marked "Mutant" is a mistake one could make in the one     *)
(* after it; no specification uses it.                                     *)

(* protocol_poll stores the line and a NUL; the rest of line_buf stays.    *)
Store(text) == text \o <<"NUL">> \o SubSeq(line_buf, Len(text) + 2, BufLen)

Chips == {"local", "other"}
Ids == {"101", "102", "200"}
Body == 6   (* where the JSON of a frame begins *)

(* protocol_parse_frame: <chip,id> and then the body. *)
Framed(buf) ==
  /\ buf[1] = "<" /\ buf[2] \in Chips /\ buf[3] = ","
  /\ buf[4] \in Ids /\ buf[5] = ">"

(* A command for another chip is ignored; a response passes. *)
Addressed(buf) == buf[4] = "200" \/ buf[2] = "local"

(* The line is dropped before the arena is touched. *)
Ignore ==
  /\ ~(Framed(line_buf') /\ Addressed(line_buf'))
  /\ outcome' = "ignored" /\ root' = NoTree
  /\ UNCHANGED cjson_pool_used

(* Mutant: the arena is not reset when the body is refused. *)
RefuseKeepsArena(parsed) ==
  /\ Framed(line_buf') /\ Addressed(line_buf')
  /\ parsed.tree = NoTree
  /\ outcome' = "syntax" /\ root' = NoTree
  /\ cjson_pool_used' = parsed.used

(* "Invalid JSON" is answered, to a response as well. *)
Refuse(parsed) ==
  /\ Framed(line_buf') /\ Addressed(line_buf')
  /\ parsed.tree = NoTree
  /\ outcome' = "syntax" /\ root' = NoTree
  /\ cjson_pool_used' = 0

(* The command runs on the tree, which is then given up. *)
Dispatch(parsed) ==
  /\ Framed(line_buf') /\ Addressed(line_buf')
  /\ parsed.tree # NoTree
  /\ outcome' = "dispatched" /\ root' = parsed.tree
  /\ cjson_pool_used' = 0

(* protocol_poll has returned a line and main hands it on. *)
Receive(text) ==
  /\ line_buf' = Store(text)
  /\ line' = text
  /\ LET parsed == Parse(line_buf', pool, Body, cjson_pool_used)
     IN  Ignore \/ Refuse(parsed) \/ Dispatch(parsed)
  /\ record' = NoTree /\ sent' = NoText
  /\ UNCHANGED pool

(* What the record leaves on the line, from an empty arena. *)
Printout(r, size) ==
  LET built == Build(Telemetry(r), size, 0)
  IN  IF built.tree = NoTree THEN NoText
      ELSE PrintValue(built.tree, size, built.used).text

Printouts == [r \in Readings |-> [size \in Pools |-> Printout(r, size)]]

(* protocol_send_telemetry empties the arena before and after. *)
SendTelemetry(r) ==
  /\ record' = Telemetry(r)
  /\ sent' = Printouts[r][pool]
  /\ cjson_pool_used' = 0
  /\ line' = <<>> /\ outcome' = "none" /\ root' = NoTree
  /\ UNCHANGED <<pool, line_buf>>

LinkNext ==
  \/ \E text \in Lines : Receive(text)
  \/ \E r \in Readings : SendTelemetry(r)

LinkSpec == LinkInit /\ [][LinkNext]_linkVars
-----------------------------------------------------------------------------
(* The body of the last line, and whether its strings all end in it. *)
OwnBody == SubSeq(line, Body, Len(line))
Closed(text) == Cardinality({p \in DOMAIN text : text[p] = "Q"}) % 2 = 0

(* A body whose strings are closed is taken only as what it says, whatever *)
(* earlier lines left in line_buf.  One that ends inside a string is taken *)
(* only if it is that string, without its last quote, or over a leftover.  *)
OwnLineOnly ==
  outcome = "dispatched" =>
    \/ Render(root) = OwnBody
    \/ /\ ~Closed(OwnBody)
       /\ \/ Render(root) = Append(OwnBody, "Q")
          \/ \E p \in Len(line) + 2..BufLen : line_buf[p] # "NUL"

Texts == [tree \in Trees |-> Render(tree)]
Needed == [tree \in Trees |-> Needs(tree)]

(* A whole body is taken, as the tree it was made from, exactly when its   *)
(* tree fits in the arena, after any sequence of refused bodies, commands  *)
(* and records; otherwise it is answered as invalid JSON.                  *)
FitMeansAccepted ==
  \A tree \in Trees :
    (outcome \in {"syntax", "dispatched"} /\ OwnBody = Texts[tree]) =>
      IF Needed[tree] <= pool THEN root = tree ELSE outcome = "syntax"

(* In an arena that holds the record's tree, telemetry prints every field  *)
(* or nothing: the text differs from the record in its colons at most.  In *)
(* a smaller one it may leave fields out.                                  *)
NoColonsIn[n \in Nat] ==
  IF n = 0 THEN [text \in Seq(Tokens) |-> <<>>]
  ELSE [text \in Seq(Tokens) |->
          NoColonsIn[n - 1][text] \o (IF text[n] = ":" THEN <<>> ELSE <<text[n]>>)]
NoColons(text) == NoColonsIn[Len(text)][text]
RecordTexts == [r \in Readings |-> NoColons(Render(Telemetry(r)))]
RecordNeeds == [r \in Readings |-> Needs(Telemetry(r))]
TelemetryWhole ==
  \A r \in Readings :
    (record = Telemetry(r) /\ sent # NoText /\ RecordNeeds[r] <= pool) =>
      NoColons(sent) = RecordTexts[r]

(* protocol.c prints the record "to compact JSON" and keeps the arena      *)
(* within its bounds "for the large nested telemetry structure".           *)
TelemetryArrives == record # NoTree => sent = Render(record)
=============================================================================
