---------------------------- MODULE SagaTemplate ----------------------------
(***************************************************************************)
(* saga/template.go and jsonpath.go: finding a value by its path, and      *)
(* rendering URLs and payloads from the data of a transaction.             *)
(*                                                                         *)
(* A path is a sequence of tokens: names, ".", an index with its brackets, *)
(* and "[" for one that is never closed.  A string that is rendered is a   *)
(* sequence of pieces, literal or variable; of a text only its identity    *)
(* matters and whether it holds something in braces.                       *)
(***************************************************************************)
EXTENDS Integers, Sequences, FiniteSets, SequencesExt

(* JSON values *)
Str(text)    == [kind |-> "str", text |-> text, braces |-> FALSE]
Braced(text) == [kind |-> "str", text |-> text, braces |-> TRUE]
Num(text)    == [kind |-> "num", text |-> text]
Null         == [kind |-> "null"]
Arr(items)   == [kind |-> "arr", items |-> items]
Obj(fields)  == [kind |-> "map", fields |-> fields]
NilMap       == [kind |-> "map", fields |-> <<>>, isNil |-> TRUE]
EmptyMap     == Obj(<<>>)

Ok(value) == [ok |-> TRUE, val |-> value]
Err       == [ok |-> FALSE]

Field(v, key) == IF v.kind = "map" /\ key \in DOMAIN v.fields THEN Ok(v.fields[key]) ELSE Err
Item(v, n)    == IF v.kind = "arr" /\ n \in 0..(Len(v.items) - 1) THEN Ok(v.items[n + 1]) ELSE Err

-----------------------------------------------------------------------------
(* Paths *)

Brackets == {"[0]", "[1]", "[-1]", "[x]"}
NaN      == -2

Atoi(token) == CASE token \in {"[0]", "0"} -> 0
                 [] token \in {"[1]", "1"} -> 1
                 [] token \in {"[-1]", "-1"} -> -1
                 [] OTHER -> NaN

Bare(token) == CASE token = "[0]" -> "0" [] token = "[1]" -> "1"
                 [] token = "[-1]" -> "-1" [] OTHER -> "x"

(* A scan: the parts found, the part under way, and whether the rest is one part. *)
Scan0 == [parts |-> <<>>, cur |-> <<>>, rest |-> FALSE]

Grow(s, token) == [s EXCEPT !.cur = Append(@, token)]
Flush(s) == IF s.cur = <<>> THEN s ELSE [s EXCEPT !.parts = Append(@, s.cur), !.cur = <<>>]

parsePathParts(path) ==
    LET step(s, token) == CASE s.rest -> Grow(s, token)
                            [] ~s.rest /\ token = "." -> Flush(s)
                            [] ~s.rest /\ token = "[" -> [Grow(s, token) EXCEPT !.rest = TRUE]
                            [] OTHER -> Grow(s, token)
    IN  Flush(FoldLeft(step, Scan0, path)).parts

(* An index that follows no name is a part of its own here, without its brackets. *)
parseJSONPathParts(path) ==
    LET step(s, token) ==
          CASE s.rest -> Grow(s, token)
            [] ~s.rest /\ token = "." -> Flush(s)
            [] ~s.rest /\ token = "[" -> [Grow(s, token) EXCEPT !.rest = TRUE]
            [] ~s.rest /\ token \in Brackets /\ s.cur = <<>> ->
                 [s EXCEPT !.parts = Append(@, <<Bare(token)>>)]
            [] OTHER -> Grow(s, token)
    IN  Flush(FoldLeft(step, Scan0, path)).parts

(* Seeded fault: indexes count from one. *)
parseArrayIndex_FromOne(part) ==
    LET at == SelectInSeq(part, LAMBDA t : t \in Brackets)
    IN  IF at = 0 \/ Atoi(part[IF at = 0 THEN 1 ELSE at]) = NaN
          THEN [has |-> FALSE, idx |-> 0, base |-> part]
          ELSE [has |-> TRUE, idx |-> Atoi(part[at]) - 1, base |-> SubSeq(part, 1, at - 1)]

(***************************************************************************)
(* The first index of a part and the name before it; what follows the      *)
(* index, a second one or more text, is ignored.                           *)
(***************************************************************************)
parseArrayIndex(part) ==
    LET at == SelectInSeq(part, LAMBDA t : t \in Brackets)
    IN  IF at = 0 \/ Atoi(part[IF at = 0 THEN 1 ELSE at]) = NaN
          THEN [has |-> FALSE, idx |-> 0, base |-> part]
          ELSE [has |-> TRUE, idx |-> Atoi(part[at]), base |-> SubSeq(part, 1, at - 1)]

(* The key a part is; a part of several tokens is the key of nothing. *)
Key(part) == IF Len(part) = 1 THEN part[1] ELSE ""

EnterMap(v, part) ==
    LET ix    == parseArrayIndex(part)
        field == Field(v, Key(ix.base))
    IN  IF ix.has /\ field.ok THEN Item(field.val, ix.idx)
        ELSE IF ix.has THEN Err ELSE Field(v, Key(part))

Walk(enter(_, _), parts, data) ==
    FoldLeft(LAMBDA r, part : IF r.ok THEN enter(r.val, part) ELSE Err, Ok(data), parts)

valueToString(v) == CASE v.kind \in {"str", "num"} -> <<v.text>>
                      [] v.kind = "null" -> <<"">>
                      [] OTHER -> <<"json", v>>

jsonValueToString(v) == CASE v.kind \in {"str", "num"} -> <<v.text>>
                          [] v.kind = "null" -> <<"">>
                          [] OTHER -> <<"%v", v>>

(* The value at a path, before valueToString. *)
resolveTemplatePath(path, data) ==
    LET parts == parsePathParts(path)
    IN  IF parts = <<>> THEN Err ELSE Walk(EnterMap, parts, data)

ExtractByPath(data, path) ==
    LET rooted == path # <<>> /\ path[1] = "$"
        inner  == IF rooted /\ Len(path) > 1 /\ path[2] = "." THEN SubSeq(path, 3, Len(path))
                  ELSE IF rooted THEN Tail(path) ELSE path
        parts  == parseJSONPathParts(inner)
        enter(v, part) == IF v.kind = "arr" THEN Item(v, Atoi(Key(part))) ELSE EnterMap(v, part)
    IN  IF parts = <<>> THEN Err ELSE Walk(enter, parts, data)

(* parseHTTPResponseEnvelope accepts an object whose code is 0. *)
Accepted(r) == LET code == Field(r, "code") IN code.ok /\ jsonValueToString(code.val) = <<"0">>

MatchPollResult(response, poll) ==
    LET is(path, text) == /\ path # <<>> /\ text # ""
                          /\ LET r == ExtractByPath(response, path)
                             IN  r.ok /\ jsonValueToString(r.val) = <<text>>
        success == is(poll.successPath, poll.successValue)
    IN  CASE success -> "success"
          [] ~success /\ is(poll.failurePath, poll.failureValue) -> "failure"
          [] OTHER -> "processing"

-----------------------------------------------------------------------------
(* Rendering *)

Lit(text) == [kind |-> "lit", text |-> text]
Var(path) == [kind |-> "var", path |-> path]
Tpl(pieces) == [kind |-> "tpl", pieces |-> pieces]      \* a string of a payload
Out(texts)  == [kind |-> "out", texts |-> texts]        \* and what became of it

(* Whether templateVarRegex finds something in the text of a value. *)
RECURSIVE HasBraces(_)
HasBraces(v) == CASE v.kind = "str" -> v.braces
                  [] v.kind = "arr" -> \E i \in DOMAIN v.items : HasBraces(v.items[i])
                  [] v.kind = "map" -> DOMAIN v.fields # {}
                  [] OTHER -> FALSE

(***************************************************************************)
(* Fails when a variable is not found, and also when a value put in has    *)
(* braces itself: the check on the result cannot tell.                     *)
(***************************************************************************)
RenderTemplate(pieces, data) ==
    LET found(i) == IF pieces[i].kind = "lit" THEN Ok(Str(pieces[i].text))
                    ELSE resolveTemplatePath(pieces[i].path, data)
    IN  IF \A i \in DOMAIN pieces : found(i).ok /\ ~HasBraces(found(i).val)
          THEN Ok(Out([i \in DOMAIN pieces |-> valueToString(found(i).val)]))
          ELSE Err

(* renderValue, with RenderPayload for a map: all of it or nothing. *)
RECURSIVE renderValue(_, _)
renderValue(v, data) ==
    LET parts == CASE v.kind = "map" -> v.fields [] v.kind = "arr" -> v.items [] OTHER -> <<>>
        done  == [k \in DOMAIN parts |-> renderValue(parts[k], data)]
        vals  == [k \in DOMAIN parts |-> done[k].val]
        all   == \A k \in DOMAIN parts : done[k].ok
    IN  CASE v.kind = "tpl" -> RenderTemplate(v.pieces, data)
          [] v.kind \in {"map", "arr"} /\ ~all -> Err
          [] v = NilMap -> Ok(v)
          [] v.kind = "map" /\ all /\ v # NilMap -> Ok(Obj(vals))
          [] v.kind = "arr" /\ all -> Ok(Arr(vals))
          [] OTHER -> Ok(v)

(* RenderURL and RenderPayloadJSON; a request without a body has a nil payload. *)
RenderRequest(tpl, data) ==
    LET url  == RenderTemplate(tpl.url, data)
        body == renderValue(tpl.payload, data)
    IN  IF url.ok /\ body.ok THEN Ok([url |-> url.val, payload |-> body.val]) ELSE Err

(* steps is a sequence of [status, response]; cur is the number of the current one. *)
BuildTemplateData(payload, steps, cur) ==
    LET stepData(i) == Obj([index |-> Num(ToString(i - 1)), status |-> Str(steps[i].status),
                            action_response |-> steps[i].response])
    IN  Obj([transaction |-> IF payload = NilMap THEN Obj([payload |-> EmptyMap])
                             ELSE Obj([payload |-> payload, id |-> Str("tx")]),
             step |-> Arr([i \in DOMAIN steps |-> stepData(i)]),
             action_response |-> IF steps[cur].response = NilMap THEN EmptyMap
                                                                 ELSE steps[cur].response])

-----------------------------------------------------------------------------
(***************************************************************************)
(* The reference: each name of a path is a field and each index an item,   *)
(* one after the other.                                                    *)
(***************************************************************************)
Words(path) == SelectSeq(path, LAMBDA t : t \notin {".", "$"})

Lookup(words, data) ==
    FoldLeft(LAMBDA r, w : IF ~r.ok THEN Err
                           ELSE IF w \in Brackets THEN Item(r.val, Atoi(w)) ELSE Field(r.val, w),
             Ok(data), words)

(* name, name[n] and dots between them: the paths the comments describe *)
IsRegular(path) ==
    LET name(i) == path[i] \notin Brackets \cup {".", "[", "$"}
    IN  /\ path # <<>> /\ name(1) /\ path[Len(path)] # "."
        /\ \A i \in DOMAIN path :
              /\ path[i] \notin {"[", "$", "[x]"}
              /\ path[i] \in Brackets => name(i - 1)
              /\ path[i] = "." => path[i + 1] # "." /\ name(i + 1)
              /\ name(i) /\ i > 1 => path[i - 1] = "."

(* Something other than a dot comes right after an index. *)
HasTrailer(path) == \E i \in DOMAIN path \ {1} : path[i - 1] \in Brackets /\ path[i] # "."

(***************************************************************************)
(* Both ways to find a value agree with walking the path word by word, if  *)
(* the path is one the comments describe; on a path of another form they   *)
(* find that value or nothing, unless something follows an index in its    *)
(* part (resolveTemplatePath, ExtractByPath).                              *)
(***************************************************************************)
FoundByWalking(path, data) ==
    LET Agrees(found) ==
          /\ IsRegular(path) => found = Lookup(Words(path), data)
          /\ found.ok /\ ~HasTrailer(path) => found = Lookup(Words(path), data)
    IN  /\ Agrees(resolveTemplatePath(path, data))
        /\ Agrees(ExtractByPath(data, path))
        /\ ExtractByPath(data, <<"$", ".">> \o path) = ExtractByPath(data, path)

(* What a value made from template t has to say, given the data. *)
RECURSIVE Says(_, _, _)
Says(out, t, data) ==
    CASE t.kind = "tpl" ->
           /\ out.kind = "out" /\ DOMAIN out.texts = DOMAIN t.pieces
           /\ \A k \in DOMAIN t.pieces :
                 LET piece == t.pieces[k]
                     meant == IF piece.kind = "lit" THEN Ok(Str(piece.text))
                                                    ELSE Lookup(Words(piece.path), data)
                 IN  meant.ok /\ out.texts[k] = valueToString(meant.val)
      [] t.kind = "map" -> /\ out.kind = "map" /\ DOMAIN out.fields = DOMAIN t.fields
                           /\ \A k \in DOMAIN t.fields : Says(out.fields[k], t.fields[k], data)
      [] t.kind = "arr" -> /\ out.kind = "arr" /\ Len(out.items) = Len(t.items)
                           /\ \A k \in DOMAIN t.items : Says(out.items[k], t.items[k], data)
      [] OTHER -> out = t

RequestSays(req, t, data) == Says(req.url, Tpl(t.url), data) /\ Says(req.payload, t.payload, data)
=============================================================================
