------------------------------- MODULE SoapValue -------------------------------
(***************************************************************************)
(* The SOAP codec of kasapi-cli (internal/soap: value.go, envelope.go,     *)
(* decode.go) and what KasAuth's answers have of their own                 *)
(* (internal/auth/codec.go).                                               *)
(*                                                                         *)
(* An element is what the XML decoder delivers: its xsi:type without the   *)
(* prefix, xsi:nil, its text, and its items, which have a key in a Map and *)
(* none in an Array.  A text is one of a few that differ in what they      *)
(* parse as.  Numbers of type float are counted in tenths.                 *)
(***************************************************************************)
EXTENDS Sequences, Integers

Element(type, text, items) == [type |-> type, nil |-> FALSE, text |-> text, items |-> items]
NilElement == [Element("", "", <<>>) EXCEPT !.nil = TRUE]
Item(key, value) == [key |-> key, value |-> value]

\* The texts strconv.ParseInt, strconv.ParseFloat and an xsd:boolean accept.
Whole == [t \in {"0", "1", "7", "-1"} |->
            CASE t = "0" -> 0 [] t = "1" -> 1 [] t = "7" -> 7 [] t = "-1" -> -1]
Tenths == [t \in DOMAIN Whole \cup {"1.5"} |-> IF t = "1.5" THEN 15 ELSE 10 * Whole[t]]
Truth == [t \in {"true", "1", "false", "0", ""} |-> IF t \in {"true", "1"} THEN 1 ELSE 0]

-------------------------------------------------------------------------------
\* Values.

Value(kind, str, num, items) == [kind |-> kind, str |-> str, num |-> num, items |-> items]
Nil == Value("nil", "", 0, <<>>)
Malformed == Value("malformed", "", 0, <<>>)

classifyType(type) ==
    CASE type = "string" -> "string"
      [] type \in {"int", "integer", "long", "short"} -> "int"
      [] type \in {"float", "double", "decimal"} -> "float"
      [] type = "boolean" -> "bool"
      [] type = "Map" -> "map"
      [] type = "Array" -> "array"
      [] OTHER -> "unknown"

\* UnmarshalXML, of an element whose items read as values: one malformed item
\* spoils a Map or an Array.
decodeItems(kind, values) ==
    IF \E i \in DOMAIN values : values[i].value = Malformed THEN Malformed
    ELSE Value(kind, "", 0, values)
UnmarshalXML(e, values) ==
    LET kind == classifyType(e.type)
    IN  CASE e.nil -> Nil
          [] ~e.nil /\ kind = "string" -> Value(kind, e.text, 0, <<>>)
          [] ~e.nil /\ kind = "int" /\ e.text \in DOMAIN Whole ->
                Value(kind, "", Whole[e.text], <<>>)
          [] ~e.nil /\ kind = "float" /\ e.text \in DOMAIN Tenths ->
                Value(kind, "", Tenths[e.text], <<>>)
          [] ~e.nil /\ kind = "bool" /\ e.text \in DOMAIN Truth ->
                Value(kind, "", Truth[e.text], <<>>)
          [] ~e.nil /\ kind \in {"map", "array"} -> decodeItems(kind, values)
          [] OTHER -> Malformed

\* The items are elements again.  The deepest document of the API is the answer of
\* get_accountsettings, with eight levels from its <return> to a text in user_prefs.
Unmarshal1(e) ==
    UnmarshalXML(e, [i \in DOMAIN e.items |-> Item(e.items[i].key, Malformed)])
Unmarshal2(e) ==
    UnmarshalXML(e, [i \in DOMAIN e.items |-> Item(e.items[i].key, Unmarshal1(e.items[i].value))])
Unmarshal3(e) ==
    UnmarshalXML(e, [i \in DOMAIN e.items |-> Item(e.items[i].key, Unmarshal2(e.items[i].value))])
Unmarshal4(e) ==
    UnmarshalXML(e, [i \in DOMAIN e.items |-> Item(e.items[i].key, Unmarshal3(e.items[i].value))])
Unmarshal5(e) ==
    UnmarshalXML(e, [i \in DOMAIN e.items |-> Item(e.items[i].key, Unmarshal4(e.items[i].value))])
Unmarshal6(e) ==
    UnmarshalXML(e, [i \in DOMAIN e.items |-> Item(e.items[i].key, Unmarshal5(e.items[i].value))])
Unmarshal7(e) ==
    UnmarshalXML(e, [i \in DOMAIN e.items |-> Item(e.items[i].key, Unmarshal6(e.items[i].value))])
Unmarshal(e) ==
    UnmarshalXML(e, [i \in DOMAIN e.items |-> Item(e.items[i].key, Unmarshal7(e.items[i].value))])

\* Of equal keys, Get takes the first.  A key that is not there reads as Nil:
\* no accessor tells the two apart.
Get(v, key) ==
    LET at == {i \in DOMAIN v.items : v.items[i].key = key}
    IN  IF v.kind # "map" \/ at = {} THEN Nil
        ELSE v.items[CHOOSE i \in at : \A j \in at : i <= j].value

AsString(v) ==
    CASE v.kind = "string" -> v.str
      [] v.kind = "int" -> CHOOSE t \in DOMAIN Whole : Whole[t] = v.num
      [] v.kind = "float" -> CHOOSE t \in DOMAIN Tenths : Tenths[t] = v.num
      [] v.kind = "bool" -> IF v.num = 1 THEN "true" ELSE "false"
      [] OTHER -> ""

AsFloat(v) ==
    CASE v.kind = "float" -> v.num
      [] v.kind = "int" -> 10 * v.num
      [] v.kind = "string" /\ v.str \in DOMAIN Tenths -> Tenths[v.str]
      [] OTHER -> 0

Truncate(tenths) == IF tenths < 0 THEN -((-tenths) \div 10) ELSE tenths \div 10

AsInt(v) ==
    CASE v.kind = "int" -> v.num
      [] v.kind = "float" -> Truncate(v.num)
      [] v.kind = "string" /\ v.str \in DOMAIN Whole -> Whole[v.str]
      [] OTHER -> 0

\* A slip: what is no number counts as 0.
AsIntLenient(v) == [ok |-> TRUE, n |-> AsInt(v)]
AsIntStrict(v) ==
    [ok |-> v.kind \in {"int", "float"} \/ (v.kind = "string" /\ v.str \in DOMAIN Whole),
     n |-> AsInt(v)]

MapString(v, key) == AsString(Get(v, key))
MapInt(v, key) == AsInt(Get(v, key))
MapFloat(v, key) == AsFloat(Get(v, key))
MapIntStrict(v, key) == AsIntStrict(Get(v, key))

-------------------------------------------------------------------------------
\* Envelopes.  A document has no Body, one with nothing of interest in it, a
\* fault, a response without a <return>, or a <return>.

Document(body, return) == [body |-> body, return |-> return]

Failed(fate) == [fate |-> fate, info |-> Nil]

\* Of equal keys, buildResponse and buildResponseBody take the last.
Latest(v, key) ==
    LET at == {i \in DOMAIN v.items : v.items[i].key = key}
    IN  IF at = {} THEN Nil ELSE v.items[CHOOSE i \in at : \A j \in at : i >= j].value

buildResponseBody(v) == [fate |-> "ok", info |-> Latest(v, "ReturnInfo")]

buildResponse(top) ==
    LET at == {i \in DOMAIN top.items : top.items[i].key = "Response"}
    IN  IF top.kind # "map" \/ \E i \in at : top.items[i].value.kind # "map"
        THEN Failed("error")
        ELSE IF at = {} THEN [fate |-> "ok", info |-> Nil]
        ELSE buildResponseBody(Latest(top, "Response"))

Decode(document) ==
    CASE document.body = "fault" -> Failed("fault")
      [] document.body = "response" -> buildResponse(Unmarshal(document.return))
      [] OTHER -> Failed("error")

\* DecodeArray: the items, all of them Maps, or an error.
DecodeArray(v) ==
    [ok |-> v.kind = "array" /\ \A i \in DOMAIN v.items : v.items[i].value.kind = "map",
     rows |-> [i \in DOMAIN v.items |-> v.items[i].value]]

\* auth.DecodeResponse: the credential token in a <return>, if it looks like one.
NoToken == ""
DecodeToken(document, tokens) ==
    IF document.body = "response" /\ document.return.text \in tokens
    THEN document.return.text ELSE NoToken
===============================================================================
