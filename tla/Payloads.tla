------------------------------ MODULE Payloads ------------------------------
(***************************************************************************)
(* What becomes of the values that leave the program: redactValue of        *)
(* replay/index.ts makes the fields of receipts and attempts harmless, both *)
(* stableStringify of activity/index.ts and ledger/index.ts name an input   *)
(* and a receipt by their content, and worker/index.ts looks through what   *)
(* it hands to another thread.                                              *)
(*                                                                          *)
(* A value has a tag t.  A record is a sequence of fields, in the order in  *)
(* which they were set; a cycle refers to the record around it; a text is   *)
(* one of a few strings; of the rest one sees the kind.                     *)
(***************************************************************************)
EXTENDS Integers, Sequences, SequencesExt

VARIABLE payload   \* the value, and the policy it is redacted under

PayloadsInit(values, policies) ==
  \E v \in values, p \in policies : payload = [value |-> v, policy |-> p]

Text(s) == [t |-> "text", is |-> s]
Other(kind) == [t |-> kind]
List(items) == [t |-> "list", items |-> items]
Record(fields) == [t |-> "record", fields |-> fields]
Field(key, value) == [key |-> key, value |-> value]
Null == Other("null")
Refusal == Other("refusal")

\* Every tag that can be reached from a value, and every field.
RECURSIVE TagsIn(_), FieldsIn(_)
TagsIn(v) ==
  {v.t} \cup CASE v.t = "list" -> UNION {TagsIn(v.items[i]) : i \in DOMAIN v.items}
               [] v.t = "record" -> UNION {TagsIn(v.fields[i].value) : i \in DOMAIN v.fields}
               [] OTHER -> {}
FieldsIn(v) ==
  CASE v.t = "list" -> UNION {FieldsIn(v.items[i]) : i \in DOMAIN v.items}
    [] v.t = "record" -> ToSet(v.fields) \cup UNION {FieldsIn(v.fields[i].value) : i \in DOMAIN v.fields}
    [] OTHER -> {}
----------------------------------------------------------------------------
\* Fields are compared by their names in lower case.
Lower(key) == IF key = "TOKEN" THEN "token" ELSE key
DefaultRedactFields == {"token", "secret"}
DefaultDepth == 8
Redaction(remove, redact, depth) ==
  [remove |-> remove, redact |-> DefaultRedactFields \cup redact, maxDepth |-> depth]

\* normalizeError
ErrorEvidence == Record(<<Field("name", Text("name")), Field("message", Text("message"))>>)

\* redactValue: what is too deep is cut before it is looked at.
RECURSIVE RedactValue(_, _, _, _)
RedactValue(v, policy, depth, around) ==
  IF depth > policy.maxDepth THEN Text("[max-depth]")
  ELSE CASE v.t = "error" -> ErrorEvidence
         [] v.t = "list" -> List([i \in DOMAIN v.items |-> RedactValue(v.items[i], policy, depth + 1, around)])
         [] v.t = "record" ->
              LET kept == SelectSeq(v.fields, LAMBDA f : Lower(f.key) \notin policy.remove)
                  Redacted(f) == IF Lower(f.key) \in policy.redact THEN Text("[redacted]")
                                 ELSE RedactValue(f.value, policy, depth + 1, v)
              IN Record([i \in DOMAIN kept |-> Field(kept[i].key, Redacted(kept[i]))])
         [] v.t = "cycle" -> RedactValue(around, policy, depth, around)
         [] v.t \in {"date", "map"} -> Record(<<>>)
         [] OTHER -> v
RedactReceipt(v, policy) == RedactValue(v, policy, 0, v)
----------------------------------------------------------------------------
\* JSON.stringify and JSON.parse: Refusal if that throws, or there is nothing to parse.
Silent == {"undefined", "function", "symbol"}
RECURSIVE Json(_)
Json(v) ==
  CASE v.t \in Silent \cup {"bigint", "cycle", "refusal"} -> Refusal
    [] v.t = "list" ->
         LET items == [i \in DOMAIN v.items |-> IF v.items[i].t \in Silent THEN Null ELSE Json(v.items[i])]
         IN IF Refusal \in ToSet(items) THEN Refusal ELSE List(items)
    [] v.t = "record" ->
         LET told == SelectSeq(v.fields, LAMBDA f : f.value.t \notin Silent)
             fields == [i \in DOMAIN told |-> Field(told[i].key, Json(told[i].value))]
         IN IF \E i \in DOMAIN fields : fields[i].value = Refusal THEN Refusal ELSE Record(fields)
    [] v.t = "date" -> Text("iso")
    [] v.t \in {"map", "error"} -> Record(<<>>)
    [] v.t = "infinite" -> Null
    [] OTHER -> v

Alphabet == <<"TOKEN", "a", "b", "message", "name", "secret", "token">>
Rank(key) == CHOOSE i \in DOMAIN Alphabet : Alphabet[i] = key
Sorted(fields) == SortSeq(fields, LAMBDA f, g : Rank(f.key) < Rank(g.key))

\* sortValue of the activity boundary refuses what JSON would drop or change, but
\* for a date, which becomes its text, and an object without own keys.
Unsupported == Silent \cup {"bigint", "infinite", "cycle"}
RECURSIVE ActivityPayload(_)
ActivityPayload(v) ==
  CASE v.t \in Unsupported -> Refusal
    [] v.t = "date" -> Text("iso")
    [] v.t = "list" ->
         LET items == [i \in DOMAIN v.items |-> ActivityPayload(v.items[i])]
         IN IF Refusal \in ToSet(items) THEN Refusal ELSE List(items)
    [] v.t = "record" ->
         LET fields == [i \in DOMAIN v.fields |-> Field(v.fields[i].key, ActivityPayload(v.fields[i].value))]
         IN IF \E i \in DOMAIN fields : fields[i].value = Refusal THEN Refusal ELSE Record(Sorted(fields))
    [] v.t \in {"map", "error"} -> Record(<<>>)
    [] OTHER -> v

\* sortValue of the ledger takes every object apart; checksumReceipt hashes the JSON.
RECURSIVE Untyped(_)
Untyped(v) ==
  CASE v.t = "list" -> List([i \in DOMAIN v.items |-> Untyped(v.items[i])])
    [] v.t = "record" ->
         Record(Sorted([i \in DOMAIN v.fields |-> Field(v.fields[i].key, Untyped(v.fields[i].value))]))
    [] v.t \in {"date", "map", "error"} -> Record(<<>>)
    [] OTHER -> v
Checksum(v) == Json(Untyped(v))

\* normalizeAttemptMetadata: a JSON object, redacted by default.
Metadata(v) ==
  IF Json(v).t # "record" THEN Refusal ELSE RedactReceipt(Json(v), Redaction({}, {}, DefaultDepth))

\* assertPlainStructuredCloneData: a cycle was seen before.
RECURSIVE OffloadAccepts(_)
OffloadAccepts(v) ==
  CASE v.t \in {"symbol", "function", "error"} -> FALSE
    [] v.t = "list" -> \A i \in DOMAIN v.items : OffloadAccepts(v.items[i])
    [] v.t = "record" -> \A i \in DOMAIN v.fields : OffloadAccepts(v.fields[i].value)
    [] OTHER -> TRUE
----------------------------------------------------------------------------
Reordered(v) == IF v.t = "record" THEN Record(Reverse(v.fields)) ELSE v

\* Whatever is recorded, a receipt holds no value of a field that is to be hidden and
\* no field that is to be removed, nothing deeper than its limit and nothing but
\* plain data; and, unless an error stood at the limit, to redact it once more
\* changes nothing.
RedactionTruth ==
  LET v == payload.value
      p == payload.policy
      r == RedactReceipt(v, p)
  IN /\ \A f \in FieldsIn(r) :
          /\ Lower(f.key) \notin p.remove
          /\ Lower(f.key) \in p.redact => f.value = Text("[redacted]")
     /\ TagsIn(r) \cap {"error", "date", "map", "cycle"} = {}
     /\ "error" \notin TagsIn(v) => RedactReceipt(r, p) = r

\* A receipt that can be stored is named by its content: its checksum is that of
\* what is read back, in whatever order its fields were set, so that appending it
\* again after a restart is no conflict.
ChecksumTruth ==
  LET r == RedactReceipt(payload.value, payload.policy)
  IN /\ Checksum(r) # Refusal => Checksum(Json(r)) = Checksum(r) /\ Checksum(Reordered(r)) = Checksum(r)
     /\ (Checksum(r) = Refusal) = (Json(r) = Refusal)

\* A value that an activity takes or returns is the same when it is read back from
\* the store, so that a replay returns what the first run returned, and what
\* cannot be read back as it was is refused.  Evidence of an attempt is an object
\* that JSON can carry and hides what a receipt hides by default.  What is handed
\* to a worker can be cloned.
PayloadTruth ==
  LET v == payload.value
      kept == ActivityPayload(v)
      evidence == Metadata(v)
  IN /\ RedactionTruth /\ ChecksumTruth
     /\ (kept = Refusal) = (TagsIn(v) \cap Unsupported # {})
     /\ kept # Refusal => Json(kept) = kept /\ ActivityPayload(kept) = kept /\ ActivityPayload(Reordered(v)) = kept
     /\ evidence # Refusal => Json(evidence) = evidence /\
          \A f \in FieldsIn(evidence) : Lower(f.key) \in DefaultRedactFields => f.value = Text("[redacted]")
     /\ OffloadAccepts(v) => TagsIn(v) \cap {"function", "symbol", "error"} = {}
=============================================================================
