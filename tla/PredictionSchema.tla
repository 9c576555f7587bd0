------------------------------ MODULE PredictionSchema ------------------------------
(***************************************************************************)
(* What is accepted at the two ends of a prediction: the validators shared by core *)
(* and workers (prediction_schema.py), the readers of the commands' input           *)
(* (series_prediction.py, batch_prediction.py, ml_predict_runner.py), the worker's   *)
(* one-shot main (docker/*/predict.py), and the reading of what its container left   *)
(* (forecast_client.py).                                                       *)
(*                                                                         *)
(* A JSON value is a record with its kind: a number, a "nan" (NaN or an infinity,   *)
(* which Python's json reads and writes), a "huge" integer (beyond every float), a   *)
(* "bool", a "text", a "null", a "list" with its items, an "object" with its fields.  *)
(* A check yields "valid", "invalid" (the error the caller reports) or "raises" (an    *)
(* exception no caller expects).                                               *)
(***************************************************************************)
EXTENDS Integers, Sequences, FiniteSetsExt

Number(n)       == [kind |-> "number", value |-> n]
NaN             == [kind |-> "nan"]
Huge            == [kind |-> "huge"]
Bool            == [kind |-> "bool"]
Text(stripped)  == [kind |-> "text", text |-> stripped]    \* what strip() leaves of it
Null            == [kind |-> "null"]
List(items)     == [kind |-> "list", items |-> items]
Object(fields)  == [kind |-> "object", fields |-> fields]

\* A value read with a default: object.get(name).
Get(fields, name) == IF name \in DOMAIN fields THEN fields[name] ELSE Null

\* Checks that are made one after the other: the first that fails decides.
FirstFault(checks) ==
  LET faults == {i \in DOMAIN checks : checks[i] # "valid"}
  IN  IF faults = {} THEN "valid" ELSE checks[Min(faults)]

-----------------------------------------------------------------------------
(* prediction_schema.py *)

\* float() of a huge integer is an OverflowError, and no PredictionSchemaError.
CheckElement(value) ==
  CASE value.kind = "number" -> "valid"
    [] value.kind = "huge"   -> "raises"
    [] OTHER                 -> "invalid"

validate_numeric_list(data) ==
  IF data.kind # "list" \/ (data.kind = "list" /\ data.items = <<>>) THEN "invalid"
  ELSE FirstFault([i \in DOMAIN data.items |-> CheckElement(data.items[i])])

validate_horizon(horizon) == IF horizon > 0 THEN "valid" ELSE "invalid"

\* The worker's view of a request.
parse_prediction_request(request) ==
  FirstFault(<<validate_numeric_list(request.series), validate_horizon(request.horizon)>>)

-----------------------------------------------------------------------------
(* The input of the commands *)

\* A file that is no JSON object has only its text's fault.
FileCheck(file) ==
  IF file.text = "object" THEN "valid"
  ELSE IF file.text = "undecodable" THEN "raises" ELSE "invalid"

CheckMetadata(fields) ==
  IF Get(fields, "metadata").kind \in {"null", "object"} THEN "valid" ELSE "invalid"

load_series_input(file) ==
  IF FileCheck(file) # "valid" THEN FileCheck(file)
  ELSE IF "series" \notin DOMAIN file.fields THEN "invalid"
  ELSE FirstFault(<<CheckMetadata(file.fields), validate_numeric_list(file.fields.series)>>)

\* Item i of a batch; the items before it are valid when this decides.
CheckItem(items, i) ==
  LET name == Get(items[i].fields, "name")
      SameName(j) == items[j].kind = "object" /\ Get(items[j].fields, "name") = name
  IN
  IF items[i].kind # "object" THEN "invalid"
  ELSE IF name.kind # "text" \/ name = Text("") THEN "invalid"
  ELSE IF \E j \in 1..(i - 1) : SameName(j) THEN "invalid"
  ELSE validate_numeric_list(Get(items[i].fields, "values"))

validate_batch_series(data) ==
  IF data.kind # "list" \/ (data.kind = "list" /\ data.items = <<>>) THEN "invalid"
  ELSE FirstFault([i \in DOMAIN data.items |-> CheckItem(data.items, i)])

load_batch_input(file) ==
  IF FileCheck(file) # "valid" THEN FileCheck(file)
  ELSE IF "series" \notin DOMAIN file.fields THEN "invalid"
  ELSE FirstFault(<<CheckMetadata(file.fields), validate_batch_series(file.fields.series)>>)

\* A faulty variant: whatever float() reads is taken for a number.
parse_any_float(list) ==
  IF \A i \in DOMAIN list.items : list.items[i].kind \in {"number", "nan", "huge"} THEN "valid" ELSE "invalid"

\* A series on the command line: float() reads "nan", and reads a huge number as an
\* infinity; both are refused, and nothing raises.
parse_series(list) ==
  IF \A i \in DOMAIN list.items : list.items[i].kind = "number" THEN "valid" ELSE "invalid"

-----------------------------------------------------------------------------
(* The worker's container and what it leaves: what was printed and the exit code. *)

Error(code)              == [text |-> "error", returncode |-> code]
Answer(forecast, code)   == [text |-> "forecast", forecast |-> forecast, returncode |-> code]
Garbage(text, code)      == [text |-> text, returncode |-> code]

\* predict.py: a model may fail, and may forecast NaN, which is printed as it is.
predict_main(request) ==
  IF parse_prediction_request(request) # "valid" THEN {Error(2)}
  ELSE {Error(1), Answer(List(<<Number(0)>>), 0), Answer(List(<<NaN>>), 0)}

\* What comes instead when the container is stopped, before or after it has printed,
\* or a library prints to stdout too, or not in UTF-8.
Interruptions ==
  {Garbage("not_json", 1), Garbage("not_json", 0), Garbage("not_object", 0),
   Garbage("partial", 0), Garbage("undecodable", 0), Answer(List(<<Number(0)>>), 137)}

\* forecast_result_from_completed: what comes back is a forecast only if it is one and
\* the container ended well.  A "failed" result carries the worker's JSON object, which
\* a caller may pass on, an "unparsed" one has none.  Output that is not text raises
\* before, in subprocess.run.
OutcomeOf(reply) ==
  CASE reply.text = "undecodable"               -> "raised"
    [] reply.text \in {"not_json", "not_object"} -> "unparsed"
    [] reply.text \in {"partial", "error"}       -> "failed"
    [] reply.text = "forecast" ->
         IF validate_numeric_list(reply.forecast) = "valid" /\ reply.returncode = 0 THEN "ok" ELSE "failed"
=============================================================================
