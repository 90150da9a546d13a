---------------------------- MODULE MCProviderLookup ----------------------------
(* Five items, a store of eight entries on two levels, and payloads of one
   string. *)
EXTENDS DiagnosticBundle

Uri(form, host, raw) == [form |-> form, host |-> host, raw |-> raw]
Item(uris, title, id) == [uris |-> uris, title |-> title, id |-> id]

MCItems ==
  {Item(<<Uri("url", 3, FALSE), Uri("url", 1, FALSE)>>, 3, TRUE),
   Item(<<Uri("bare", 1, FALSE)>>, 3, FALSE),
   Item(<<Uri("opaque", 1, TRUE)>>, 2, TRUE),
   Item(<<Uri("opaque", 1, FALSE)>>, 1, TRUE),
   Item(<<>>, 3, TRUE)}

Text(field, shape) == {[field |-> field, shape |-> shape]}
MCPayloads ==
  {{}, Text("skipped", "hard"), Text("path", "random"), Text("path", "hard"),
   Text("text", "random")}

MCEntries == {<<1>>, <<2>>, <<3>>, <<1, 2>>, <<2, 1>>, <<2, 2>>, <<2, 3>>, <<3, 1>>}
================================================================================
