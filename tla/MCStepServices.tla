--------------------------- MODULE MCStepServices ---------------------------
(* StepServices on the corpus the service ships with and three documents.    *)
EXTENDS StepServices

Shipped(id, title, terms, meta, similarity) ==
  Row(id, id, <<0, 0>>, title, terms, terms, meta, "v1", similarity)

MCCorpora ==
  {<<Shipped(1, "slo", {"incident", "latency", "deploy"}, [team |-> "platform"], 1),
     Shipped(2, "capacity", {"capacity"}, [team |-> "platform"], 0),
     Shipped(3, "drift", {"incident", "config"}, [team |-> "platform"], 1),
     Shipped(4, "billing", {"cost", "billing"},
             [team |-> "finops", workflow |-> "cost_attribution"], 2),
     Shipped(5, "rightsizing", {"cost"},
             [team |-> "finops", workflow |-> "cost_attribution"], 1)>>}

Document(id, length, title, terms, meta, version) ==
  [id |-> id, length |-> length, title |-> title, titleTerms |-> terms,
   keywords |-> terms, meta |-> meta, version |-> version, similarity |-> 1]

MCDocuments ==
  {Document(100, 9, "postmortem", {"incident"}, [incident_id |-> "i1"], "v1"),
   Document(200, 12, NoTitle, {"cost"},
            [workflow |-> "cost_attribution", service |-> "s1"], "v2"),
   Document(300, 0, NoTitle, {}, [workflow |-> "cost_attribution"], "v1"),
   Document(400, 4, "other", {}, [incident_id |-> "i2"], "v1")}

MCMaxRetries == {-1, 1}
=============================================================================
