------------------------------- MODULE MCHttpApi -------------------------------
(* An embedder on the Hub with two commits, and bundles beside it; an embedder, *)
(* a reranker and a broken model in directories; other bundles in a directory  *)
(* and on the Hub.                                                             *)
EXTENDS HttpApi, TLC

W(id, hidden, head) == [id |-> id, hidden |-> hidden, head |-> head]
C(id, hidden, positions, labels) ==
    [id |-> id, hidden |-> hidden, positions |-> positions, labels |-> labels, classifier_pooling |-> None]

Checkpoint(weights, config) == WEIGHTS :> weights @@ CONFIG :> config @@ TOKENIZER :> "words"

MCBundles == "seq-4.mlmodelc" :> [seqs |-> {4}, form |-> "mlmodelc"]
          @@ "seq-4.mlpackage" :> [seqs |-> {4}, form |-> "mlpackage"]
          @@ "buckets-4-8.mlpackage" :> [seqs |-> {4, 8}, form |-> "mlpackage"]

MCPublished ==
    "ruri" :> << Checkpoint(W("ruri1", 2, FALSE), C(1, 2, 8, 2)) @@ POOLING :> "cls" @@ SENTENCE_CONFIG :> 8
                  @@ "seq-4.mlpackage" :> W("ruri1", 2, FALSE),
                 Checkpoint(W("ruri2", 2, FALSE), C(2, 2, 8, 2)) @@ SENTENCE_CONFIG :> 9
                  @@ "seq-4.mlpackage" :> W("ruri2", 2, FALSE) >>
 @@ "ane" :> << "seq-4.mlmodelc" :> W("ane", 2, FALSE) @@ "seq-4.mlpackage" :> W("ane", 2, FALSE)
                 @@ CONFIG :> C(1, 2, 8, 2) @@ TOKENIZER :> "words",
                 "seq-4.mlmodelc" :> W("ane2", 2, FALSE) @@ "seq-4.mlpackage" :> W("ane2", 2, FALSE)
                 @@ CONFIG :> C(2, 2, 8, 2) @@ TOKENIZER :> "words2" @@ POOLING :> "cls" >>
 @@ "./model" :> << Checkpoint(W("here", 3, FALSE), C(1, 3, 8, 2)) @@ POOLING :> "weightedmean" >>
 @@ "./mixed" :> << Checkpoint(W("here", 3, FALSE), C(1, 2, 8, 2)) >>
 @@ "./reranker" :> << Checkpoint(W("rr", 3, TRUE), C(1, 3, 8, 1)) >>
 @@ "./ane" :> << "buckets-4-8.mlpackage" :> W("ane", 3, TRUE) @@ CONFIG :> C(1, 3, 8, 1) @@ TOKENIZER :> "words" >>

MCLocal == {"./model", "./mixed", "./reranker", "./ane"}

Flags == [kind |-> "embed", repo |-> "ruri", device |-> "cpu", precision |-> "f32", pooling |-> None,
          dims |-> None, normalize |-> TRUE, max_seq_length |-> 4, coreml_dir |-> None,
          coreml_model_id |-> None, coreml_buckets |-> {4}, coreml_prefer |-> "mlmodelc",
          coreml_quantize |-> "fp16", sigmoid |-> FALSE]
Here == [Flags EXCEPT !.repo = "./model"]
Cross == [Flags EXCEPT !.kind = "rerank", !.repo = "./reranker", !.sigmoid = TRUE]
Ane == [Flags EXCEPT !.device = "coreml"]

Kohagi(m) == [program |-> "kohagi", model |-> m, rerank |-> Cross, report_tokens |-> FALSE, format |-> "openai",
              prefix |-> <<>>, max_inputs |-> 3, max_body_bytes |-> 9]
KohagiRerank(m) == [Kohagi(Flags) EXCEPT !.program = "kohagi-rerank", !.rerank = m]
KohagiServe(m, r) == [Kohagi(m) EXCEPT !.program = "kohagi-serve", !.rerank = r, !.prefix = <<"p">>]

\* One model in four ways, and at two commits.
OnTheHub == {Kohagi(Flags), Kohagi(Ane), Kohagi([Ane EXCEPT !.coreml_quantize = "all8"]),
             KohagiServe(Flags, Cross)}
BothWays == {Kohagi([Ane EXCEPT !.coreml_model_id = "ruri"]), Kohagi(Flags)}
OfBundles == {Kohagi([Ane EXCEPT !.coreml_model_id = "ane"]),
              Kohagi([Ane EXCEPT !.coreml_model_id = "ane", !.coreml_prefer = "mlpackage", !.repo = "./model"]),
              KohagiRerank([Cross EXCEPT !.device = "coreml", !.coreml_dir = "./ane"])}
Served == {KohagiServe([Here EXCEPT !.dims = 2], Cross), KohagiServe([Here EXCEPT !.normalize = FALSE], None),
           KohagiServe([Here EXCEPT !.device = "coreml", !.coreml_buckets = {4, 8}],
                       [Cross EXCEPT !.coreml_buckets = {4, 8}, !.max_seq_length = 8])}
BadFlags == {Kohagi([Here EXCEPT !.dims = 4]), Kohagi([Here EXCEPT !.dims = 2, !.normalize = FALSE]),
             Kohagi([Here EXCEPT !.repo = "./mixed"]), Kohagi([Here EXCEPT !.max_seq_length = 9]),
             Kohagi([Here EXCEPT !.device = "metal", !.precision = "bf16"]),
             Kohagi([Here EXCEPT !.precision = "bf16"]),
             Kohagi([Ane EXCEPT !.coreml_buckets = {}]), Kohagi([Ane EXCEPT !.repo = "./model", !.coreml_buckets = {9}]),
             [Kohagi(Here) EXCEPT !.report_tokens = TRUE],
             KohagiRerank([Cross EXCEPT !.repo = "./model"])}
MCMachines == {OnTheHub, BothWays, OfBundles, Served, BadFlags}

Text(t) == [is |-> "string", text |-> t, items |-> <<>>]
Other(is) == [is |-> is, text |-> None, items |-> <<>>]
Array(items) == [is |-> "array", text |-> None, items |-> items]
Object(t) == [is |-> "object", text |-> t, items |-> <<>>]

Request == [method |-> "POST", path |-> "/v1/embeddings", id |-> None, declared |-> None, sent |-> 5,
            body |-> [is |-> "other"]]
Embed(input, format, dims) ==
    [Request EXCEPT !.body = [is |-> "embeddings", input |-> input, encoding_format |-> format, dimensions |-> dims]]
RankAll(query, documents, top_n, back) ==
    [Request EXCEPT !.path = "/v1/rerank",
        !.body = [is |-> "rerank", query |-> query, documents |-> documents, top_n |-> top_n, return_documents |-> back]]

A == Text(<<"a">>)
Long == Text(<<"b", "a", "c">>)
Even == Text(<<"b", "a">>)    \* scored as A is
TooMany == Array(<<A, A, A, A>>)
Docs == {Array(<<A, Long>>), Array(<<A, Object(<<"a">>)>>), Array(<<Even, A, Long>>), Array(<<Long, A, Even>>)}
Rejected == {Array(<<A, Object(None)>>), TooMany, Array(<<>>), Array(<<Object(<<>>), A>>), A}

MCRequests ==
    {Embed(i, f, d) : i \in {A, Array(<<Long, A>>)}, f \in {None, "base64"}, d \in {None, 0, 1, 2, 3}}
    \union {Embed(i, None, None) : i \in {Other("null"), Array(<<>>), TooMany, Array(<<A, Text(<<>>)>>),
                                          Array(<<Other("number")>>)}}
    \union {Embed(A, "hex", None)}
    \union {RankAll(A, d, n, n = None) : d \in Docs, n \in {None, 0, 1, 2, 3}}
    \union {RankAll(A, d, n, TRUE) : d \in Rejected, n \in {None, 0}}
    \union {RankAll(q, Array(<<A>>), None, TRUE) : q \in {Text(<<>>), Other("number")}}
    \union {Request, [Request EXCEPT !.path = "/v1/rerank"], [Request EXCEPT !.method = "GET"],
            [Request EXCEPT !.path = "/v1/rerank", !.method = "GET"], [Request EXCEPT !.path = "/else"]}
    \union {[Embed(A, None, None) EXCEPT !.declared = b[1], !.sent = b[2]] : b \in {<<5, 5>>, <<10, 9>>, <<None, 10>>, <<5, 4>>}}
    \union {[Request EXCEPT !.path = p, !.method = m, !.id = "./model"] :
                p \in {"/v1/models", "/health", "/v1/models/"}, m \in {"GET", "HEAD", "POST"}}
    \union {[Request EXCEPT !.path = "/v1/models/", !.method = "GET", !.id = i] : i \in {"./reranker", "gpt"}}

MCTokens(t) == Len(t) + 2
\* The first word decides: of the documents above, A, Even and the object are equal.
MCScore(q, d) == IF Head(d) = "a" THEN 2 ELSE Len(d)
================================================================================
