-------------------------------- MODULE HttpApi --------------------------------
(***************************************************************************)
(* What a request to kohagi-serve is answered by the models ModelSource    *)
(* loaded: the routes and handlers of serve/http.rs, the checks and bodies *)
(* of serve/api, the statuses of serve/reply.rs, and what --dims and       *)
(* `dimensions` do to a vector (model.rs, batch.rs).                       *)
(*                                                                         *)
(* A handler reads only what the start fixed, so a request is one step:    *)
(* requests beside each other, the queue and the counters are              *)
(* KohagiServe's. A string is a sequence of words, <<>> the empty one. A   *)
(* vector is what it was made of, how many leading dimensions it keeps,    *)
(* and over how many of them its length was made 1.                        *)
(***************************************************************************)
EXTENDS ModelSource, FiniteSetsExt

CONSTANTS Requests,     \* what clients may send
          Tokens(_),    \* how many tokens the words of a text make
          Score(_, _)   \* what the cross-encoder gives a query and a document

\* What serde and hyper make of a request: numbers where numbers are asked for,
\* arrays, and no more of a body than was declared. Scores are in total_cmp's order.
ASSUME RequestsAreSound ==
    \A req \in Requests :
        /\ req.sent \in Nat /\ req.declared \in Nat \union {None}
        /\ req.declared # None => req.sent <= req.declared
        /\ req.body.is = "embeddings" =>
             /\ req.body.input.items \in Seq({req.body.input.items[i] : i \in DOMAIN req.body.input.items})
             /\ req.body.dimensions \in Nat \union {None}
        /\ req.body.is = "rerank" =>
             LET items == req.body.documents.items
             IN /\ items \in Seq({items[d] : d \in DOMAIN items})
                /\ req.body.top_n \in Nat \union {None}
                /\ \A d \in DOMAIN items : items[d].text \notin {None, <<>>} => Score(req.body.query.text, items[d].text) \in Int
ASSUME LimitsAreSound ==
    \A starts \in Machines : \A s \in starts :
        s.program = "kohagi-serve" => s.max_inputs \in Nat /\ s.max_body_bytes \in Nat

VARIABLES request, reply    \* the last request, and what it got

apiVars == <<sourceVars, request, reply>>

Init == SourceInit /\ request = None /\ reply = None

-----------------------------------------------------------------------------
(* Replies.                                                                *)

Ok(body) == [status |-> 200, header |-> None, param |-> None, body |-> body]
Problem(status, header) == [status |-> status, header |-> header, param |-> None, body |-> "error"]
Invalid(param) == [Problem(400, None) EXCEPT !.param = param]
MethodNotAllowed(allow) == Problem(405, <<"allow", allow>>)
ASSUME NoneIsNoProblem ==
    None \notin {Problem(413, None), Invalid(None), "input", "encoding_format", "dimensions", "query", "documents", "top_n"}

\* A worker's refusal or failure.
WorkerProblem(outcome) ==
    IF outcome = "Busy" THEN Problem(503, <<"retry-after", "1">>) ELSE Problem(500, None)

-----------------------------------------------------------------------------
(* Vectors and scores.                                                     *)

L2Normalize(v) == [v EXCEPT !.unit = v.width]

\* Mutant: the shorter vector is not made a unit again.
TruncateOnly(v, n) == [v EXCEPT !.width = n]

TruncateRenormalize(v, n) == L2Normalize([v EXCEPT !.width = n])

EmbedRow(info, text) ==
    LET pooled == [of |-> text, weights |-> info.weights, tokenizer |-> info.tokenizer,
                   pooling |-> info.pooling, width |-> info.dim, unit |-> 0]
    IN IF info.output_dim # None THEN TruncateRenormalize(pooled, info.output_dim)
       ELSE IF info.normalized THEN L2Normalize(pooled)
       ELSE pooled

ReportedDim(info) == IF info.output_dim # None THEN info.output_dim ELSE info.dim

\* No truncation at all if it would cut nothing off.
Truncation(n, dim) == IF n < dim THEN n ELSE None

NTokens(info, words) == LET n == Tokens(words) IN IF n < info.max_seq_length THEN n ELSE info.max_seq_length

Usage(info, texts) == MapThenSumSet(LAMBDA i : NTokens(info, texts[i]), DOMAIN texts)

-----------------------------------------------------------------------------
(* POST /v1/embeddings.                                                    *)

Items(json) == IF json.is = "string" THEN <<json>> ELSE json.items

TextsOk(input, max_inputs) ==
    /\ input.is \in {"string", "array"}
    /\ Len(Items(input)) \in 1..max_inputs
    /\ \A i \in DOMAIN Items(input) : Items(input)[i].is = "string" /\ Items(input)[i].text # <<>>

\* The field refused, or None.
EmbeddingsRefusal(body, info) ==
    IF ~TextsOk(body.input, start.max_inputs) THEN "input"
    ELSE IF body.encoding_format \notin {None, "float", "base64"} THEN "encoding_format"
    ELSE IF body.dimensions # None
            /\ (~info.normalized \/ body.dimensions \notin 1..ReportedDim(info)) THEN "dimensions"
    ELSE None

Prefixed(input) == [i \in DOMAIN Items(input) |-> start.prefix \o Items(input)[i].text]

EmbeddingsReply(body, info, texts, dims) ==
    Ok([model |-> info.label,
        data |-> [i \in DOMAIN texts |->
            [index |-> i - 1,
             encoding |-> IF body.encoding_format = "base64" THEN "base64" ELSE "float",
             embedding |-> IF dims # None THEN TruncateRenormalize(EmbedRow(info, texts[i]), dims)
                           ELSE EmbedRow(info, texts[i])]],
        usage |-> Usage(info, texts)])

Embeddings(body, outcome, info) ==
    IF body.is # "embeddings" THEN Invalid(None)
    ELSE IF EmbeddingsRefusal(body, info) # None THEN Invalid(EmbeddingsRefusal(body, info))
    ELSE IF outcome # "answer" THEN WorkerProblem(outcome)
    ELSE EmbeddingsReply(body, info, Prefixed(body.input),
            IF body.dimensions = None THEN None ELSE Truncation(body.dimensions, ReportedDim(info)))

-----------------------------------------------------------------------------
(* POST /v1/rerank.                                                        *)

\* A string, or an object with one under `text`.
DocumentsOk(documents, max_inputs) ==
    /\ documents.is = "array"
    /\ Len(documents.items) \in 1..max_inputs
    /\ \A i \in DOMAIN documents.items :
          documents.items[i].is \in {"string", "object"} /\ documents.items[i].text \notin {None, <<>>}

RerankRefusal(body) ==
    IF body.query.is # "string" \/ body.query.text = <<>> THEN "query"
    ELSE IF ~DocumentsOk(body.documents, start.max_inputs) THEN "documents"
    ELSE IF body.top_n = 0 THEN "top_n"
    ELSE None

DocsOf(body) == [d \in DOMAIN body.documents.items |-> body.documents.items[d].text]

Pairs(query, documents) == [d \in DOMAIN documents |-> query \o documents[d]]

Scores(query, documents) == [i \in DOMAIN documents |-> Score(query, documents[i])]

\* Mutant: best first, but of two equal ones the later comes first.
AheadOrLater(scores, i, j) == scores[i] > scores[j] \/ (scores[i] = scores[j] /\ i > j)

\* Best first; equal scores keep their order.
Ahead(scores, i, j) == scores[i] > scores[j] \/ (scores[i] = scores[j] /\ i < j)

Ranked(scores) == CHOOSE order \in [DOMAIN scores -> DOMAIN scores] :
                     \A p, q \in DOMAIN scores : p < q => Ahead(scores, order[p], order[q])

Cut(seq, top_n) == IF top_n # None /\ top_n < Len(seq) THEN SubSeq(seq, 1, top_n) ELSE seq

\* Mutant: cut to top_n first, then ranked.
BestOfTheFirst(scores, top_n) == Ranked(Cut(scores, top_n))

Best(scores, top_n) == Cut(Ranked(scores), top_n)

\* `usage` counts every pair, those that top_n dropped too.
RerankReply(body, info, documents, scores) ==
    Ok([model |-> info.label,
        results |-> [k \in DOMAIN Best(scores, body.top_n) |->
            LET d == Best(scores, body.top_n)[k]
            IN [index |-> d - 1, relevance_score |-> scores[d],
                document |-> IF body.return_documents THEN documents[d] ELSE None]],
        usage |-> Usage(info, Pairs(body.query.text, documents))])

Rerank(body, outcome, info) ==
    IF body.is # "rerank" THEN Invalid(None)
    ELSE IF RerankRefusal(body) # None THEN Invalid(RerankRefusal(body))
    ELSE IF outcome # "answer" THEN WorkerProblem(outcome)
    ELSE RerankReply(body, info, DocsOf(body), Scores(body.query.text, DocsOf(body)))

-----------------------------------------------------------------------------
(* Routes.                                                                 *)

\* None: the whole body was read. A client may declare a length and send less.
ReadBody(req) ==
    IF req.declared # None /\ req.declared > start.max_body_bytes THEN Problem(413, None)
    ELSE IF req.sent > start.max_body_bytes THEN Problem(413, None)
    ELSE IF req.declared # None /\ req.sent < req.declared THEN Invalid(None)
    ELSE None

\* The models, the embedder first; an id is the first that has it.
ModelNamed(infos, id) ==
    LET named == {i \in DOMAIN infos : infos[i].label = id}
    IN IF named = {} THEN Problem(404, None) ELSE Ok(infos[Min(named)])

Gets(req) == req.method \in {"GET", "HEAD"}

Route(req, outcome, infos) ==
    CASE req.path = "/v1/models/" ->
            IF Gets(req) THEN ModelNamed(infos, req.id) ELSE MethodNotAllowed("GET, HEAD")
      [] req.path = "/v1/embeddings" /\ req.method = "POST" ->
            IF ReadBody(req) # None THEN ReadBody(req) ELSE Embeddings(req.body, outcome, infos[1])
      [] req.path = "/v1/rerank" /\ req.method = "POST" ->
            IF Len(infos) = 1 THEN Problem(404, None)
            ELSE IF ReadBody(req) # None THEN ReadBody(req) ELSE Rerank(req.body, outcome, infos[2])
      [] req.path = "/v1/models" /\ Gets(req) -> Ok(infos)
      [] req.path = "/health" /\ Gets(req) -> Ok([status |-> "ok", model |-> infos[1].label])
      [] req.path \in {"/v1/embeddings", "/v1/rerank"} /\ req.method # "POST" -> MethodNotAllowed("POST")
      [] req.path \in {"/v1/models", "/health"} /\ ~Gets(req) -> MethodNotAllowed("GET, HEAD")
      [] OTHER -> Problem(404, None)

\* One request, and what became of its place in the model's queue (ModelWorker).
\* It changes nothing for the next: one for each start is the bound here.
Handle(req, outcome) ==
    /\ pc = "up" /\ start.program = "kohagi-serve" /\ request = None
    /\ request' = [req |-> req, outcome |-> outcome]
    /\ reply' = Route(req, outcome, [i \in DOMAIN loaded |-> loaded[i].info])
    /\ UNCHANGED sourceVars

Next == \/ SourceNext /\ request' = None /\ reply' = None
        \/ \E req \in Requests, outcome \in {"answer", "Busy", "Gone", "Failed"} : Handle(req, outcome)

Spec == Init /\ [][Next]_apiVars

-----------------------------------------------------------------------------
(* Properties.                                                             *)

Asked(path) == request # None /\ request.req.path = path /\ request.req.method = "POST"
Whole(req) == /\ req.sent <= start.max_body_bytes
              /\ req.declared # None => req.declared = req.sent

\* The texts of a request for embeddings, and the dimensions it asks for.
TextsOf(body) == IF body.input.is = "string" THEN <<body.input>> ELSE body.input.items
RunDim == IF start.model.dims = None THEN loaded[1].info.config.hidden ELSE start.model.dims
DimOf(body) == IF body.dimensions = None THEN RunDim ELSE body.dimensions

\* One that is taken.
Taken(req) ==
    LET body == req.body IN
    /\ Whole(req) /\ body.is = "embeddings"
    /\ body.input.is \in {"string", "array"}
    /\ TextsOf(body) # <<>> /\ Len(TextsOf(body)) <= start.max_inputs
    /\ \A i \in DOMAIN TextsOf(body) : TextsOf(body)[i].is = "string" /\ TextsOf(body)[i].text # <<>>
    /\ body.encoding_format \in {None, "float", "base64"}
    /\ body.dimensions # None => DimOf(body) \in 1..RunDim /\ start.model.normalize

\* What `kohagi` gives with the flags of the embedder.
RunVector(text, n) ==
    LET info == loaded[1].info
    IN [of |-> text, weights |-> info.weights, tokenizer |-> info.tokenizer, pooling |-> info.pooling,
        width |-> n, unit |-> IF start.model.normalize THEN n ELSE 0]

\* /v1/embeddings answers a request whole or not at all: a 200 exactly for a
\* request it takes that the model answered, with one vector for each text, in
\* order, and that vector is what `kohagi` gives with the same flags for the text
\* with the prefix, at `--dims` of the request's `dimensions` when it has one; as
\* long as a vector it cuts was a unit, so is what it replies.
RepliesAreAsAsked ==
    Asked("/v1/embeddings") =>
        LET body == request.req.body
            data == reply.body.data
        IN /\ reply.status = 200 <=> (Taken(request.req) /\ request.outcome = "answer")
           /\ reply.status = 200 =>
                /\ DOMAIN data = DOMAIN TextsOf(body)
                /\ \A i \in DOMAIN data :
                     /\ data[i].index = i - 1
                     /\ data[i].embedding = RunVector(start.prefix \o TextsOf(body)[i].text, DimOf(body))

\* The results of a request, out of its documents.
AreRanked(results, body) ==
    LET docs == DocsOf(body)
        score == [d \in DOMAIN docs |-> Score(body.query.text, docs[d])]
        kept == {results[k].index + 1 : k \in DOMAIN results}
    IN /\ Len(results) = IF body.top_n = None \/ body.top_n > Len(docs) THEN Len(docs) ELSE body.top_n
       /\ kept \subseteq DOMAIN docs /\ Cardinality(kept) = Len(results)
       /\ \A k \in DOMAIN results :
            LET d == results[k].index + 1 IN
            /\ results[k].relevance_score = score[d]
            /\ results[k].document = IF body.return_documents THEN docs[d] ELSE None
            /\ \A e \in DOMAIN docs \ kept : score[e] < score[d] \/ (score[e] = score[d] /\ e > d)
       /\ \A j, k \in DOMAIN results : j < k =>
            \/ results[j].relevance_score > results[k].relevance_score
            \/ results[j].relevance_score = results[k].relevance_score /\ results[j].index < results[k].index

\* /v1/rerank gives each document it returns the score of its own pair with the
\* query, best first and equal ones in the order they came; those that top_n
\* leaves out score no better than any it keeps, and are counted in `usage`; the
\* query and the documents are the reranker's without the prefix.
RankedAsAsked ==
    Asked("/v1/rerank") /\ reply.status = 200 =>
        LET body == request.req.body
        IN /\ Len(loaded) = 2 /\ reply.body.model = loaded[2].info.label
           /\ AreRanked(reply.body.results, body)
           /\ reply.body.usage = Usage(loaded[2].info, Pairs(body.query.text, DocsOf(body)))
================================================================================
