------------------------------ MODULE Locators ------------------------------
(***************************************************************************)
(* Where remote bytes come from: the Locator trait and its implementations  *)
(* (fetch.rs, http_locator.rs, ipfs_locator.rs, s3_locator.rs).  A resource  *)
(* is a sequence of bytes.  An answer is [ok, bytes].  A URI is [scheme,     *)
(* rest], where rest says only what the code distinguishes.                  *)
(***************************************************************************)
EXTENDS Integers, Sequences

CONSTANTS
    MaxU64,      \* u64::MAX
    CutPoints    \* after how many bytes a connection may be cut

Ok(bytes) == [ok |-> TRUE, bytes |-> bytes]

Err == [ok |-> FALSE, bytes |-> <<>>]

Least(a, b) == IF a < b THEN a ELSE b

\* data[from..to], byte offsets from 0.
Slice(data, from, to) == SubSeq(data, from + 1, to)

ClampedSlice(data, offset, length) ==
    LET start == Least(offset, Len(data)) IN Slice(data, start, Least(start + length, Len(data)))

----------------------------------------------------------------------------
(* HTTP.  The server and the connection are external: a server may honour    *)
(* the range (206), ignore it (200), find it past the end (416), or fail;    *)
(* the connection may be cut after any part of the body.  "frame" says how   *)
(* the body's end is marked.                                                 *)

Frames == {"content-length", "chunked", "close"}

Statuses(data, range) ==
    (IF range[1] > range[2] THEN {} ELSE IF range[1] >= Len(data) THEN {416} ELSE {206}) \cup {200}

Body(data, range, status) ==
    CASE status = 200 -> data
      [] status = 206 -> Slice(data, range[1], Least(range[2] + 1, Len(data)))
      [] OTHER -> <<>>

\* What the server may send and how much of the body arrives.  How the end of a body is marked makes no difference
\* to a body that arrives whole.
Responses(data, range, faulty) ==
    IF faulty THEN {[status |-> s, frame |-> f, body |-> Body(data, range, s), arrived |-> n] :
                       s \in Statuses(data, range) \cup {404, 503}, f \in Frames, n \in CutPoints}
    ELSE {[status |-> s, frame |-> "content-length", body |-> Body(data, range, s), arrived |-> Len(data)] :
             s \in Statuses(data, range)}

Whole(r) == r.arrived >= Len(r.body)

\* Mutant: whatever arrives before the connection closes is the body.
read_response_to_end(r) == Ok(SubSeq(r.body, 1, Least(r.arrived, Len(r.body))))

\* read_response and read_chunked: a counted body is read exactly, an uncounted one to the end of the stream.
read_response(r) ==
    IF Whole(r) THEN Ok(r.body)
    ELSE IF r.frame = "close" THEN Ok(SubSeq(r.body, 1, r.arrived))
    ELSE Err

into_body(r) == IF r.status \in {200, 206} THEN read_response(r) ELSE Err

\* "bytes={offset}-{end}"
RangeHeader(offset, length) == <<offset, IF offset + length = 0 THEN 0 ELSE offset + length - 1>>

\* Mutant: the body of a server that ignored the range is not cut.
http_fetch_range_unsliced(offset, length, r) ==
    IF offset + length > MaxU64 THEN Err ELSE IF r.status = 416 THEN Ok(<<>>) ELSE into_body(r)

http_fetch_range(offset, length, r) ==
    CASE offset + length > MaxU64 -> Err
      [] r.status = 200 /\ offset + length <= MaxU64 ->
            LET body == into_body(r) IN IF body.ok THEN Ok(ClampedSlice(body.bytes, offset, length)) ELSE Err
      [] r.status = 206 /\ offset + length <= MaxU64 -> into_body(r)
      [] r.status = 416 /\ offset + length <= MaxU64 -> Ok(<<>>)
      [] OTHER -> Err

\* parse_http_url: https is accepted, and spoken in the clear.
parse_http_url(uri) == uri.scheme \in {"http", "https"} /\ uri.rest \notin {"no authority", "bad port"}

\* IpfsLocator::translate and S3Locator::translate; an endpoint is a URI.
ipfs_translate(gateway, uri) ==
    IF uri.scheme # "ipfs" \/ uri.rest = "" THEN [scheme |-> "", rest |-> ""] ELSE gateway

s3_translate(endpoint, uri) ==
    IF uri.scheme # "s3" \/ uri.rest \in {"", "no key"} THEN [scheme |-> "", rest |-> ""] ELSE endpoint

\* FileLocator::resolve
resolve(uri) == uri.scheme = "file" /\ uri.rest \notin {"", "path"}

----------------------------------------------------------------------------
(* A locator is [kind, gateway]; its scheme() is its kind.                    *)

HttpUri(loc, uri) ==
    CASE loc.kind = "http" -> uri
      [] loc.kind = "ipfs" -> ipfs_translate(loc.gateway, uri)
      [] loc.kind = "s3" -> s3_translate(loc.gateway, uri)

UsesHttp(loc) == loc.kind \in {"http", "ipfs", "s3"}

\* A request without a Range header: the whole resource, with status 200.
NoRange == <<1, 0>>

fetch(loc, uri, data, r) ==
    IF UsesHttp(loc) THEN (IF parse_http_url(HttpUri(loc, uri)) THEN into_body(r) ELSE Err)
    ELSE IF resolve(uri) THEN Ok(data) ELSE Err

fetch_range(loc, uri, data, offset, length, r) ==
    IF UsesHttp(loc) THEN (IF parse_http_url(HttpUri(loc, uri)) THEN http_fetch_range(offset, length, r) ELSE Err)
    ELSE LET got == fetch(loc, uri, data, r) IN IF got.ok THEN Ok(ClampedSlice(got.bytes, offset, length)) ELSE Err

\* MultiLocator::fetch asks the first locator of the URI's scheme; its fetch_range is the trait's default.
Registered(locs, uri) == SelectSeq(locs, LAMBDA l : l.kind = uri.scheme)

multi_fetch_range(locs, uri, data, offset, length, r) ==
    IF Registered(locs, uri) = <<>> THEN Err
    ELSE LET got == fetch(Registered(locs, uri)[1], uri, data, r)
         IN IF got.ok THEN Ok(ClampedSlice(got.bytes, offset, length)) ELSE Err
=============================================================================
