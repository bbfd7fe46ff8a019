--------------------------- MODULE RequestParser ---------------------------
(***************************************************************************)
(* HttpRequest::from: the head of a request is read up to its blank line    *)
(* and taken apart (request line, urlencoded pairs, headers), and a content *)
(* of announced length is read into memory or a file.                       *)
(*                                                                         *)
(* Abstractions: a text is a sequence of characters and of words that the   *)
(* parser never looks into, each of length 1; the only escape is "%20"; the *)
(* blank line is found, or the search for it runs over the end of its chunk,*)
(* as StreamScan shows; an exception ends the parsing, whatever was parsed. *)
(* FormData goes on from "multipart".                                       *)
(***************************************************************************)
EXTENDS Integers, SequencesExt

CONSTANTS
  None,
  Words,       (* the characters and words of all texts                      *)
  Requests,    (* what clients ask for: [requestType, path, query, headers,  *)
               (* form, content]; query and form are sequences of pairs      *)
               (* <<key, value>>, whose value None stands for no '='         *)
  MayCut,      (* may the client end, or reset, its stream in the request?   *)
  Methods,     (* the words of three to six letters                          *)
  Numbers,     (* what std::stoll makes of a text, a function on numerals    *)
  HeadLimit,   (* MAX_HEADER_SIZE                                            *)
  FormLimit,   (* 2 MB                                                       *)
  MemoryLimit, (* BYTES_TO_STORE_IN_MEMORY                                   *)
  BufferSize,  (* BUFFER_SIZE                                                *)
  MaxUnread,   (* MAX_UNREAD_BYTES_COUNT                                     *)
  Junk         (* whatever lies behind the buffer                            *)

ASSUME ParserConstants ==
  /\ {HeadLimit, FormLimit, MemoryLimit, BufferSize, MaxUnread} \subseteq Nat \ {0}
  /\ \A text \in DOMAIN Numbers : Numbers[text] \in Nat
  /\ MayCut \in BOOLEAN
  /\ {" ", "\r", "\n", "?", "&", "=", ":", "%", "2", "0", "HTTP/1.1", Junk} \subseteq Words

(* Clients do not break lines within the parts of a head.                   *)
InLine == Seq(Words \ {"\r"})
AreTexts(ps) ==
  /\ Len(ps) \in Nat /\ DOMAIN ps = 1 .. Len(ps)
  /\ \A i \in DOMAIN ps : ps[i][1] \in InLine /\ (ps[i][2] = None \/ ps[i][2] \in InLine)
ASSUME RequestConstants ==
  \A r \in Requests :
    /\ r.requestType \in Words \ {"\r"} /\ r.path \in InLine /\ r.content \in Seq(Words)
    /\ AreTexts(r.query) /\ AreTexts(r.form) /\ AreTexts(r.headers)
    /\ \A i \in DOMAIN r.headers : r.headers[i][2] # None

VARIABLES
  stage,    (* where the parser is                                           *)
  text,     (* the head, then its header lines that are not parsed yet       *)
  pairs,    (* the urlencoded pairs that are not parsed yet                  *)
  request,  (* the HttpRequest                                               *)
  content,  (* the content read                                              *)
  pending,  (* nBytes, what is still to be read of it                        *)
  unread,   (* unreadBytes of the socket                                     *)
  wire,     (* what the client has sent and nobody has read                  *)
  asked,    (* history: the request the client means                         *)
  sent,     (* history: what it sends                                        *)
  garbled   (* history: did the search run over the end of its chunk?        *)

textVars == <<text, pairs>>
streamVars == <<unread, wire>>
history == <<asked, sent, garbled>>
vars == <<stage, textVars, request, content, pending, streamVars, history>>
-----------------------------------------------------------------------------
Smaller(a, b) == IF a < b THEN a ELSE b
Drop(s, n) == SubSeq(s, n + 1, Len(s))
First(s, word, from) == SelectInSubSeq(s, from, Len(s), LAMBDA w : w = word)

White == {" ", "\r", "\n"}
Trim(s) ==
  LET solid == {i \in DOMAIN s : s[i] \notin White}
  IN  IF solid = {} THEN <<>> ELSE SubSeq(s, Min(solid), Max(solid))

(* A map<string, vector<string>>.                                           *)
Get(map, key) == IF key \in DOMAIN map THEN map[key] ELSE <<>>
Grown(map, key, values) ==
  [k \in DOMAIN map \cup {key} |-> IF k = key THEN Get(map, key) \o values ELSE map[k]]
Touch(map, key) == Grown(map, key, <<>>)
Put(map, key, value) == Grown(map, key, <<value>>)

(* The request as clients write it.  A header is <<key, what follows ':'>>. *)
Pair(p) == p[1] \o (IF p[2] = None THEN <<>> ELSE <<"=">> \o p[2])
PairsText(ps) ==
  FlattenSeq([i \in DOMAIN ps |-> (IF i = 1 THEN <<>> ELSE <<"&">>) \o Pair(ps[i])])
HeadText(r) ==
  <<r.requestType, " ">> \o r.path
    \o (IF r.query = <<>> THEN <<>> ELSE <<"?">> \o PairsText(r.query))
    \o <<" ", "HTTP/1.1", "\r", "\n">>
    \o FlattenSeq([i \in DOMAIN r.headers |->
                     r.headers[i][1] \o <<":">> \o r.headers[i][2] \o <<"\r", "\n">>])
    \o <<"\r", "\n">>
ContentText(r) == PairsText(r.form) \o r.content

(* Nor do clients use separators, or escapes, in the parts they separate.   *)
Without(chars) == Seq(Words \ chars)
ArePairs(ps) ==
  \A i \in DOMAIN ps :
    /\ ps[i][1] \in Without({" ", "&", "=", "%"})
    /\ ps[i][2] = None \/ ps[i][2] \in Without({" ", "&", "%"})
ASSUME RequestSyntax ==
  \A r \in Requests :
    /\ r.path \in Without({" ", "?", "%"})
    /\ ArePairs(r.query) /\ ArePairs(r.form) /\ ~Contains(PairsText(r.form), "NUL")
    /\ \A i \in DOMAIN r.headers : r.headers[i][1] \in Without({":"})

(* urlDecode: every '+' grows to "%20" before the text is cut at length and *)
(* unescaped; length 0 means all of it.                                     *)
Expanded(s) ==
  FlattenSeq([i \in DOMAIN s |-> IF s[i] = "+" THEN <<"%", "2", "0">> ELSE <<s[i]>>])
EscapeAt(s, i) == i \in 1 .. Len(s) - 2 /\ SubSeq(s, i, i + 2) = <<"%", "2", "0">>
Unescaped(s) ==
  FlattenSeq([i \in DOMAIN s |->
    IF EscapeAt(s, i) THEN <<" ">>
    ELSE IF EscapeAt(s, i - 1) \/ EscapeAt(s, i - 2) THEN <<>> ELSE <<s[i]>>])
Cut(s, length) == IF length = 0 THEN s ELSE SubSeq(s, 1, Smaller(length, Len(s)))
Decoded_Whole(s, length) == Unescaped(Expanded(s))
Decoded(s, length) == Unescaped(Cut(Expanded(s), length))

Init ==
  /\ asked \in Requests
  /\ LET whole == HeadText(asked) \o ContentText(asked)
     IN  \E n \in 0 .. Len(whole) :
           (~MayCut => n = Len(whole)) /\ sent = SubSeq(whole, 1, n)
  /\ stage = "head" /\ text = <<>> /\ pairs = <<>>
  /\ request = [requestType |-> None, path |-> <<>>, GET |-> <<>>, HEADERS |-> <<>>,
                POST |-> <<>>, isFile |-> FALSE]
  /\ content = <<>> /\ pending = 0 /\ unread = <<>> /\ wire = sent /\ garbled = FALSE

Throw ==
  /\ stage' = "failed"
  /\ UNCHANGED <<textVars, request, content, pending, streamVars, history>>
-----------------------------------------------------------------------------
(* readUntilMatch of the blank line, whose last chunk may go beyond it; at  *)
(* the limit, or when the stream ends, the parser takes what there is.      *)
BlankLine == <<"\r", "\n", "\r", "\n">>
BlankLines ==
  {i \in 4 .. Smaller(Len(wire), HeadLimit) : SubSeq(wire, i - 3, i) = BlankLine}
PushedBack_None(end, upTo) == <<>>
PushedBack(end, upTo) == SubSeq(wire, end + 1, upTo)
HeadFound ==
  LET most == Smaller(Len(wire), HeadLimit)
      end == IF BlankLines = {} THEN most ELSE Min(BlankLines)
  IN  \E upTo \in end .. Smaller(most, end + BufferSize - 1) :
        /\ text' = SubSeq(wire, 1, end)
        /\ unread' = PushedBack(end, upTo)
        /\ wire' = Drop(wire, upTo)
        /\ stage' = "line"
        /\ UNCHANGED garbled

(* How much of a blank line the first n words end in; and whether its rest  *)
(* may lie behind a chunk of m words: left there, word by word, by chunks   *)
(* among the first a words, or beyond the buffer.                           *)
Begun(n) == {k \in 1 .. Smaller(3, n) : SubSeq(wire, n - k + 1, n) = SubSeq(BlankLine, 1, k)}
MayLieBehind(rest, m, a) ==
  \E at \in [1 .. Smaller(Len(rest), BufferSize - m) -> {j \in 1 .. a : wire[j] \in {"\r", "\n"}}] :
    \A i \in DOMAIN at :
      /\ at[i] >= m + i /\ wire[at[i]] = rest[i]
      /\ i + 1 \in DOMAIN at => at[i + 1] = at[i] + 1 \/ at[i] >= at[i + 1] + m + i
Overrun ==
  /\ garbled' = TRUE
  /\ \E n \in 1 .. Smaller(Len(wire), HeadLimit) : \E m \in 1 .. Smaller(n, BufferSize) :
       LET rest == Drop(BlankLine, Max(Begun(n)))
       IN  /\ Begun(n) # {} /\ BlankLines \cap 1 .. n = {}
           /\ wire' = Drop(wire, n)
           /\ text' = SubSeq(wire, 1, n) \o rest
           /\ MayLieBehind(rest, m, n - m)
  /\ unread' = [i \in 1 .. MaxUnread |-> Junk]
  /\ stage' \in {"line", "dead"}

ReadHead ==
  /\ stage = "head"
  /\ HeadFound \/ Overrun
  /\ UNCHANGED <<pairs, request, content, pending, asked, sent>>

(* Method, target and version.  The order of these checks and of the pairs  *)
(* of the query is not observable: an exception discards the request.       *)
RequestLine ==
  /\ stage = "line"
  /\ LET gap == First(text, " ", 1)
         gap2 == First(text, " ", gap + 1)
         eol == First(text, "\r", gap2 + 1)
         target == SubSeq(text, gap + 1, gap2 - 1)
         mark == First(target, "?", 1)
     IN  IF gap # 2 \/ text[1] \notin Methods \/ gap2 = 0 \/ eol = 0 \/ eol + 1 >= Len(text)
         THEN Throw
         ELSE /\ stage' = IF mark = 0 THEN "headers" ELSE "query"
              /\ pairs' = IF mark = 0 THEN <<>> ELSE Drop(target, mark)
              /\ text' = Drop(text, eol + 1)
              /\ request' = [request EXCEPT !.requestType = text[1],
                    !.path = Decoded(target, IF mark = 0 THEN 0 ELSE mark - 1)]
              /\ UNCHANGED <<content, pending, streamVars, history>>

(* One turn of the loop of parseUrlEncodedPairs: the next '=' may lie       *)
(* beyond the next '&'; the value is then the rest, since its length is     *)
(* negative.                                                                *)
Ampersand == First(pairs, "&", 1)
Equals_Last == SelectLastInSeq(pairs, LAMBDA w : w = "=")
Equals == First(pairs, "=", 1)
PairKey ==
  Decoded(IF Equals # 0 THEN SubSeq(pairs, 1, Equals - 1)
          ELSE IF Ampersand # 0 THEN SubSeq(pairs, 1, Ampersand - 1) ELSE pairs, 0)
PairValue ==
  Decoded(SubSeq(pairs, Equals + 1, IF Ampersand > Equals THEN Ampersand - 1 ELSE Len(pairs)), 0)
PairInto(map) == IF Equals # 0 THEN Put(map, PairKey, PairValue) ELSE Touch(map, PairKey)
TakePair ==
  /\ stage \in {"query", "form"}
  /\ request' = IF stage = "query" THEN [request EXCEPT !.GET = PairInto(@)]
                ELSE [request EXCEPT !.POST = PairInto(@)]
  /\ stage' = IF Ampersand # 0 THEN stage ELSE IF stage = "query" THEN "headers" ELSE "done"
  /\ pairs' = IF Ampersand # 0 THEN Drop(pairs, Ampersand) ELSE <<>>
  /\ UNCHANGED <<text, content, pending, streamVars, history>>

(* One turn of the loop of parseHttpHeader: the value begins two characters *)
(* behind the ':', and is the rest when it ends before that.                *)
HeaderValue(colon, eol) ==
  Trim(SubSeq(text, colon + 2, IF eol > colon + 1 THEN eol - 1 ELSE Len(text)))
AfterLine_Cr(eol) == Drop(text, eol)
AfterLine(eol) == Drop(text, eol + 1)
TakeHeader ==
  /\ stage = "headers"
  /\ LET colon == First(text, ":", 1)
         eol == First(text, "\r", colon)
     IN  CASE colon = 0 ->
                /\ stage' = "content"
                /\ UNCHANGED <<text, request>>
           [] colon # 0 /\ eol = 0 ->
                stage' = "failed" /\ UNCHANGED <<text, request>>
           [] OTHER ->
                /\ request' = [request EXCEPT !.HEADERS =
                     Put(@, SubSeq(text, 1, colon - 1), HeaderValue(colon, eol))]
                /\ text' = AfterLine(eol)
                /\ UNCHANGED stage
  /\ UNCHANGED <<pairs, content, pending, streamVars, history>>
-----------------------------------------------------------------------------
(* extractRequestDataConditionally.                                         *)
Values(word) == Get(request.HEADERS, <<word>>)
Typed == Values("Content-Type") # <<>>
Type == IF Typed THEN Values("Content-Type")[1] ELSE <<>>
Urlencoded == Type = <<"application/x-www-form-urlencoded">>
Multipart == First(Type, "multipart/form-data;", 1) # 0
Sized == Values("Content-Length") # <<>>
Length == IF Sized /\ Values("Content-Length")[1] \in DOMAIN Numbers
          THEN Numbers[Values("Content-Length")[1]] ELSE None

NoContent ==
  /\ stage = "content"
  /\ ~Typed \/ (~Multipart /\ (~Sized \/ Length = 0))
  /\ stage' = "done"
  /\ UNCHANGED <<textVars, request, content, pending, streamVars, history>>
BadContent ==
  /\ stage = "content" /\ Typed
  /\ \/ Multipart /\ First(Type, "boundary=", 1) = 0
     \/ ~Multipart /\ Sized /\ Length = None
     \/ Urlencoded /\ Length # None /\ Length >= FormLimit
  /\ Throw
(* The quotation mark behind a quoted boundary stays.                       *)
FormContent ==
  /\ stage = "content" /\ Multipart /\ First(Type, "boundary=", 1) # 0
  /\ LET boundary == Drop(Type, First(Type, "boundary=", 1))
     IN  content' = IF IsPrefix(<<"\"">>, boundary) THEN Tail(boundary) ELSE Trim(boundary)
  /\ stage' = "multipart"
  /\ UNCHANGED <<textVars, request, pending, streamVars, history>>
SizedContent ==
  /\ stage = "content" /\ Typed /\ ~Multipart /\ Sized
  /\ Length \notin {None, 0} /\ (Urlencoded => Length < FormLimit)
  /\ pending' = Length
  /\ stage' = IF Urlencoded \/ Length < MemoryLimit THEN "exact" ELSE "file"
  /\ UNCHANGED <<textVars, request, content, streamVars, history>>

(* The loops of readExact, which appends a chunk as a C string, and of      *)
(* FileOrString::readFrom.                                                  *)
Ask_Whole == BufferSize
Ask == Smaller(BufferSize, pending)
Chunks ==
  IF unread # <<>> THEN {SubSeq(unread, 1, Smaller(Ask, Len(unread)))}
  ELSE {SubSeq(wire, 1, k) : k \in 1 .. Smaller(Ask, Len(wire))}
UpToNul(chunk) ==
  IF First(chunk, "NUL", 1) = 0 THEN chunk ELSE SubSeq(chunk, 1, First(chunk, "NUL", 1) - 1)
Counted_Text(chunk) == Len(UpToNul(chunk))
Counted(chunk) == Len(chunk)
ReadChunk ==
  /\ stage \in {"exact", "file"} /\ pending > 0
  /\ \E chunk \in Chunks :
       /\ content' = content \o (IF stage = "exact" THEN UpToNul(chunk) ELSE chunk)
       /\ pending' = pending - Counted(chunk)
       /\ unread' = IF unread # <<>> THEN Drop(unread, Len(chunk)) ELSE <<>>
       /\ wire' = IF unread # <<>> THEN wire ELSE Drop(wire, Len(chunk))
  /\ UNCHANGED <<stage, textVars, request, history>>

(* What has been read is the content.                                       *)
HandOn ==
  /\ stage' = IF Urlencoded THEN "form" ELSE "done"
  /\ pairs' = IF Urlencoded THEN content ELSE <<>>
  /\ request' = [request EXCEPT !.isFile = (stage = "file")]
  /\ UNCHANGED <<text, content, pending, streamVars, history>>
ContentRead ==
  /\ stage \in {"exact", "file"} /\ pending <= 0
  /\ HandOn

(* A stream that ends early gives 0 bytes for ever, and a silent one none.  *)
(* One that is reset (or whose number another handler has closed) gives -1, *)
(* which ends the loops as well.                                            *)
Starved == stage \in {"exact", "file"} /\ pending > 0 /\ unread = <<>> /\ wire = <<>>
Starve == Starved /\ UNCHANGED vars
Reset == MayCut /\ Starved /\ HandOn

Ended == stage \in {"done", "multipart", "failed", "dead"}
Rest == Ended /\ UNCHANGED vars

Parse ==
  \/ ReadHead \/ RequestLine \/ TakePair \/ TakeHeader
  \/ NoContent \/ BadContent \/ FormContent \/ SizedContent
  \/ ReadChunk \/ ContentRead
Next == Parse \/ Starve \/ Reset \/ Rest

(* The handler's thread is scheduled: it goes on for ever, or comes to its   *)
(* end or to a wait for more content.  Parse can change something in all     *)
(* other states, so that this is WF_vars(Parse) in a form that TLC checks in *)
(* seconds.  The client need not reset its stream.                           *)
Spec == Init /\ [][Next]_vars
FairSpec == Spec /\ ([]<>(Ended \/ Starved) \/ []<><<TRUE>>_vars)
-----------------------------------------------------------------------------
Parsed == stage \in {"done", "multipart"}
HeadSent == Smaller(Len(HeadText(asked)), Smaller(Len(sent), HeadLimit))
HeadWhole == HeadSent = Len(HeadText(asked))
(* What a sequence of <<key, values>> means: the values by key, in order.   *)
Grouped(ps) ==
  [key \in {ps[i][1] : i \in DOMAIN ps} |->
     FlattenSeq([i \in DOMAIN ps |-> IF ps[i][1] = key THEN ps[i][2] ELSE <<>>])]
Plainly(s) == [i \in DOMAIN s |-> IF s[i] = "+" THEN " " ELSE s[i]]
Meant(ps) ==
  Grouped([i \in DOMAIN ps |-> << Plainly(ps[i][1]),
             IF ps[i][2] = None THEN <<>> ELSE << Plainly(ps[i][2]) >> >>])
Paired(ps) == \A i \in DOMAIN ps : ps[i][2] = None => i = Len(ps)

(* Sizes: what is pushed back fits in a buffer, or fills the descriptor when *)
(* the search ran over its end, and never is more read than announced.      *)
TypeOK ==
  /\ stage \in {"head", "line", "query", "headers", "content", "exact", "file", "form",
                "done", "multipart", "failed", "dead"}
  /\ pending \in Nat /\ Len(unread) < (IF garbled THEN MaxUnread + 1 ELSE BufferSize)

(* Every value of the query is under its key, decoded and in the order of   *)
(* the request, as long as no pair but the last lacks its '='; and so is    *)
(* every value of a form announced as long as it is, once it has arrived.   *)
PairsKept ==
  /\ Parsed /\ Paired(asked.query) => request.GET = Meant(asked.query)
  /\ stage = "done" /\ Urlencoded /\ Sized /\ HeadWhole /\ Paired(asked.form)
       /\ Length # 0 /\ asked.content = <<>> /\ Length = Len(ContentText(asked))
       /\ Length <= Len(sent) - HeadSent /\ ~garbled =>
         request.POST = Meant(asked.form)

(* The headers of a request are those of its client, by key and in order,   *)
(* and of a head that is cut off or too long, or over the end of whose chunk *)
(* the search runs, a beginning: none is made up.                           *)
FirstHeaders(n) ==
  Grouped([i \in 1 .. n |-> << asked.headers[i][1], << Trim(asked.headers[i][2]) >> >>])
Blanked == \A i \in DOMAIN asked.headers : IsPrefix(<<" ">>, asked.headers[i][2])
HeadersKept ==
  Parsed /\ Blanked =>
    \E n \in DOMAIN asked.headers \cup {0} :
      /\ HeadWhole /\ ~garbled => n = Len(asked.headers)
      /\ request.HEADERS = FirstHeaders(n)

(* The path is the client's, decoded, without the query, unless it is empty *)
(* or has a '+' and a query.                                                *)
PathKept ==
  Parsed /\ (asked.query = <<>> \/ (asked.path # <<>> /\ ~Contains(asked.path, "+"))) =>
    request.path = Plainly(asked.path)

(* A content of announced length is the bytes behind the head, in a file or *)
(* in memory by its size alone, all of them unless a NUL is kept in memory; *)
(* what follows them is left on the stream.  Of a stream that is reset it   *)
(* is what has arrived.                                                     *)
ContentKept ==
  stage = "done" /\ Typed /\ Sized /\ ~Multipart /\ HeadWhole /\ ~garbled =>
    LET body == Drop(sent, HeadSent)
        size == Smaller(Length, Len(body))
        mine == SubSeq(body, 1, size)
    IN  /\ unread \o wire = Drop(body, size)
        /\ request.isFile <=> Length >= MemoryLimit /\ ~Urlencoded
        /\ request.isFile \/ ~Contains(mine, "NUL") => content = mine

(* The parser comes to an end with every request, unless it waits for a     *)
(* content that is shorter than announced.                                  *)
Concludes ==
  <>(Ended \/ (stage \in {"exact", "file"} /\ Length > Len(sent) - HeadSent))
=============================================================================
