------------------------------ MODULE Content -------------------------------
(***************************************************************************)
(* One email on its way into a room: its body rendered and posted, its     *)
(* attachments posted after it, and its images loaded on request by        *)
(* editing the message (services/content.rs, services/images.rs), with the *)
(* quote a reply carries (sender.rs).                                      *)
(*                                                                         *)
(* The sender writes an HTML body out of Fragments and containers, a plain *)
(* one line by line, or both.  Sizes are counted in tokens and lines.      *)
(***************************************************************************)
EXTENDS HtmlBody, FiniteSets

CONSTANTS
    Fragments,    \* pieces of well-formed HTML a body is made of
    Containers,   \* elements a body opens around fragments
    MaxParts,     \* bound: fragments, containers and lines next to HTML
    MaxLines,     \* bound: lines of a plain body
    RenderMode,   \* "plain", "links" or "rich"
    Budget,       \* MATRIX_BODY_BUDGET
    NoticeLen,    \* length of MATRIX_TRUNCATION_NOTICE
    MaxImages,    \* MAX_IMAGES
    Attachments,  \* bound: attachments of an email
    Loads         \* image loads that can run at the same time

\* What a sender writes: the marks and the mxc:// sources are the bridge's.
Sent == Tokens \ ({"mark"} \cup Urls)

ASSUME ContentAssumption ==
    /\ RenderMode \in {"plain", "links", "rich"}
    /\ NoticeLen \in Nat /\ Budget \in Nat /\ NoticeLen <= Budget
    /\ MaxParts \in Nat /\ MaxImages \in Nat /\ Attachments \in Nat
    /\ Containers \subseteq Opens
    /\ Fragments \subseteq Seq(Sent)

VARIABLES
    doc,          \* the HTML body
    open,         \* the containers still open while it is written
    lines,        \* the plain body
    kind,         \* how the server presents the parts; "none" while written
    parts,        \* fragments and containers used
    html,         \* formatted_body of the message: <<>> or <<tokens>>
    plain,        \* body of the message
    cut,          \* plain was truncated
    edited,       \* the message was edited to show images
    waiting,      \* attachments not posted yet
    chain,        \* events of the email in the room, each with its reply-to
    latest,       \* threads.latest_event_id
    load,         \* [Loads -> addresses still to fetch, or <<"off">>]
    fetched       \* [Loads -> addresses fetched and uploaded]

written == <<doc, open, lines, kind, parts>>
message == <<html, plain, cut, edited>>
files   == <<waiting, chain, latest>>
vars    == <<written, message, files, load, fetched>>

None == <<>>
Off  == <<"off">>

Prose   == Texts
Quoted  == "> "
Attr    == "On ... wrote:"
Divider == "-----original message-----"
Empty   == ""
LineKinds == Prose \cup {Quoted, Attr, Divider, Empty}

Init ==
    /\ doc = <<>> /\ open = <<>> /\ lines = <<>> /\ parts = 0
    /\ kind = "none" /\ html = None /\ plain = <<>> /\ cut = FALSE
    /\ edited = FALSE
    /\ waiting \in 0..Attachments
    /\ chain = <<>> /\ latest = 0
    /\ load = [l \in Loads |-> Off]
    /\ fetched = [l \in Loads |-> {}]

-----------------------------------------------------------------------------
(* The sender.                                                             *)

Writing == kind = "none" /\ UNCHANGED <<kind, message, files, load, fetched>>

\* What the HTML parser keeps where it is: no link in a link, no block in a
\* paragraph, no list item in a list item.
Fits(t) ==
    /\ t = "a" => ~Contains(open, "a")
    /\ t \in Bracket(Blocks) \cup {"div", "tr", "td", "cite"}
          => ~Contains(open, "p") /\ ~Contains(open, "h")
    /\ t = "li" => ~Contains(open, "li")

WriteFragment(f) ==
    /\ Writing /\ parts + Len(lines) < MaxParts
    /\ \A i \in DOMAIN f : Fits(f[i])
    /\ doc' = doc \o f /\ parts' = parts + 1
    /\ UNCHANGED <<open, lines>>

OpenContainer(t) ==
    /\ Writing /\ parts + Len(lines) < MaxParts
    /\ Fits(t)
    /\ doc' = Append(doc, t) /\ open' = Append(open, t)
    /\ parts' = parts + 1
    /\ UNCHANGED lines

CloseContainer ==
    /\ Writing /\ open # <<>>
    /\ doc' = Append(doc, CloseOf[Last(open)]) /\ open' = Front(open)
    /\ UNCHANGED <<lines, parts>>

WriteLine(x) ==
    /\ Writing /\ doc = <<>> /\ Len(lines) < MaxLines
    /\ lines' = Append(lines, x)
    /\ UNCHANGED <<doc, open, parts>>

-----------------------------------------------------------------------------
(* The plain body.                                                         *)

\* Everything from the first attribution line on goes.
AboveQuote(s) ==
    LET end == SelectInSeq(s, LAMBDA x : x \in {Attr, Divider})
    IN  IF end = 0 THEN s ELSE SubSeq(s, 1, end - 1)

strip_quoted_reply(s) == TrimEnd(AboveQuote(s), {Empty})

\* The quote a reply carries: an attribution and the original, each line
\* with a "> " before it.
format_reply_quote(body) ==
    <<Attr>> \o [i \in DOMAIN body |-> Quoted]

\* reply_to_email: body, an empty line, the quote.
quoted_body(body, original) ==
    body \o <<Empty>> \o format_reply_quote(original)

\* Runs of empty lines become one, none at either end.
normalize_plain(s) ==
    LET Keep(i) == s[i] = Empty => At(s, i - 1) # Empty
    IN  TrimStart(TrimEnd(KeepAt(s, Keep), {Empty}), {Empty})

\* html2text: the visible text of the HTML.
html2text(s) == Only(s, Texts)

\* The parts of an email as JMAP presents them: "both" has a text/plain and a
\* text/html part; with only one of them textBody and htmlBody fall back to
\* it.  "islands" is a text/plain part that holds HTML markup.  For an email
\* with no part at all the code takes the subject: a plain one of one line.
Kinds == {"plain", "html", "islands", "both"}

\* Mutant: the content type of htmlBody is not looked at.
HtmlUnguarded(k) == TRUE

html_candidate(k) ==
    \/ k \in {"html", "both"}   \* content_type = text/html
    \/ k = "islands"            \* looks_like_html

plain_candidate(k) == k \in {"plain", "both"}

-----------------------------------------------------------------------------
(* Posting.                                                                *)

Size(h) == IF h = None THEN 0 ELSE Len(h[1])

\* Mutant: an oversized formatted body stays.
KeepOversized(p, h) ==
    IF Len(p) <= Budget
      THEN {[plain |-> p, cut |-> FALSE, html |-> h]}
      ELSE {[plain |-> <<>>, cut |-> TRUE, html |-> h]}

\* Together within the budget: an oversized formatted body is dropped, the
\* plain body is truncated to what is left and gets the notice (clamp_utf8
\* may cut further back, at a blank).
clamp_to_matrix_limit(p, h) ==
    LET kept      == IF Size(h) > Budget THEN None ELSE h
        allowance == Budget - Size(kept)
        keep      == IF allowance > NoticeLen THEN allowance - NoticeLen
                                              ELSE 0
    IN  IF Len(p) <= allowance
          THEN {[plain |-> p, cut |-> FALSE, html |-> kept]}
          ELSE {[plain |-> SubSeq(p, 1, n), cut |-> TRUE, html |-> kept] :
                    n \in 0..keep}

\* EmailBody::from_email: the bodies an email can get.
from_email(k, mode) ==
    LET raw == IF plain_candidate(k) THEN lines ELSE html2text(doc)
        p   == normalize_plain(strip_quoted_reply(raw))
        h   == IF mode # "plain" /\ html_candidate(k)
                 THEN <<sanitize_for_matrix(doc, mode)>> ELSE None
    IN  clamp_to_matrix_limit(p, h)

\* The message posted for the email.
PostBody(k) ==
    /\ kind = "none" /\ open = <<>>
    /\ (k = "plain") = (doc = <<>>)
    /\ lines = <<>> \/ plain_candidate(k)
    /\ kind' = k
    /\ \E m \in from_email(k, RenderMode) :
          html' = m.html /\ plain' = m.plain /\ cut' = m.cut
    /\ chain' = <<0>> /\ latest' = 1
    /\ UNCHANGED <<doc, open, lines, parts, edited, waiting, load, fetched>>

\* One attachment of handle_attachments: the new event answers the one before
\* it, and the thread's latest event follows unless the store fails.
PostAttachment ==
    /\ kind # "none" /\ waiting > 0
    /\ waiting' = waiting - 1
    /\ chain' = Append(chain, Len(chain))
    /\ latest' \in {latest, Len(chain) + 1}
    /\ UNCHANGED <<written, message, load, fetched>>

\* Too large, no credentials, download, upload or send failed: skipped.
SkipAttachment ==
    /\ kind # "none" /\ waiting > 0
    /\ waiting' = waiting - 1
    /\ UNCHANGED <<written, message, chain, latest, load, fetched>>

-----------------------------------------------------------------------------
(* Loading images.                                                         *)

\* inline_email_images: the images that are worth it, capped.
candidates ==
    LET found == extract_remote_images(doc)
        Keep(i) == ~found[i].is_decorative
        all  == KeepAt(found, Keep)
        urls == [i \in DOMAIN all |-> all[i].url]
    IN  SubSeq(urls, 1, IF Len(urls) < MaxImages THEN Len(urls)
                                                  ELSE MaxImages)

\* The reaction, or show-images, by a user who may use the bridge and is
\* logged in, on a message whose email has HTML and something to load.
LoadImages(l) ==
    /\ kind # "none" /\ load[l] = Off
    /\ html_candidate(kind) /\ candidates # <<>>
    /\ load' = [load EXCEPT ![l] = candidates]
    /\ fetched' = [fetched EXCEPT ![l] = {}]
    /\ UNCHANGED <<written, message, files>>

\* fetch_and_upload; a failure is logged and the image skipped.
FetchImage(l, ok) ==
    /\ load[l] \notin {Off, <<>>}
    /\ load' = [load EXCEPT ![l] = Tail(@)]
    /\ fetched' = [fetched EXCEPT
                     ![l] = IF ok THEN @ \cup {Head(load[l])} ELSE @]
    /\ UNCHANGED <<written, message, files>>

\* The message is edited to show what was fetched, next to the plain body
\* rendered again, without a limit on the two together; nothing fetched, or
\* the edit refused, leaves it as it is.
EditMessage(l, sent) ==
    /\ load[l] = <<>>
    /\ load' = [load EXCEPT ![l] = Off]
    /\ IF sent /\ fetched[l] # {}
         THEN \E m \in from_email(kind, "plain") :
                /\ html' = <<render_inline_images(doc, fetched[l])>>
                /\ plain' = m.plain /\ cut' = m.cut
                /\ edited' = TRUE
         ELSE UNCHANGED message
    /\ UNCHANGED <<written, files, fetched>>

-----------------------------------------------------------------------------

Next ==
    \/ \E f \in Fragments : WriteFragment(f)
    \/ \E t \in Containers : OpenContainer(t)
    \/ CloseContainer
    \/ \E x \in LineKinds : WriteLine(x)
    \/ \E k \in Kinds : PostBody(k)
    \/ PostAttachment
    \/ SkipAttachment
    \/ \E l \in Loads :
          \/ LoadImages(l)
          \/ \E b \in BOOLEAN : FetchImage(l, b) \/ EditMessage(l, b)

Spec == Init /\ [][Next]_vars

-----------------------------------------------------------------------------
(* Properties.                                                             *)

Posted == kind # "none"

\* Types; and HTML is only posted for an email that has some, with the
\* first event of the thread.
TypeOK ==
    /\ doc \in Seq(Sent) /\ open \in Seq(Containers)
    /\ lines \in Seq(LineKinds) /\ kind \in Kinds \cup {"none"}
    /\ parts \in 0..MaxParts
    /\ html = None \/ html[1] \in Seq(Tokens)
    /\ plain \in Seq(LineKinds) /\ cut \in BOOLEAN /\ edited \in BOOLEAN
    /\ html # None => kind \in {"html", "islands", "both"}
    /\ waiting \in 0..Attachments
    /\ chain \in Seq(Nat) /\ latest \in 0..Len(chain)
    /\ Posted = (chain # <<>>)
    /\ load \in [Loads -> {Off} \cup Seq(Urls)]
    /\ fetched \in [Loads -> SUBSET Urls]

\* Token i of s lies in a quoted reply: some marked blockquote before it is
\* not closed again before it.
Cited(s, i) ==
    \E j \in 1..i :
        /\ s[j] = "cite"
        /\ \A k \in j..(i - 1) :
              LET seg == SubSeq(s, j, k)
              IN  Len(Only(seg, Quotes)) > Len(Only(seg, {"/quote"}))

Own(s) == LET Keep(i) == ~Cited(s, i) IN KeepAt(s, Keep)

\* Twelve passes rewrite the HTML, before and after the sanitizer, and an
\* image load does it again on the original.  However they interact, what is
\* posted holds exactly the text the sender wrote outside the quoted reply,
\* in its order (sanitize_for_matrix, render_inline_images).
HtmlKept == html # None => Only(html[1], Texts) = Only(Own(doc), Texts)

\* The lines of a text part above the first attribution line; without one,
\* the text of the HTML.
OwnLines ==
    IF kind \in {"plain", "both"} THEN AboveQuote(lines) ELSE Only(doc, Texts)

Filled(s) == Only(s, LineKinds \ {Empty})

NoGap(s) == \A i \in 2..Len(s) : s[i] = Empty => s[i - 1] # Empty

\* The plain body is the sender's own prose, whole unless it ends in the
\* truncation notice, with no two empty lines in a row.
PlainKept ==
    Posted =>
        /\ NoGap(plain)
        /\ IF cut THEN IsPrefix(Filled(plain), Filled(OwnLines))
                  ELSE Filled(plain) = Filled(OwnLines)

\* The quote the bridge puts under a reply is taken off again when that reply
\* comes back, however the original looks.
QuoteComesOff ==
    \A text \in {plain, OwnLines} :
        (\A i \in DOMAIN text : text[i] \notin {Attr, Divider})
        => strip_quoted_reply(quoted_body(text, lines))
             = TrimEnd(text, {Empty})

\* Both bodies carry the sender's own text, whole and in order, and a reply
\* with the bridge's quote under it comes back as what was typed
\* (strip_quoted_reply, format_reply_quote, normalize_plain).
TextKept == HtmlKept /\ PlainKept /\ QuoteComesOff

\* The position of the n-th piece of text of s.
TextAt(s, n) ==
    CHOOSE i \in DOMAIN s :
        s[i] \in Texts /\ Len(Only(SubSeq(s, 1, i), Texts)) = n

\* Text of two table cells, or of two rows, is never glued together: the
\* tags that kept it apart are dropped, and what takes their place has to
\* survive the passes that prune, collapse and trim (separate_table_blocks).
CellsApart ==
    html # None =>
        LET own == Own(doc)
            out == html[1]
            CellEnds(n) ==
                \E k \in TextAt(own, n)..TextAt(own, n + 1) :
                    own[k] \in {"/td", "/tr"}
        IN  \A n \in 1..(Len(Only(own, Texts)) - 1) :
                CellEnds(n) => TextAt(out, n + 1) # TextAt(out, n) + 1

\* A mark in the message stands for an image the reaction loads: in an email
\* that quotes nothing, repeats no image and stays below the cap, the marks
\* are as many as the images a load would fetch.  The marks are set on the
\* HTML without its quotes, image by image; the load looks at the original,
\* address by address (placeholder_remote_images, extract_remote_images).
MarksMatchLoads ==
    /\ html # None /\ RenderMode = "links" /\ ~edited
    /\ ~Contains(doc, "cite") /\ Len(candidates) < MaxImages
    /\ \A i, j \in DOMAIN doc :
          /\ doc[i] \in Images /\ doc[j] \in Images
          /\ Img[doc[i]].url = Img[doc[j]].url
          => i = j
    => Len(Only(html[1], {"mark"})) = Len(candidates)

\* What clamp_to_matrix_limit is for: the two bodies together, the notice
\* included, stay within the budget, but for a formatted body that leaves no
\* room for the notice; then they exceed it by less than the notice.  A
\* message edited to show its images is not clamped.
FitsEvent ==
    Posted /\ ~edited =>
        LET h == Size(html)
            p == Len(plain) + (IF cut THEN NoticeLen ELSE 0)
        IN  /\ h <= Budget
            /\ h + p > Budget => cut /\ plain = <<>> /\ p = NoticeLen
=============================================================================
