------------------------------ MODULE HtmlBody ------------------------------
(***************************************************************************)
(* How the bridge turns the HTML of an email into the formatted body of a  *)
(* Matrix message (services/content.rs).  An HTML text is a sequence of    *)
(* tokens: a tag, an image, one piece of visible text, one blank.  The     *)
(* passes of the code scan bytes but decide on whole tags, so they are     *)
(* written here on tokens; names, attributes and wording are left out.     *)
(***************************************************************************)
EXTENDS Integers, Sequences, SequencesExt

CONSTANTS
    Img,          \* [image tokens -> src and dimensions], see ImgInfo
    Urls          \* the image URLs; as a token: an <img> with the mxc:// of it

NoDim   == -1
ImgInfo == [url : Urls, remote : BOOLEAN, tracker : BOOLEAN,
            w : Int, h : Int]

Images == DOMAIN Img

\* "cite" opens a blockquote that carries the marker of a quoted reply;
\* "quote" opens an editorial one.  Both close with </blockquote>.
CloseOf == [a |-> "/a", p |-> "/p", h |-> "/h", li |-> "/li",
            div |-> "/div", span |-> "/span", td |-> "/td", tr |-> "/tr",
            quote |-> "/quote", cite |-> "/quote"]

Opens  == DOMAIN CloseOf
Closes == {CloseOf[t] : t \in Opens}
Quotes == {"quote", "cite"}

Texts  == {"ta", "tb"}         \* visible text
Blank  == {"sp", "nb"}         \* ASCII white space, a no-break space
\* "inv" is an invisible padding character, "mark" the picture sign that
\* stands for an image that can be loaded, "style" a <style> element with its
\* content, "bare" an <img> without a source.
Basic  == Opens \cup Closes \cup {"br", "bare", "inv", "mark", "style"}
            \cup Texts \cup Blank
Tokens == Basic \cup Images \cup Urls

\* An image, and the address of one, is a token of its own.
ASSUME ImgAssumption ==
    /\ Img \in [DOMAIN Img -> ImgInfo]
    /\ Images \cap Urls = {} /\ Basic \cap (Images \cup Urls) = {}

\* The tokens of s that Keep(i) holds of, each replaced by New(i).
Rewrite(s, New(_)) == FlattenSeq([i \in DOMAIN s |-> New(i)])

KeepAt(s, Keep(_)) ==
    LET New(i) == IF Keep(i) THEN <<s[i]>> ELSE <<>> IN Rewrite(s, New)

Only(s, S) == LET Keep(i) == s[i] \in S IN KeepAt(s, Keep)

\* The first position from i on that is not in S; Len(s) + 1 if there is none.
SkipFrom(s, i, S) ==
    CHOOSE k \in i..(Len(s) + 1) :
        /\ k = Len(s) + 1 \/ s[k] \notin S
        /\ \A j \in i..(k - 1) : s[j] \in S

At(s, i) == IF i \in DOMAIN s THEN s[i] ELSE "end"

\* s without what is in S at its start, at its end.
TrimStart(s, S) == SubSeq(s, SkipFrom(s, 1, S), Len(s))

TrimEnd(s, S) ==
    SubSeq(s, 1, CHOOSE n \in 0..Len(s) :
                     /\ n > 0 => s[n] \notin S
                     /\ \A j \in (n + 1)..Len(s) : s[j] \in S)

-----------------------------------------------------------------------------
(* Before the sanitizer.                                                   *)

\* Mutant: the first </blockquote> ends the region, however deep it is.
StripShallow(html) ==
    LET Scan(acc, t) ==
            IF acc.skip
              THEN [acc EXCEPT !.skip = t # "/quote"]
              ELSE IF t = "cite"
                     THEN [acc EXCEPT !.skip = TRUE]
                     ELSE [acc EXCEPT !.out = Append(@, t)]
    IN  FoldLeft(Scan, [out |-> <<>>, skip |-> FALSE], html).out

Nesting(t) == IF t \in Quotes THEN 1 ELSE IF t = "/quote" THEN -1 ELSE 0

\* How many blockquotes are open after each position of a scan that only
\* counts from a marked one on: inside, every blockquote counts for the
\* nesting, marked or not.
QuoteDepth(html) ==
    LET depth[i \in 0..Len(html)] ==
            IF i = 0 THEN 0
            ELSE IF depth[i - 1] = 0
                   THEN IF html[i] = "cite" THEN 1 ELSE 0
                   ELSE depth[i - 1] + Nesting(html[i])
    IN  depth

\* A blockquote with a reply marker goes with everything inside it.
strip_reply_blockquotes(html) ==
    LET depth   == QuoteDepth(html)
        Keep(i) == depth[i - 1] = 0 /\ html[i] # "cite"
    IN  KeepAt(html, Keep)

\* By size or by address: a beacon, a spacer, or a small icon.
is_decorative_img(t) ==
    LET w == Img[t].w
        h == Img[t].h
        AtMost(v, n) == v # NoDim /\ v <= n
    IN  \/ AtMost(w, 2) \/ AtMost(h, 2)
        \/ AtMost(w, 48) /\ (AtMost(h, 48) \/ h = NoDim)
        \/ AtMost(h, 48) /\ w = NoDim
        \/ Img[t].tracker

\* Anything that is neither a tag nor blank, the CSS of a <style> included.
Visible(t) == t \in Texts \cup {"inv", "mark", "style"}

has_visible_text(html) == \E i \in DOMAIN html : Visible(html[i])

\* flush_link_chain: two or more single-image links in a row are an icon strip.
Flush(c) ==
    [c EXCEPT !.chrome = IF Len(c.chain) >= 2 THEN @ \cup ToSet(c.chain)
                                              ELSE @,
              !.chain = <<>>, !.live = FALSE]

\* One token of chrome_image_offsets; c is what the scan remembers.
ChromeStep(html, c, i) ==
    LET t == html[i]
        n == Len(c.imgs)
    IN CASE Visible(t) ->
              [Flush(c) EXCEPT !.seen = TRUE, !.lead = FALSE,
                               !.txt = c.txt \/ c.a]
         [] t \in Images \cup {"bare"} ->
              LET d == [c EXCEPT
                         !.chrome =
                            IF (has_visible_text(html) /\ ~c.seen) \/ c.lead
                              THEN @ \cup {i} ELSE @,
                         !.lead = FALSE]
              IN  IF c.a THEN [d EXCEPT !.imgs = Append(@, i)]
                         ELSE Flush(d)
         [] t = "/a" /\ c.a ->
              LET d == CASE ~c.txt /\ n >= 2 ->
                              Flush([c EXCEPT
                                       !.chrome = @ \cup ToSet(c.imgs)])
                         [] ~c.txt /\ n = 1 ->
                              LET e == IF c.live THEN c ELSE Flush(c)
                              IN  [e EXCEPT
                                     !.chain = Append(@, c.imgs[1]),
                                     !.live = TRUE]
                         [] OTHER -> Flush(c)
              IN  [d EXCEPT !.a = FALSE, !.imgs = <<>>]
         [] t = "a" -> [c EXCEPT !.a = TRUE, !.txt = FALSE, !.imgs = <<>>]
         [] t \in Blank \cup {"br"} \/ (t = "/a" /\ ~c.a) -> c
         [] OTHER -> [Flush(c) EXCEPT !.lead = (t = "li") \/ @]

chrome_image_offsets(html) ==
    LET Step(c, i) == ChromeStep(html, c, i)
        start == [chrome |-> {}, chain |-> <<>>, live |-> FALSE,
                  imgs |-> <<>>, a |-> FALSE, txt |-> FALSE,
                  seen |-> FALSE, lead |-> FALSE]
    IN  Flush(FoldLeftDomain(Step, start, html)).chrome

\* The remote images, once per address; the first occurrence decides whether
\* the image is decorative.
extract_remote_images(html) ==
    LET chrome == chrome_image_offsets(html)
        Remote(i) == html[i] \in Images /\ Img[html[i]].remote
        First(i) ==
            /\ Remote(i)
            /\ \A j \in 1..(i - 1) :
                  Remote(j) => Img[html[j]].url # Img[html[i]].url
        New(i) ==
            IF First(i)
              THEN << [url |-> Img[html[i]].url,
                       is_decorative |-> \/ is_decorative_img(html[i])
                                         \/ i \in chrome] >>
              ELSE <<>>
    IN  Rewrite(html, New)

\* Mutant: structural chrome earns a mark too.
MarkEverything(html) ==
    LET New(i) ==
            IF html[i] \notin Images \cup {"bare"} THEN <<html[i]>>
            ELSE IF /\ html[i] # "bare" /\ Img[html[i]].remote
                    /\ ~is_decorative_img(html[i])
                   THEN <<"mark">> ELSE <<>>
    IN  Rewrite(html, New)

\* Links mode: a mark for each image a reaction can load, nothing for others.
placeholder_remote_images(html) ==
    LET chrome == chrome_image_offsets(html)
        New(i) ==
            IF html[i] \notin Images \cup {"bare"} THEN <<html[i]>>
            ELSE IF /\ html[i] # "bare" /\ Img[html[i]].remote
                    /\ ~is_decorative_img(html[i])
                    /\ i \notin chrome
                   THEN <<"mark">> ELSE <<>>
    IN  Rewrite(html, New)

\* Mutant: a cell leaves no space behind.
GlueCells(html, mode) ==
    LET New(i) ==
            CASE html[i] \in {"td", "/td", "tr"} -> <<>>
              [] html[i] = "/tr" -> <<"br">>
              [] html[i] = "/div" /\ mode = "links" -> <<"br">>
              [] html[i] = "div" /\ mode = "links" -> <<>>
              [] OTHER -> <<html[i]>>
    IN  Rewrite(html, New)

\* Tables are taken apart before the sanitizer drops their tags: a space
\* after a cell, a break after a row; in links mode the same for <div>.
separate_table_blocks(html, mode) ==
    LET New(i) ==
            CASE html[i] = "/td" -> <<"sp">>
              [] html[i] = "/tr" -> <<"br">>
              [] html[i] = "/div" /\ mode = "links" ->
                   IF At(html, SkipFrom(html, i + 1, {"sp"})) = "div"
                     THEN <<"br", "br">> ELSE <<"br">>
              [] html[i] \in {"td", "tr"} -> <<>>
              [] html[i] = "div" /\ mode = "links" -> <<>>
              [] OTHER -> <<html[i]>>
    IN  Rewrite(html, New)

\* The allowlist of matrix_sanitizer as ammonia applies it to well-formed
\* HTML: a tag outside of it is unwrapped, <style> goes with its content, an
\* image keeps only an mxc:// source, links mode drops images, div and span.
clean(html, mode) ==
    LET links == mode = "links"
        New(i) ==
            CASE html[i] = "style" -> <<>>
              [] html[i] \in Images \cup Urls \cup {"bare"} /\ links -> <<>>
              [] html[i] \in Images /\ ~links -> <<"bare">>
              [] html[i] \in {"div", "/div", "span", "/span"} /\ links ->
                   <<>>
              [] html[i] \in {"td", "/td", "tr", "/tr"} -> <<>>
              [] html[i] = "cite" -> <<"quote">>
              [] OTHER -> <<html[i]>>
    IN  Rewrite(html, New)

-----------------------------------------------------------------------------
(* After the sanitizer.                                                    *)

strip_invisibles(s) == Only(s, Tokens \ {"inv"})

\* <p> inside <li> is presentational.
unwrap_li_paragraphs(s) ==
    LET Count(t, i) == Len(Only(SubSeq(s, 1, i), {t}))
        Keep(i) == \/ s[i] \notin {"p", "/p"}
                   \/ Count("li", i) <= Count("/li", i)
    IN  KeepAt(s, Keep)

\* i lies in an element whose tag is in Names and that only holds Filler.
InEmpty(s, i, Names, Filler) ==
    \E j \in 1..i :
        /\ s[j] \in Names
        /\ LET k == SkipFrom(s, j + 1, Filler)
           IN  i <= k /\ At(s, k) = CloseOf[s[j]]

prune_br_only_links(s) ==
    LET Keep(i) == ~InEmpty(s, i, {"a"}, Blank \cup {"br"})
    IN  KeepAt(s, Keep)

Prunable    == {"a", "h", "p", "span", "div", "quote", "li"}
PrunePasses == 32

prune_empty_once(s) ==
    LET Keep(i) == ~InEmpty(s, i, Prunable, Blank) IN KeepAt(s, Keep)

\* Until nothing changes any more, but at most PrunePasses times.
prune_empty_elements(s) ==
    LET pass[n \in 0..(PrunePasses + 1)] ==
            IF n = 0 THEN s ELSE prune_empty_once(pass[n - 1])
    IN  pass[CHOOSE n \in 0..PrunePasses :
                 n = PrunePasses \/ pass[n + 1] = pass[n]]

\* Two or more blanks in a row become one space.
collapse_blank_runs(s) ==
    LET New(i) ==
            CASE s[i] \notin Blank -> <<s[i]>>
              [] s[i] \in Blank /\ At(s, i - 1) \in Blank -> <<>>
              [] OTHER -> IF At(s, i + 1) \in Blank THEN <<"sp">>
                                                    ELSE <<s[i]>>
    IN  Rewrite(s, New)

\* Positions of a run of <br>, the white space before each included.
InBreaks(s) == {i \in DOMAIN s : At(s, SkipFrom(s, i, {"sp"})) = "br"}

Blocks   == {"p", "h", "li", "quote"}
Headings == {"h"}
Bracket(Names) == Names \cup {CloseOf[t] : t \in Names}

\* A run of breaks next to a block goes, unless a heading is next to it.
strip_block_adjacent_breaks(s) ==
    LET R == InBreaks(s)
        Before(i) == At(s, CHOOSE j \in 0..(i - 1) :
                               j \notin R /\ (j + 1)..i \subseteq R)
        RunEnd(i) == CHOOSE j \in i..Len(s) :
                               j + 1 \notin R /\ i..j \subseteq R
        After(i)  == At(s, SkipFrom(s, RunEnd(i) + 1, {"sp"}))
        Touches(i, Names) == \/ Before(i) \in Bracket(Names)
                             \/ After(i) \in Bracket(Names)
        Keep(i) == i \in R => Touches(i, Headings) \/ ~Touches(i, Blocks)
    IN  KeepAt(s, Keep)

MaxBreaks == 2

\* Breaks, each with the white space after it.
TrimBreaksStart(s) ==
    IF At(s, 1) = "br" THEN TrimStart(s, {"br", "sp"}) ELSE s

\* At most two breaks in a row, none at either end (but a break before
\* trailing white space is only found once the white space is trimmed).
collapse_breaks(s) ==
    LET R == InBreaks(s)
        Nth(i) == Len(Only(
                      SubSeq(s, (CHOOSE j \in 0..(i - 1) :
                                     j \notin R /\ (j + 1)..i \subseteq R)
                                + 1, i),
                      {"br"}))
        Keep(i) == i \in R => s[i] = "br" /\ Nth(i) <= MaxBreaks
        ended   == TrimEnd(TrimEnd(KeepAt(s, Keep), {"br"}), {"sp"})
    IN  TrimBreaksStart(TrimStart(ended, {"sp"}))

-----------------------------------------------------------------------------

\* The passes in the order of sanitize_for_matrix.
sanitize_for_matrix(html, mode) ==
    LET pre    == strip_reply_blockquotes(html)
        marked == IF mode = "links" THEN placeholder_remote_images(pre)
                                    ELSE pre
        flat   == clean(separate_table_blocks(marked, mode), mode)
        inline == unwrap_li_paragraphs(strip_invisibles(flat))
        pruned == prune_empty_elements(prune_br_only_links(inline))
    IN  collapse_breaks(
            strip_block_adjacent_breaks(collapse_blank_runs(pruned)))

\* Images whose address was uploaded get their mxc:// source, then Rich.
render_inline_images(html, uploaded) ==
    sanitize_for_matrix(
        [i \in DOMAIN html |->
            IF html[i] \in Images /\ Img[html[i]].url \in uploaded
              THEN Img[html[i]].url ELSE html[i]],
        "rich")
=============================================================================
