----------------------------- MODULE MCContent ------------------------------
(* Bodies of up to three fragments and containers, among them a linked     *)
(* photo, an icon, an image without a source, a table cell and a paragraph *)
(* with one break.                                                         *)
EXTENDS Content

MCUrls == {"u1", "u2", "u3"}

Photo(u) == [url |-> u, remote |-> TRUE, tracker |-> FALSE,
             w |-> 600, h |-> NoDim]
MCImg == [photo |-> Photo("u1"), second |-> Photo("u2"),
          icon |-> [Photo("u1") EXCEPT !.w = 20]]

MCFragments == { <<"ta">>, <<"sp">>, <<"nb">>, <<"br">>, <<"inv">>,
                 <<"photo">>, <<"icon">>, <<"bare">>,
                 <<"a", "photo", "/a">>, <<"a", "second", "/a">>,
                 <<"p", "br", "/p">>, <<"td", "ta", "/td">> }

MCContainers == {"cite", "quote", "li", "tr", "div", "p"}
=============================================================================
