--------------------------------- MODULE Cookies ---------------------------------
(* Cookies that expire: a value and the ticks it has left.                 *)
EXTENDS Naturals

NoCookie == [val |-> "", left |-> 0]

Older(cookie) ==
  IF cookie.left <= 1 THEN NoCookie ELSE [cookie EXCEPT !.left = @ - 1]

CookieOf(vals, age) == [val : vals, left : 1 .. age] \cup {NoCookie}
=============================================================================
