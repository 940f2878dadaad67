----------------------------- MODULE MCMigrations -----------------------------
(* Migrations for TLC: a user with a session, an invite, a photo with a    *)
(* tag, and two albums, one of which lists the photo.                      *)
EXTENDS Migrations

MCHome ==
  [u |-> "users", s |-> "sessions", i |-> "invites", p |-> "photos", t |-> "tags",
   pt |-> "photo_tags", a |-> "albums", b |-> "albums", ap |-> "album_photos"]

MCRow == DOMAIN MCHome

MCParent ==
  [u |-> {}, s |-> {"u"}, i |-> {"u"}, p |-> {"u"}, t |-> {}, pt |-> {"p", "t"},
   a |-> {"u"}, b |-> {"u"}, ap |-> {"a", "p"}]
===============================================================================
