-------------------------------- MODULE Images --------------------------------
(* The images of products and of categories, and their files: the image     *)
(* part of products.service.ts, admin-product-images.service.ts, the image  *)
(* part of categories.service.ts and local-disk-storage.service.ts. The     *)
(* transactions run at READ COMMITTED. File names are random.               *)
EXTENDS Requests, Sequences

CONSTANTS
  Galleries,   \* products that have images
  Banners,     \* categories that have one
  ImageFiles,  \* the files that may ever be saved
  MaxImages    \* bound on the images ever added to a product

VARIABLES
  images,    \* product -> its image rows in order of creation
  banner,    \* category -> the file it shows, or Null
  stored,    \* the files on disk
  reviewed,  \* the products staff have been through
  unfinished \* history: what an image request was lost in the middle of

imageVars == <<images, banner, stored, reviewed, unfinished>>

ImageRow == [path : ImageFiles, primary : BOOLEAN, order : Nat, deleted : BOOLEAN]

ImageOps ==
  {"add", "insert", "select", "clearSelected", "insertSelected", "setPrimary", "writePrimary",
   "mark", "deleteFile", "findNext", "promote", "banner", "clearBanner", "writeBanner"}

\* `image` is the place of a row among those of the product, or an old file.
ImageRequests ==
  [op : ImageOps, on : SUBSET (Galleries \cup Banners), of : Galleries \cup Banners,
   file : ImageFiles \cup {Null}, image : ImageFiles \cup Nat \cup {Null},
   primary : BOOLEAN \cup {Null}, count : Nat \cup {Null}, off : SUBSET Nat]

ASSUME ImageAssumption == Null \notin ImageFiles \cup ImageRequests

ImagesInit ==
  /\ images = [p \in Galleries |-> << >>]
  /\ banner = [c \in Banners |-> Null]
  /\ stored = {}
  /\ reviewed = {}
  /\ unfinished = {}

LiveImages(p) == {i \in DOMAIN images[p] : ~images[p][i].deleted}
Primaries(p) == {i \in LiveImages(p) : images[p][i].primary}

\* Randomness makes no name twice.
NewFile(f) ==
  /\ f \notin stored
  /\ \A p \in Galleries : \A i \in DOMAIN images[p] : images[p][i].path # f
  /\ \A c \in Banners : banner[c] # f
  /\ \A h \in InFlight : f \notin {request[h].file, request[h].image}

Save(f) == NewFile(f) /\ stored' = stored \cup {f}

\* A deletion of a file that fails is passed over.
DeleteFile(f) == stored' \in {stored, stored \ {f}}

\* Rows of p with the primary flag off in `off`.
Without(p, off) ==
  [i \in DOMAIN images[p] |-> IF i \in off THEN [images[p][i] EXCEPT !.primary = FALSE]
                                           ELSE images[p][i]]

\* A request of an image service; fields it has no use for are Null.
ImageRequest(op, x, file, image, primary, count, off) ==
  [op |-> op, on |-> {x}, of |-> x, file |-> file, image |-> image,
   primary |-> primary, count |-> count, off |-> off]

-----------------------------------------------------------------------------
(* Adding an image: the controller saves the file; one transaction clears   *)
(* the flag if it is asked for, counts, and creates the row.                *)
SaveUpload(h, p, f, primary) ==
  /\ Len(images[p]) < MaxImages
  /\ Save(f)
  /\ Begin(h, ImageRequest("add", p, f, Null, primary, Null, {}))
  /\ UNCHANGED <<images, banner, reviewed, unfinished>>

\* Faulty: an image that is primary only when it is asked to be.
CountNoImages(h) ==
  LET r == request[h] IN
  /\ Doing(h, "add")
  /\ GoOn(h, ImageRequest("insert", r.of, r.file, Null, r.primary, 0,
                          IF r.primary THEN LiveImages(r.of) ELSE {}))
  /\ UNCHANGED imageVars

CountImages(h) ==
  LET r == request[h]
      n == Cardinality(LiveImages(r.of)) IN
  /\ Doing(h, "add")
  /\ GoOn(h, ImageRequest("insert", r.of, r.file, Null, r.primary \/ n = 0, n,
                          IF r.primary THEN LiveImages(r.of) ELSE {}))
  /\ UNCHANGED imageVars

(* Choosing one from the web: the images are counted, the file is fetched   *)
(* and saved, and one transaction creates the row.                          *)
BeginSelect(h, p) ==
  LET n == Cardinality(LiveImages(p)) IN
  /\ Len(images[p]) < MaxImages
  /\ Begin(h, ImageRequest("select", p, Null, Null, n = 0, n, {}))
  /\ UNCHANGED imageVars

SaveSelected(h, f) ==
  /\ Doing(h, "select")
  /\ Save(f)
  /\ GoOn(h, [request[h] EXCEPT !.op = "clearSelected", !.file = f])
  /\ UNCHANGED <<images, banner, reviewed, unfinished>>

ClearForSelected(h) ==
  LET r == request[h] IN
  /\ Doing(h, "clearSelected")
  /\ GoOn(h, [r EXCEPT !.op = "insertSelected",
                       !.off = IF r.primary THEN LiveImages(r.of) ELSE {}])
  /\ UNCHANGED imageVars

InsertImage(h) ==
  LET r == request[h] IN
  /\ Doing(h, "insert") \/ Doing(h, "insertSelected")
  /\ Len(images[r.of]) < MaxImages
  /\ images' = [images EXCEPT ![r.of] = Append(Without(r.of, r.off),
       [path |-> r.file, primary |-> r.primary, order |-> r.count, deleted |-> FALSE])]
  /\ reviewed' = IF r.op = "insertSelected" THEN reviewed \cup {r.of} ELSE reviewed
  /\ End(h)
  /\ UNCHANGED <<banner, stored, unfinished>>

MarkReviewed(p, skipped) ==
  /\ reviewed' = IF skipped THEN reviewed \cup {p} ELSE reviewed \ {p}
  /\ UNCHANGED <<requestVars, images, banner, stored, unfinished>>

-----------------------------------------------------------------------------
(* Setting the primary image: found, then cleared and set in one batch. *)
BeginSetPrimary(h, p, i) ==
  /\ i \in LiveImages(p)
  /\ Begin(h, ImageRequest("setPrimary", p, Null, i, Null, Null, {}))
  /\ UNCHANGED imageVars

ClearForPrimary(h) ==
  /\ Doing(h, "setPrimary")
  /\ GoOn(h, [request[h] EXCEPT !.op = "writePrimary", !.off = LiveImages(request[h].of)])
  /\ UNCHANGED imageVars

WritePrimary(h) ==
  LET r == request[h] IN
  /\ Doing(h, "writePrimary")
  /\ images' = [images EXCEPT ![r.of] =
                  [Without(r.of, r.off) EXCEPT ![r.image].primary = TRUE]]
  /\ End(h)
  /\ UNCHANGED <<banner, stored, reviewed, unfinished>>

-----------------------------------------------------------------------------

\* Faulty: the file before the row.
DeleteFileFirst(h, p, i) ==
  /\ i \in LiveImages(p)
  /\ DeleteFile(images[p][i].path)
  /\ Begin(h, ImageRequest("mark", p, images[p][i].path, i, images[p][i].primary, Null, {}))
  /\ UNCHANGED <<images, banner, reviewed, unfinished>>

(* Deleting an image: the row is marked, the file goes, and if it was the   *)
(* primary one when it was found, the next is looked for and flagged.       *)
BeginDeleteImage(h, p, i) ==
  /\ i \in LiveImages(p)
  /\ Begin(h, ImageRequest("mark", p, images[p][i].path, i, images[p][i].primary, Null, {}))
  /\ UNCHANGED imageVars

MarkDeleted(h) ==
  LET r == request[h] IN
  /\ Doing(h, "mark")
  /\ images' = [images EXCEPT ![r.of][r.image].deleted = TRUE,
                              ![r.of][r.image].primary = FALSE]
  /\ GoOn(h, [r EXCEPT !.op = "deleteFile"])
  /\ UNCHANGED <<banner, stored, reviewed, unfinished>>

DeleteImageFile(h) ==
  LET r == request[h] IN
  /\ Doing(h, "deleteFile")
  /\ DeleteFile(r.file)
  /\ IF r.primary THEN GoOn(h, [r EXCEPT !.op = "findNext"]) ELSE End(h)
  /\ UNCHANGED <<images, banner, reviewed, unfinished>>

Before(p, i, j) ==
  images[p][i].order < images[p][j].order
  \/ (images[p][i].order = images[p][j].order /\ i <= j)

FindNext(h) ==
  LET r == request[h]
      left == LiveImages(r.of) IN
  /\ Doing(h, "findNext")
  /\ IF left = {} THEN End(h)
     ELSE GoOn(h, [r EXCEPT !.op = "promote",
                     !.image = CHOOSE i \in left : \A j \in left : Before(r.of, i, j)])
  /\ UNCHANGED imageVars

Promote(h) ==
  LET r == request[h] IN
  /\ Doing(h, "promote")
  /\ images' = [images EXCEPT ![r.of][r.image].primary = TRUE]
  /\ End(h)
  /\ UNCHANGED <<banner, stored, reviewed, unfinished>>

-----------------------------------------------------------------------------
(* The one image of a category: the old file goes before the row is written *)
(* and, with f = Null, nothing takes its place.                             *)
SaveBanner(h, c, f) ==
  /\ IF f = Null THEN UNCHANGED stored ELSE Save(f)
  /\ Begin(h, ImageRequest("banner", c, f, Null, Null, Null, {}))
  /\ UNCHANGED <<images, banner, reviewed, unfinished>>

FindBanner(h) ==
  /\ Doing(h, "banner")
  /\ GoOn(h, [request[h] EXCEPT !.op = "clearBanner", !.image = banner[request[h].of]])
  /\ UNCHANGED imageVars

\* Faulty: the new file in place of the old one.
ClearSaved(h) ==
  /\ Doing(h, "clearBanner")
  /\ DeleteFile(request[h].file)
  /\ GoOn(h, [request[h] EXCEPT !.op = "writeBanner"])
  /\ UNCHANGED <<images, banner, reviewed, unfinished>>

ClearBanner(h) ==
  /\ Doing(h, "clearBanner")
  /\ DeleteFile(request[h].image)
  /\ GoOn(h, [request[h] EXCEPT !.op = "writeBanner"])
  /\ UNCHANGED <<images, banner, reviewed, unfinished>>

WriteBanner(h) ==
  /\ Doing(h, "writeBanner")
  /\ banner' = [banner EXCEPT ![request[h].of] = request[h].file]
  /\ End(h)
  /\ UNCHANGED <<images, stored, reviewed, unfinished>>

AbandonImage(h) ==
  /\ Abandon(h)
  /\ unfinished' = IF request[h].op \in {"deleteFile", "findNext", "promote", "writeBanner"}
                   THEN unfinished \cup {request[h].of} ELSE unfinished
  /\ UNCHANGED <<images, banner, stored, reviewed>>

GalleryNext ==
  \/ \E h \in Handlers :
       \/ \E p \in Galleries :
            \/ \E f \in ImageFiles, primary \in BOOLEAN : SaveUpload(h, p, f, primary)
            \/ BeginSelect(h, p)
            \/ \E i \in DOMAIN images[p] : BeginSetPrimary(h, p, i) \/ BeginDeleteImage(h, p, i)
       \/ \E f \in ImageFiles : SaveSelected(h, f)
       \/ CountImages(h) \/ ClearForSelected(h) \/ InsertImage(h)
       \/ ClearForPrimary(h) \/ WritePrimary(h)
       \/ MarkDeleted(h) \/ DeleteImageFile(h) \/ FindNext(h) \/ Promote(h)
       \/ AbandonImage(h)
  \/ \E p \in Galleries : \E skipped \in BOOLEAN : MarkReviewed(p, skipped)

BannerNext ==
  \E h \in Handlers :
    \/ \E c \in Banners : \E f \in ImageFiles \cup {Null} : SaveBanner(h, c, f)
    \/ FindBanner(h) \/ ClearBanner(h) \/ WriteBanner(h) \/ AbandonImage(h)

ImagesNext == GalleryNext \/ BannerNext

ImagesSpec == ImagesInit /\ RequestsInit /\ [][ImagesNext]_<<requestVars, imageVars>>

-----------------------------------------------------------------------------
(* Properties. *)

\* A product that has images has exactly one primary image, but while its
\* primary one is being deleted, if that was lost halfway, or if two requests
\* on its images overlap (two uploads count none at READ COMMITTED).
OnePrimary ==
  \A p \in Galleries \ (overlapped \cup unfinished) :
    \/ Cardinality(Primaries(p)) = 1
    \/ LiveImages(p) = {}
    \/ \E h \in InFlight : request[h].of = p /\ request[h].op \in {"deleteFile", "findNext", "promote"}

\* Every image of a product is on disk, whatever overlaps and is lost: a file
\* is saved before its row is there and deleted when it is no longer.
ImagesServed ==
  \A p \in Galleries : \A i \in LiveImages(p) : images[p][i].path \in stored

\* The image of a category is on disk, but while it is replaced or if that was
\* lost halfway (the old file goes first), however two replacements overlap.
BannerServed ==
  \A c \in Banners \ unfinished :
    \/ banner[c] \in stored \cup {Null}
    \/ \E h \in InFlight : Doing(h, "writeBanner") /\ request[h].of = c

\* What is shown can be served.
UploadsServed == ImagesServed /\ BannerServed
=============================================================================
