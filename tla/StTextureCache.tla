--------------------------- MODULE StTextureCache ---------------------------
(***************************************************************************)
(* The textures of icons and image files (src/st/st-texture-cache.c).      *)
(*                                                                         *)
(* Icons with a name are loaded once per key; whoever asks while a load is *)
(* under way waits for it.  Files are loaded at once, and kept per scale,  *)
(* or in a thread, and not kept.  The textures of icons go when the icon   *)
(* theme says it changed, those of a file when its monitor does.  A slot   *)
(* is a place that shows one icon or file (an StIcon), and asks again when *)
(* the cache tells it that the theme has changed.                          *)
(***************************************************************************)
EXTENDS Integers, Sequences, FiniteSets
LOCAL INSTANCE SequencesExt

CONSTANTS
  NamedIcons,      \* icons g_icon_to_string() has a string for
  NamelessIcons,   \* the others
  MissingIcons,       \* icons the icon theme does not find
  ImageFiles,      \* image files
  ImageSize,       \* width and height of each
  RoomSizes,       \* room there is for an image: width and height, -1 for any
  TextureScales,   \* resource scales
  Slots,
  MaxTheme, MaxFileVersion, MaxTextureOps  \* bounds

VARIABLES
  themeNow,     \* the generation of the icon theme
  toldOf,       \* the generation of the last "changed"
  images,       \* keyed_cache, the icons of it
  textures,     \* ... and the files
  surfaces,     \* keyed_surface_cache
  usedScales,   \* used_scales
  outstanding,  \* outstanding_requests: the number of the request of a key, or 0
  textureRequests, \* requests by number
  shown,        \* what each slot shows, and of what
  fileVersion, monitors, diskEvents, \* files, the monitored ones, and their pending changes
  textureOps
textureVars == <<themeNow, toldOf, images, textures, surfaces, usedScales, outstanding, textureRequests, shown,
                 fileVersion, monitors, diskEvents, textureOps>>

Icons == NamedIcons \cup NamelessIcons
FileKeys == ImageFiles \X TextureScales
Idle == [of |-> "nothing", state |-> "empty", version |-> 0, size |-> <<0, 0>>]
NoRequest == [key |-> "none", kind |-> "none", version |-> 0, slots |-> {}, size |-> <<0, 0>>]
Loading == {n \in DOMAIN textureRequests : textureRequests[n] # NoRequest}

---------------------------------------------------------------------------
\* compute_pixbuf_scale(): into the room, keeping the shape, never larger.
Smallest(a, b) == IF a < b THEN a ELSE b
ComputePixbufScale(size, room) ==
  LET w == size[1]  h == size[2]
      fitted == IF room[1] >= 0 /\ room[2] >= 0
                THEN <<Smallest(room[1], (room[2] * w) \div h), Smallest(room[2], (room[1] * h) \div w)>>
                ELSE IF room[1] >= 0 THEN <<room[1], (room[1] * h) \div w>>
                ELSE IF room[2] >= 0 THEN <<(room[2] * w) \div h, room[2]>>
                ELSE <<0, 0>>
  IN IF w = 0 \/ h = 0 THEN <<0, 0>>
     ELSE IF fitted[1] > 0 /\ fitted[2] > 0 /\ fitted[1] < w /\ fitted[2] < h THEN fitted ELSE size

\* The part of the state a request changes, for the ones that come together.
Now == [textureRequests |-> textureRequests, outstanding |-> outstanding, shown |-> shown]
\* A slot that asks anew no longer cares for what it was waiting for.
Forget(s, a) ==
  [s EXCEPT !.textureRequests = [n \in DOMAIN @ |-> IF @[n] = NoRequest THEN @[n] ELSE [@[n] EXCEPT !.slots = @ \ {a}]]]
Waits(s, a, what) == [s EXCEPT !.shown[a] = [Idle EXCEPT !.of = what, !.state = "waiting"]]
NewRequest(s, a, what, request) ==
  Waits([s EXCEPT !.textureRequests = Append(@, request),
                  !.outstanding = IF what \in NamedIcons THEN [@ EXCEPT ![what] = Len(s.textureRequests) + 1] ELSE @], a, what)

\* ensure_request() and st_texture_cache_load_gicon(): the texture there is,
\* the request there is, or a lookup and a request of its own.
EnsureRequest(s, a, i, image) ==
  IF image # 0 THEN [s EXCEPT !.shown[a] = [Idle EXCEPT !.of = i, !.state = "shown", !.version = image]]
  ELSE IF i \in NamedIcons /\ s.outstanding[i] # 0
  THEN Waits([s EXCEPT !.textureRequests[s.outstanding[i]].slots = @ \cup {a}], a, i)
  ELSE IF i \in MissingIcons THEN [s EXCEPT !.shown[a] = [Idle EXCEPT !.of = i]]
  ELSE NewRequest(s, a, i, [NoRequest EXCEPT !.key = i, !.kind = "icon", !.version = themeNow, !.slots = {a}])
LoadGicon(s, a, i, cached) == EnsureRequest(Forget(s, a), a, i, IF i \in NamedIcons THEN cached[i] ELSE 0)

---------------------------------------------------------------------------
TexturesBecome(s) == textureRequests' = s.textureRequests /\ outstanding' = s.outstanding /\ shown' = s.shown
TextureOp == textureOps < MaxTextureOps /\ textureOps' = textureOps + 1
fileVars == <<fileVersion, monitors, diskEvents>>

ShowIcon(a, i) ==
  /\ TextureOp
  /\ TexturesBecome(LoadGicon(Now, a, i, images))
  /\ UNCHANGED <<themeNow, toldOf, images, textures, surfaces, usedScales, fileVars>>

\* st_texture_cache_load_file_async(): never kept, so never shared.
ShowFile(a, f, room) ==
  /\ TextureOp
  /\ TexturesBecome(NewRequest(Forget(Now, a), a, f,
       [NoRequest EXCEPT !.key = f, !.kind = "file", !.slots = {a}, !.size = room]))
  /\ monitors' = monitors \cup {f}
  /\ UNCHANGED <<themeNow, toldOf, images, textures, surfaces, usedScales, fileVersion, diskEvents>>
\* load_pixbuf_thread()
ReadFile(n) ==
  /\ n \in Loading /\ textureRequests[n].kind = "file" /\ textureRequests[n].version = 0
  /\ textureRequests' = [textureRequests EXCEPT ![n].version = fileVersion[textureRequests[n].key],
                                  ![n].size = ComputePixbufScale(ImageSize[textureRequests[n].key], @)]
  /\ UNCHANGED <<themeNow, toldOf, images, textures, surfaces, usedScales, outstanding, shown, fileVars, textureOps>>

\* finish_texture_load()
FinishTextureLoad(n, ok) ==
  LET r == textureRequests[n]
      keep == r.kind = "icon" /\ r.key \in NamedIcons
      version == IF keep /\ images[r.key] # 0 THEN images[r.key] ELSE r.version
      served == [Idle EXCEPT !.of = r.key, !.state = "shown", !.version = version, !.size = r.size]
  IN /\ n \in Loading /\ r.version # 0
     /\ textureRequests' = [textureRequests EXCEPT ![n] = NoRequest]
     /\ outstanding' = IF keep THEN [outstanding EXCEPT ![r.key] = 0] ELSE outstanding
     /\ images' = IF keep /\ ok THEN [images EXCEPT ![r.key] = version] ELSE images
     /\ shown' = [a \in Slots |-> IF a \notin r.slots THEN shown[a]
                                  ELSE IF ok THEN served ELSE [shown[a] EXCEPT !.state = "empty"]]
     /\ UNCHANGED <<themeNow, toldOf, textures, surfaces, usedScales, fileVars, textureOps>>

\* The icon theme changes; its "changed" comes from an idle handler.
IconThemeChanges ==
  /\ TextureOp /\ themeNow < MaxTheme
  /\ themeNow' = themeNow + 1
  /\ UNCHANGED <<toldOf, images, textures, surfaces, usedScales, outstanding, textureRequests, shown, fileVars>>
\* on_icon_theme_changed(): every icon goes (st_texture_cache_evict_icons()),
\* then "icon-theme-changed" makes the slots ask again.
Evicted == [i \in NamedIcons |-> 0]
Reload(s, a) == IF shown[a].of \in Icons THEN LoadGicon(s, a, shown[a].of, Evicted) ELSE s
OnIconThemeChanged ==
  /\ toldOf # themeNow
  /\ toldOf' = themeNow
  /\ images' = Evicted
  /\ TexturesBecome(FoldLeft(Reload, Now, SetToSeq(Slots)))
  /\ UNCHANGED <<themeNow, textures, surfaces, usedScales, fileVars, textureOps>>

\* hash_table_insert_scale()
InsertScale(scales, sc) == scales \cup {sc}
\* st_texture_cache_load_file_sync_to_cogl_texture()
LoadFileSync(f, sc) ==
  /\ TextureOp
  /\ textures' = IF textures[f, sc] = 0 THEN [textures EXCEPT ![f, sc] = fileVersion[f]] ELSE textures
  /\ usedScales' = IF textures[f, sc] = 0 THEN InsertScale(usedScales, sc) ELSE usedScales
  /\ monitors' = monitors \cup {f}
  /\ UNCHANGED <<themeNow, toldOf, images, surfaces, outstanding, textureRequests, shown, fileVersion, diskEvents>>
\* st_texture_cache_load_file_sync_to_cairo_surface()
LoadSurfaceSync(f, sc) ==
  /\ TextureOp
  /\ surfaces' = IF surfaces[f, sc] = 0 THEN [surfaces EXCEPT ![f, sc] = fileVersion[f]] ELSE surfaces
  /\ usedScales' = IF surfaces[f, sc] = 0 THEN InsertScale(usedScales, sc) ELSE usedScales
  /\ monitors' = monitors \cup {f}
  /\ UNCHANGED <<themeNow, toldOf, images, textures, outstanding, textureRequests, shown, fileVersion, diskEvents>>

FileChanges(f) ==
  /\ fileVersion[f] < MaxFileVersion
  /\ fileVersion' = [fileVersion EXCEPT ![f] = @ + 1]
  /\ diskEvents' = IF f \in monitors THEN diskEvents \cup {f} ELSE diskEvents
  /\ UNCHANGED <<themeNow, toldOf, images, textures, surfaces, usedScales, outstanding, textureRequests, shown, monitors, textureOps>>
\* file_changed_cb(): out with the file at every scale there has been.
WithoutFile(kept, f) == [k \in DOMAIN kept |-> IF \E sc \in usedScales : k = <<f, sc>> THEN 0 ELSE kept[k]]
FileChangedCb(f) ==
  /\ f \in diskEvents
  /\ diskEvents' = diskEvents \ {f}
  /\ textures' = WithoutFile(textures, f)
  /\ surfaces' = WithoutFile(surfaces, f)
  /\ UNCHANGED <<themeNow, toldOf, images, usedScales, outstanding, textureRequests, shown, fileVersion, monitors, textureOps>>

TextureInit ==
  /\ themeNow = 1 /\ toldOf = 1
  /\ images = [k \in NamedIcons |-> 0] /\ textures = [k \in FileKeys |-> 0]
  /\ surfaces = [k \in FileKeys |-> 0]
  /\ usedScales = {} /\ outstanding = [i \in NamedIcons |-> 0] /\ textureRequests = <<>>
  /\ shown = [a \in Slots |-> Idle]
  /\ fileVersion = [f \in ImageFiles |-> 1] /\ monitors = {} /\ diskEvents = {} /\ textureOps = 0
TextureNext ==
  \/ \E a \in Slots, i \in Icons : ShowIcon(a, i)
  \/ \E a \in Slots, f \in ImageFiles, room \in RoomSizes : ShowFile(a, f, room)
  \/ \E n \in 1 .. MaxTextureOps + Cardinality(Slots) * MaxTheme : ReadFile(n) \/ FinishTextureLoad(n, TRUE) \/ FinishTextureLoad(n, FALSE)
  \/ IconThemeChanges \/ OnIconThemeChanged
  \/ \E f \in ImageFiles, sc \in TextureScales : LoadFileSync(f, sc) \/ LoadSurfaceSync(f, sc)
  \/ \E f \in ImageFiles : FileChanges(f) \/ FileChangedCb(f)
TextureSpec == TextureInit /\ [][TextureNext]_textureVars
             /\ \A n \in 1 .. MaxTextureOps + Cardinality(Slots) * MaxTheme :
                  WF_textureVars(ReadFile(n)) /\ WF_textureVars(FinishTextureLoad(n, TRUE))

---------------------------------------------------------------------------
(* Properties *)

\* Whoever waits is on the list of exactly one load that is under way, for
\* what it asked for, and no icon with a name is being loaded twice
\* (ensure_request(), finish_texture_load()).
WaitersAreServed ==
  /\ \A a \in Slots : shown[a].state = "waiting" =>
       \E n \in Loading : /\ a \in textureRequests[n].slots /\ textureRequests[n].key = shown[a].of
                          /\ \A m \in Loading : m # n => a \notin textureRequests[m].slots
  /\ \A n \in Loading : textureRequests[n].key \in NamedIcons => outstanding[textureRequests[n].key] = n

\* A texture of a file is of the file as it is now, at every scale, or its
\* monitor has a change to report (file_changed_cb()).
FilesFollowDisk ==
  \A k \in FileKeys : /\ textures[k] \in {0, fileVersion[k[1]]} \/ k[1] \in diskEvents
                      /\ surfaces[k] \in {0, fileVersion[k[1]]} \/ k[1] \in diskEvents

=============================================================================
