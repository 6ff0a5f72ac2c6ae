------------------------------ MODULE VideoRender ------------------------------
(* VideoRender with its VideoMesh and YUVTexture, and the VideoShader all    *)
(* users share.  The driver's objects are a function from names to what is   *)
(* behind them; an owner keeps names, 0 for none.  A call of the driver that *)
(* makes something may fail, and what was made before it must be given back. *)
EXTENDS Integers, FiniteSets, SequencesExt

Parts == 1 .. 3               \* vao, vbo and ebo; the planes Y, U and V
NoNames == [i \in Parts |-> 0]
Black == [planes |-> NoNames, mirrored |-> FALSE, viewport |-> ""]

-----------------------------------------------------------------------------
(* The driver.                                                              *)

\* The i-th name nothing has.
FreeName(objects, i) ==
    CHOOSE n \in 1 .. Cardinality(DOMAIN objects) + i :
        /\ n \notin DOMAIN objects
        /\ Cardinality({m \in 1 .. n : m \notin DOMAIN objects}) = i

With(objects, names, object) ==
    [n \in DOMAIN objects \cup names |-> IF n \in names THEN object ELSE objects[n]]

\* glGenTextures, glGenBuffers: a name may be refused.
Generate(objects, given, object) ==
    LET ids == [i \in Parts |-> IF i \in given THEN FreeName(objects, i) ELSE 0]
    IN  [objects |-> With(objects, {ids[i] : i \in given}, object), ids |-> ids]

Delete(objects, names) == [n \in DOMAIN objects \ names |-> objects[n]]

Names(ids) == {ids[i] : i \in Parts} \ {0}

-----------------------------------------------------------------------------
(* VideoShader.  It fails at one of its stages, or at none.                 *)

Stages == {"functions", "vertex", "fragment", "link", "uniforms", "none"}

\* A shader or a program that does not compile or link is deleted at once.
Made(objects, succeeds, object) ==
    LET id == FreeName(objects, 1)
    IN  IF succeeds THEN [objects |-> With(objects, {id}, object), id |-> id]
        ELSE [objects |-> objects, id |-> 0]

\* A program samples plane i from unit i, and is not mirrored yet.
NewProgram == [unit |-> [i \in Parts |-> i], mirrored |-> FALSE]

InitShader(objects, shader, fails) ==
    LET vertex   == Made(objects, fails # "vertex", [kind |-> "shader"])
        fragment == Made(vertex.objects, fails # "fragment", [kind |-> "shader"])
        program  == Made(fragment.objects, fails # "link", NewProgram)
        linked   == Delete(program.objects, {vertex.id, fragment.id})
    IN  CASE shader # 0 -> [objects |-> objects, id |-> shader]
          [] shader = 0 /\ (fails = "functions" \/ vertex.id = 0) ->
                [objects |-> objects, id |-> 0]
          [] shader = 0 /\ fails = "fragment" ->
                [objects |-> Delete(fragment.objects, {vertex.id}), id |-> 0]
          [] shader = 0 /\ fails = "link" -> [objects |-> linked, id |-> 0]
          [] shader = 0 /\ fails = "uniforms" ->
                [objects |-> Delete(linked, {program.id}), id |-> 0]
          [] OTHER -> [objects |-> linked, id |-> program.id]

UninitShader(objects, shader) == Delete(objects, {shader})

-----------------------------------------------------------------------------
(* VideoMesh and YUVTexture.                                                *)

NoMesh == [m_initialized |-> FALSE, ids |-> NoNames]

UninitMesh(objects, mesh) ==
    [objects |-> Delete(objects, Names(mesh.ids)), mesh |-> NoMesh]

InitMesh(objects, mesh, given) ==
    LET made == Generate(objects, given, [kind |-> "buffer"])
    IN  IF mesh.m_initialized THEN [objects |-> objects, mesh |-> mesh]
        ELSE IF given = Parts
             THEN [objects |-> made.objects,
                   mesh |-> [m_initialized |-> TRUE, ids |-> made.ids]]
             ELSE UninitMesh(made.objects, [NoMesh EXCEPT !.ids = made.ids])

NoTexture == [m_initialized |-> FALSE, size |-> "", ids |-> NoNames]

UninitTexture(objects, texture) ==
    [objects |-> Delete(objects, Names(texture.ids)), texture |-> NoTexture]

\* Mutant: textures of the old size are not given back.
Mutant_InitTexture(objects, texture, size, given) ==
    LET made == Generate(objects, given, [size |-> size, frame |-> 0])
        new  == [m_initialized |-> given = Parts, size |-> size, ids |-> made.ids]
    IN  IF texture.m_initialized /\ texture.size = size
        THEN [objects |-> objects, texture |-> texture]
        ELSE IF given = Parts THEN [objects |-> made.objects, texture |-> new]
        ELSE UninitTexture(made.objects, new)

\* Textures of another size are given back before the new ones are made.
InitTexture(objects, texture, size, given) ==
    LET cleared == UninitTexture(objects, texture).objects
        made    == Generate(cleared, given, [size |-> size, frame |-> 0])
        new     == [m_initialized |-> given = Parts, size |-> size, ids |-> made.ids]
    IN  IF texture.m_initialized /\ texture.size = size
        THEN [objects |-> objects, texture |-> texture]
        ELSE IF given = Parts THEN [objects |-> made.objects, texture |-> new]
        ELSE UninitTexture(made.objects, new)

\* A plane that does not fit its texture is refused by the driver.
Upload(objects, texture, frame, size) ==
    [n \in DOMAIN objects |->
        IF n \in Names(texture.ids) /\ objects[n].size = size
        THEN [objects[n] EXCEPT !.frame = frame] ELSE objects[n]]

UpdateYUVData(objects, texture, frame, size, given) ==
    LET resized == InitTexture(objects, texture, size, given)
    IN  [objects |-> IF resized.texture.m_initialized
                     THEN Upload(resized.objects, resized.texture, frame, size)
                     ELSE resized.objects,
         texture |-> resized.texture]

-----------------------------------------------------------------------------
(* VideoRender.                                                             *)

NoRender == [m_initialized |-> FALSE, viewport |-> "", mesh |-> NoMesh,
             texture |-> NoTexture]

\* The mesh is taken back when the textures cannot be made.
InitRender(objects, size, meshGiven, textureGiven) ==
    LET mesh    == InitMesh(objects, NoMesh, meshGiven)
        texture == InitTexture(mesh.objects, NoTexture, size, textureGiven)
    IN  CASE ~mesh.mesh.m_initialized ->
               [objects |-> mesh.objects, render |-> NoRender]
          [] mesh.mesh.m_initialized /\ ~texture.texture.m_initialized ->
               [objects |-> UninitMesh(texture.objects, mesh.mesh).objects,
                render |-> NoRender]
          [] OTHER ->
               [objects |-> texture.objects,
                render |-> [m_initialized |-> TRUE, viewport |-> size,
                            mesh |-> mesh.mesh, texture |-> texture.texture]]

UninitializeRender(objects, render) ==
    UninitMesh(UninitTexture(objects, render.texture).objects, render.mesh).objects

ResizeVideo(render, size) ==
    IF render.m_initialized THEN [render EXCEPT !.viewport = size] ELSE render

ClearBuffer(objects, render) == [objects |-> objects, render |-> render, screen |-> Black]

\* What the mesh shows: each plane as the program finds it in the texture that
\* is bound to its unit.
Picture(objects, program, render) ==
    [planes |-> [i \in Parts |-> objects[render.texture.ids[program.unit[i]]].frame],
     mirrored |-> program.mirrored, viewport |-> render.viewport]

\* The window is black if there is nothing to draw with or the textures cannot
\* be made.
DrawFrame(objects, shader, render, frame, size, mirror, given) ==
    LET updated == UpdateYUVData(objects, render.texture, frame, size, given)
        drawn   == [render EXCEPT !.texture = updated.texture]
        program == [updated.objects[shader] EXCEPT !.mirrored = mirror]
    IN  IF ~render.m_initialized \/ shader = 0 THEN ClearBuffer(objects, render)
        ELSE IF ~updated.texture.m_initialized
        THEN [objects |-> updated.objects, render |-> drawn, screen |-> Black]
        ELSE [objects |-> With(updated.objects, {shader}, program), render |-> drawn,
              screen |-> Picture(updated.objects, program, drawn)]
=============================================================================
