----------------------- MODULE MCGraphicBufferSource ------------------------
EXTENDS GraphicBufferSource

Times3 == <<{1}, {2}, {3}>>
Times4 == <<{1}, {2}, {3}, {4}>>
TimesBack3 == <<{1}, {1, 2}, {3}>>
TimesApart3 == <<{10}, {20}, {30}>>
TimesDense4 == <<{1}, {5}, {6}, {7}>>
NowAndTwo == {-1, 2}
TwoOrThree == {2, 3}
=============================================================================
