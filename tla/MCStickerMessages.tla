--------------------------- MODULE MCStickerMessages ---------------------------
EXTENDS StickerMessages
=============================================================================
