SPECIFICATION DeferredSpec
CONSTANTS
 None=None
 Raw=Raw
 xhtml=xhtml
 yhtml=yhtml
 xamp=xamp
 k1=k1
 k2=k2
 k3=k3
 fx=fx
 fy=fy
 layout=layout
 css=css
 Outputs={xhtml,yhtml,xamp}
 Stages=2
 StageOf<-PageStage
 Blocks={k1,k2,k3}
 BlockOf<-PartialBlock
 Where<-PartialWhere
 SiteFiles={fx,layout,css}
 Reads<-PageReads
 Text<-PageText
 Asset<-PageAsset
 MaxChanges=0
INVARIANT ExecutionFound
CHECK_DEADLOCK FALSE
